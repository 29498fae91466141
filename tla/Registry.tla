------------------------------ MODULE Registry ------------------------------
(***************************************************************************)
(* The gateway's view of the cluster's MCPServers                          *)
(* (internal/gateway/registry.go, api/v1alpha1/readiness.go).              *)
(*                                                                         *)
(* One goroutine polls the API server; users and the controller change     *)
(* MCPServers meanwhile, also between the moment a refresh reads the       *)
(* clock, the moment the API server answers and the moment the snapshot is *)
(* published.  The API server is external: a List without a resource       *)
(* version answers with one cluster state, current at some moment of the   *)
(* call.  history is a history variable: no guard reads it.                *)
(***************************************************************************)
EXTENDS ServerLifecycle

CONSTANTS
    Agents,             \* verified ServiceAccount principals
    Namespaces, Names,  \* of MCPServers
    Legacy,             \* a route without a namespace: "/<server>/<endpoint>"
    InitialClusters,    \* the clusters a gateway may be started in
    PollInterval,       \* period of the ticker of Start, in ticks
    ListTimeout,        \* deadline of one List, in ticks
    PolicyMaxAge,       \* policyMaxAge, in ticks
    ApiLatency,         \* of TimelySpec: a refresh is over within this time
    MaxTime,            \* bound of the exploration: the last tick
    MaxEdits            \* bound of the exploration: changes to the cluster

Servers == [namespace : Namespaces, name : Names]

MCPServer == MCPServerOf(SUBSET Agents)

IsCluster(k) == /\ DOMAIN k \subseteq Servers
                /\ k \in [DOMAIN k -> MCPServer]

ASSUME RegistryAssumption ==
    /\ \A k \in InitialClusters : IsCluster(k)
    /\ Legacy \notin Namespaces
    /\ PollInterval \in Nat \ {0}
    /\ ListTimeout \in Nat
    /\ PolicyMaxAge \in Nat
    /\ ApiLatency \in 0..ListTimeout
    /\ MaxTime \in Nat
    /\ MaxEdits \in Nat

VARIABLES
    now,        \* the gateway's clock
    cluster,    \* the MCPServers in etcd: a function from the keys that exist
    edits,      \* how many times the cluster has changed
    history,    \* every cluster state so far with each time it was current
    backends,   \* r.backends
    synced,     \* r.synced
    tickReady,  \* the ticker's channel (capacity 1) holds a tick
    poll        \* the refresh in progress

registryVars == <<now, cluster, edits, history, backends, synced, tickReady, poll>>

Time == 0..MaxTime
-----------------------------------------------------------------------------
Backend == [server : Servers, ready : BOOLEAN, allowed : SUBSET Agents,
            policyObservedAt : Time]

\* Mutant: an entry carries the time it expires instead.
SnapshotDatedByExpiry(items, observedAt) ==
    [s \in DOMAIN items |-> [server |-> s, ready |-> IsReady(items[s]),
                             allowed |-> items[s].allowed,
                             policyObservedAt |-> observedAt + PolicyMaxAge]]

\* The map refresh builds from one List.
Snapshot(items, observedAt) ==
    [s \in DOMAIN items |-> [server |-> s, ready |-> IsReady(items[s]),
                             allowed |-> items[s].allowed,
                             policyObservedAt |-> observedAt]]

Matches(bs, ns, name) ==
    {s \in DOMAIN bs : s.name = name /\ ns \in {s.namespace, Legacy}}

NotFound == "ErrServerNotFound"
Ambiguous == "ErrAmbiguousServer"
Found == "found"

\* Resolve: the error, and the backend when there is none.
ResolveError(bs, ns, name) ==
    IF Matches(bs, ns, name) = {} THEN NotFound
    ELSE IF \E s, t \in Matches(bs, ns, name) : s # t THEN Ambiguous
    ELSE Found

Resolve(bs, ns, name) == bs[CHOOSE s \in Matches(bs, ns, name) : TRUE]

\* /readyz: the gateway asks for traffic once a List has succeeded.
Readyz == IF synced THEN 200 ELSE 503
-----------------------------------------------------------------------------
NoPoll == [pc |-> "idle", observedAt |-> 0, items |-> [s \in {} |-> 0]]

RegistryInit ==
    /\ now = 0
    /\ cluster \in InitialClusters
    /\ edits = 0
    /\ history = {[cluster |-> cluster, at |-> 0]}
    /\ backends = [s \in {} |-> 0]
    /\ synced = FALSE
    /\ tickReady = TRUE     \* "populate immediately, don't wait for first tick"
    /\ poll = NoPoll

\* Mutant: a tick is lost whenever a refresh is in progress.
TickUnbuffered ==
    /\ now < MaxTime
    /\ now' = now + 1
    /\ tickReady' = (tickReady \/ (poll.pc = "idle" /\ (now + 1) % PollInterval = 0))
    /\ history' = history \cup {[cluster |-> cluster, at |-> now + 1]}
    /\ UNCHANGED <<cluster, edits, backends, synced, poll>>

\* Time passes; the ticker drops a tick nobody has received yet.
Tick ==
    /\ now < MaxTime
    /\ now' = now + 1
    /\ tickReady' = (tickReady \/ (now + 1) % PollInterval = 0)
    /\ history' = history \cup {[cluster |-> cluster, at |-> now + 1]}
    /\ UNCHANGED <<cluster, edits, backends, synced, poll>>

\* The cluster changes under the gateway, which learns of it by polling only.
Change(k) ==
    /\ edits < MaxEdits
    /\ edits' = edits + 1
    /\ cluster' = k
    /\ history' = history \cup {[cluster |-> k, at |-> now]}
    /\ UNCHANGED <<now, backends, synced, tickReady, poll>>

WithServer(k, s, m) == [x \in DOMAIN k \cup {s} |-> IF x = s THEN m ELSE k[x]]

CreateServer(s, allowed) ==
    /\ s \notin DOMAIN cluster
    /\ Change(WithServer(cluster, s, Created(allowed)))

EditSpec(s, allowed) ==
    /\ s \in DOMAIN cluster
    /\ Change([cluster EXCEPT ![s] = SpecEdited(@, allowed)])

\* The controller's updateStatus.
UpdateStatus(s, ready) ==
    /\ s \in DOMAIN cluster
    /\ Change([cluster EXCEPT ![s] = StatusWritten(@, ready)])

MarkDeleting(s) ==
    /\ s \in DOMAIN cluster
    /\ ~cluster[s].deleting
    /\ Change([cluster EXCEPT ![s] = MarkedDeleting(@)])

RemoveServer(s) ==
    /\ s \in DOMAIN cluster
    /\ Change([x \in DOMAIN cluster \ {s} |-> cluster[x]])

ClusterNext ==
    \E s \in Servers :
        \/ \E allowed \in SUBSET Agents : \/ CreateServer(s, allowed)
                                          \/ EditSpec(s, allowed)
        \/ \E ready \in BOOLEAN : UpdateStatus(s, ready)
        \/ MarkDeleting(s)
        \/ RemoveServer(s)

\* refresh reads the clock before it asks.
StartRefresh ==
    /\ poll.pc = "idle"
    /\ tickReady
    /\ tickReady' = FALSE
    /\ poll' = [pc |-> "listing", observedAt |-> now, items |-> NoPoll.items]
    /\ UNCHANGED <<now, cluster, edits, history, backends, synced>>

\* The API server answers the List, unless its deadline has passed.
ListServers ==
    /\ poll.pc = "listing"
    /\ now - poll.observedAt <= ListTimeout
    /\ poll' = [pc |-> "listed", observedAt |-> poll.observedAt, items |-> cluster]
    /\ UNCHANGED <<now, cluster, edits, history, backends, synced, tickReady>>

\* An error, a timeout or a lost answer: the old snapshot stays.
ListFails ==
    /\ poll.pc \in {"listing", "listed"}
    /\ poll' = NoPoll
    /\ UNCHANGED <<now, cluster, edits, history, backends, synced, tickReady>>

\* Mutant: the snapshot is dated when it is published.
PublishDatedNow ==
    /\ poll.pc = "listed"
    /\ backends' = Snapshot(poll.items, now)
    /\ synced' = TRUE
    /\ poll' = NoPoll
    /\ UNCHANGED <<now, cluster, edits, history, tickReady>>

\* The new map replaces the old one under the write lock.
Publish ==
    /\ poll.pc = "listed"
    /\ backends' = Snapshot(poll.items, poll.observedAt)
    /\ synced' = TRUE
    /\ poll' = NoPoll
    /\ UNCHANGED <<now, cluster, edits, history, tickReady>>

PollerNext == StartRefresh \/ ListServers \/ ListFails \/ Publish

RegistryNext == Tick \/ ClusterNext \/ PollerNext

RegistrySpec == RegistryInit /\ [][RegistryNext]_registryVars

\* A healthy gateway: the poller starts a refresh as soon as it can, no List
\* fails and none takes longer than ApiLatency.
TimelyTick ==
    /\ poll.pc = "idle" => ~tickReady
    /\ poll.pc # "idle" => now - poll.observedAt < ApiLatency
    /\ Tick

TimelyNext == TimelyTick \/ ClusterNext \/ StartRefresh \/ ListServers \/ Publish

TimelySpec == RegistryInit /\ [][TimelyNext]_registryVars
-----------------------------------------------------------------------------
\* The shape of the state: published backends are well-formed and dated by a clock
\* reading.
RegistryTypeOK ==
    /\ now \in Time
    /\ IsCluster(cluster)
    /\ edits \in 0..MaxEdits
    /\ \A h \in history : IsCluster(h.cluster) /\ h.at \in Time
    /\ DOMAIN backends \subseteq Servers
    /\ backends \in [DOMAIN backends -> Backend]
    /\ synced \in BOOLEAN
    /\ tickReady \in BOOLEAN
    /\ poll.pc \in {"idle", "listing", "listed"}
    /\ poll.observedAt \in Time

\* The published map is never a mixture: it is what ONE real cluster state,
\* current no earlier than the time the map is dated with and no later than
\* now, says about every server, whatever changed during the refresh.  Only a
\* gateway that is not ready yet knows nothing.
SnapshotIsReal ==
    \/ Readyz = 503 /\ backends = [s \in {} |-> 0]
    \/ \E h \in history, o \in Time :
          /\ o <= h.at
          /\ h.at <= now
          /\ backends = Snapshot(h.cluster, o)

\* A healthy gateway never lets its policy expire: every published entry stays
\* younger than policyMaxAge if no refresh takes longer than ApiLatency.
FreshWhenHealthy ==
    \A s \in DOMAIN backends : now - backends[s].policyObservedAt <= PolicyMaxAge
=============================================================================
