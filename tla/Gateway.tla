------------------------------- MODULE Gateway -------------------------------
(***************************************************************************)
(* The gateway process: HTTP handlers (internal/gateway/router.go) that    *)
(* authenticate (auth.go), resolve against the Registry, charge the        *)
(* AgentLimiter (TokenBucket), authorize and proxy, while the registry     *)
(* polls and the cluster changes between any two of their steps.           *)
(*                                                                         *)
(* A handler keeps the COPY of the backend that Resolve returned and       *)
(* authorizes with it later.  Reading the clock and taking the limiter's   *)
(* mutex are one step here; AgentLimiter takes them apart.                 *)
(*                                                                         *)
(* External: the TokenReview API (a credential is named by the account it  *)
(* belongs to; it may be revoked at any time), the proxied backends and    *)
(* the clients.                                                            *)
(***************************************************************************)
EXTENDS Registry, TokenBucket, Bags

CONSTANTS
    Requests,           \* HTTP requests, each served by a handler of its own
    NoCredential,       \* no usable Authorization header
    BadPath,            \* a path parsePath rejects
    NoBackend,          \* Resolve has returned none
    BackendStatuses,    \* the final statuses a backend may answer with
    MaxReviews,         \* capacity of the inflight channel
    MaxServerLabels,    \* limit of serverMetricLabels
    MaxAgentLabels      \* limit of agentMetricLabels

GoodRoute == [namespace : Namespaces \cup {Legacy}, name : Names]

ASSUME GatewayAssumption ==
    /\ IsFiniteSet(Requests)
    /\ NoCredential \notin Agents
    /\ BadPath \notin GoodRoute
    /\ NoBackend \notin Backend
    /\ BackendStatuses \subseteq Nat
    /\ MaxReviews \in Nat
    /\ MaxServerLabels \in Nat
    /\ MaxAgentLabels \in Nat

VARIABLES
    valid,      \* the accounts whose credential TokenReview accepts
    req,        \* req[r]: the locals of the ServeHTTP call of r
    reviews,    \* elements of the inflight channel
    buckets,    \* the limiter's buckets
    metrics     \* the metrics of metrics.go

gatewayVars == <<valid, req, reviews, buckets, metrics>>
vars == <<registryVars, gatewayVars>>

\* Values of the namespace and server labels that name no server.
Unauthenticated == [namespace |-> "", name |-> "_unauthenticated"]
Unresolved == [namespace |-> "", name |-> "_unresolved"]
Overflow == [namespace |-> "_overflow", name |-> "_overflow"]

Never == -1

\* pc is the place in ServeHTTP; backend the handler's copy; failure what
\* Resolve returned; label metricNamespace and metricServer; status the
\* recorder's; result what recordRequest makes of completed.  wasValid (the
\* credential was valid when r arrived) and decidedAt (when r was forwarded)
\* are history fields: no guard reads them.
Handler ==
    [pc : {"new", "auth", "review", "resolve", "limit", "authorize", "proxy", "done"},
     credential : Agents \cup {NoCredential},
     route : GoodRoute \cup {BadPath},
     backend : Backend \cup {NoBackend},
     failure : {Found, NotFound, Ambiguous},
     label : Servers \cup {Unauthenticated, Unresolved, Overflow},
     status : Nat,
     result : {"complete", "aborted"},
     wasValid : BOOLEAN,
     decidedAt : Time \cup {Never}]

NewHandler ==
    [pc |-> "new", credential |-> NoCredential, route |-> BadPath,
     backend |-> NoBackend, failure |-> Found, label |-> Unauthenticated,
     status |-> 200, result |-> "complete", wasValid |-> FALSE, decidedAt |-> Never]

\* total and rateLimited are the counter vectors, as bags of label values.
NoMetrics ==
    [inFlight |-> 0, total |-> EmptyBag, rateLimited |-> EmptyBag,
     serverLabels |-> {}, agentLabels |-> {}]

Init ==
    /\ RegistryInit
    /\ valid = Agents
    /\ req = [r \in Requests |-> NewHandler]
    /\ reviews = 0
    /\ buckets = [a \in {} |-> 0]
    /\ metrics = NoMetrics
-----------------------------------------------------------------------------
\* Mutant: a full table turns every label away, the admitted ones too.
AdmitsWhenNotFull(labels, limit, value) == Cardinality(labels) < limit

\* boundedLabels.admit: admissions are permanent and never exceed the limit.
Admits(labels, limit, value) == value \in labels \/ Cardinality(labels) < limit

Admit(labels, limit, value) ==
    IF Admits(labels, limit, value) THEN labels \cup {value} ELSE labels

LabelOf(labels, limit, value) ==
    IF Admits(labels, limit, value) THEN value ELSE Overflow

\* The counter c, one higher for these label values.
Inc(c, labels) == c (+) SetToBag({labels})

\* The status label of recordRequest: the status, if it is one of these, else its
\* class, or 0 for "other".
StatusLabel(status) ==
    IF status \in {200, 201, 202, 204, 400, 401, 403, 404, 405, 409, 429, 500, 502, 503, 504}
    THEN status
    ELSE IF status \in 100..599 THEN status \div 100 ELSE 0

\* The label values recordRequest counts a handler with locals x under.
Counted(x) == <<x.label, StatusLabel(x.status), x.result>>

\* Mutant: an aborted stream leaves the gauge raised.
RecordWithoutDec(m, x) ==
    [m EXCEPT !.inFlight = IF x.result = "aborted" THEN @ ELSE @ - 1,
              !.total = Inc(@, Counted(x))]

\* ServeHTTP's deferred calls: recordRequest, and the gauge goes down.
Record(m, x) == [m EXCEPT !.inFlight = @ - 1, !.total = Inc(@, Counted(x))]

\* ServeHTTP answers r itself and returns.
Reply(r, lbl, status) ==
    LET x == [req[r] EXCEPT !.pc = "done", !.label = lbl, !.status = status]
    IN  /\ req' = [req EXCEPT ![r] = x]
        /\ metrics' = Record(metrics, x)

\* ServeHTTP starts; parsePath runs now, its verdict is used later.
Arrive(r, c, p) ==
    /\ req[r].pc = "new"
    /\ req' = [req EXCEPT ![r].pc = "auth", ![r].credential = c, ![r].route = p,
                          ![r].wasValid = c \in valid]
    /\ metrics' = [metrics EXCEPT !.inFlight = @ + 1]
    /\ UNCHANGED <<valid, reviews, buckets>>

\* Authenticate without a usable bearer header: 401, and no review.
RejectCredential(r) ==
    /\ req[r].pc = "auth"
    /\ req[r].credential = NoCredential
    /\ Reply(r, Unauthenticated, 401)
    /\ UNCHANGED <<valid, reviews, buckets>>

\* The inflight channel is full: 503, without waiting.
ReviewSaturated(r) ==
    /\ req[r].pc = "auth"
    /\ req[r].credential # NoCredential
    /\ reviews >= MaxReviews
    /\ Reply(r, Unauthenticated, 503)
    /\ UNCHANGED <<valid, reviews, buckets>>

BeginReview(r) ==
    /\ req[r].pc = "auth"
    /\ req[r].credential # NoCredential
    /\ reviews < MaxReviews
    /\ reviews' = reviews + 1
    /\ req' = [req EXCEPT ![r].pc = "review"]
    /\ UNCHANGED <<valid, buckets, metrics>>

\* Mutant: the deadline frees the handler but not its slot.
ReviewFailsLeaking(r) ==
    /\ req[r].pc = "review"
    /\ Reply(r, Unauthenticated, 503)
    /\ UNCHANGED <<valid, reviews, buckets>>

\* Mutant: a review has no deadline of its own.
ReviewFailsNever(r) == req[r].pc = "done" /\ UNCHANGED gatewayVars

\* The three-second deadline, an API error or a client that went away.
ReviewFails(r) ==
    /\ req[r].pc = "review"
    /\ reviews' = reviews - 1
    /\ Reply(r, Unauthenticated, 503)
    /\ UNCHANGED <<valid, buckets>>

\* TokenReview does not vouch for the credential.
ReviewRejects(r) ==
    /\ req[r].pc = "review"
    /\ req[r].credential \notin valid
    /\ reviews' = reviews - 1
    /\ Reply(r, Unauthenticated, 401)
    /\ UNCHANGED <<valid, buckets>>

\* Mutant: an account the limiter has met before is let in unreviewed.
ReviewAcceptsCached(r) ==
    /\ req[r].pc = "review"
    /\ req[r].credential \in valid \cup DOMAIN buckets
    /\ req[r].route # BadPath
    /\ reviews' = reviews - 1
    /\ req' = [req EXCEPT ![r].pc = "resolve", ![r].label = Unresolved]
    /\ UNCHANGED <<valid, buckets, metrics>>

\* Mutant: the review's verdict is not looked at.
ReviewAcceptsUnchecked(r) ==
    /\ req[r].pc = "review"
    /\ req[r].route # BadPath
    /\ reviews' = reviews - 1
    /\ req' = [req EXCEPT ![r].pc = "resolve", ![r].label = Unresolved]
    /\ UNCHANGED <<valid, buckets, metrics>>

\* TokenReview names the account; a well-formed path goes on to Resolve.
ReviewAccepts(r) ==
    /\ req[r].pc = "review"
    /\ req[r].credential \in valid
    /\ req[r].route # BadPath
    /\ reviews' = reviews - 1
    /\ req' = [req EXCEPT ![r].pc = "resolve", ![r].label = Unresolved]
    /\ UNCHANGED <<valid, buckets, metrics>>

\* A verified caller with a malformed path: 400, before the limiter.
ReviewAcceptsBadPath(r) ==
    /\ req[r].pc = "review"
    /\ req[r].credential \in valid
    /\ req[r].route = BadPath
    /\ reviews' = reviews - 1
    /\ Reply(r, Unresolved, 400)
    /\ UNCHANGED <<valid, buckets>>

\* Resolve under the read lock, then observedServer.
ResolveServer(r) ==
    /\ req[r].pc = "resolve"
    /\ LET p == req[r].route
           e == ResolveError(backends, p.namespace, p.name)
           b == Resolve(backends, p.namespace, p.name)
       IN  \/ /\ e # Found
              /\ req' = [req EXCEPT ![r].pc = "limit", ![r].failure = e]
              /\ UNCHANGED metrics
           \/ /\ e = Found
              /\ req' = [req EXCEPT ![r].pc = "limit", ![r].backend = b,
                         ![r].label = LabelOf(metrics.serverLabels, MaxServerLabels, b.server)]
              /\ metrics' = [metrics EXCEPT
                         !.serverLabels = Admit(@, MaxServerLabels, b.server)]
    /\ UNCHANGED <<valid, reviews, buckets>>

\* The limiter says no, for the rate or for capacity: recordRateLimit, 429.
RateLimit(r) ==
    LET a == req[r].credential
        m == [metrics EXCEPT
                !.rateLimited = Inc(@, LabelOf(metrics.agentLabels, MaxAgentLabels, a)),
                !.agentLabels = Admit(@, MaxAgentLabels, a)]
        x == [req[r] EXCEPT !.pc = "done", !.status = 429]
    IN  /\ req[r].pc = "limit"
        /\ ~Allows(buckets, a, now)
        /\ buckets' = AllowAt(buckets, a, now)
        /\ req' = [req EXCEPT ![r] = x]
        /\ metrics' = Record(m, x)
        /\ UNCHANGED <<valid, reviews>>

\* The request is charged, and only then told that there is no such server.
ChargeUnresolved(r) ==
    /\ req[r].pc = "limit"
    /\ req[r].failure # Found
    /\ Allows(buckets, req[r].credential, now)
    /\ buckets' = AllowAt(buckets, req[r].credential, now)
    /\ Reply(r, req[r].label, IF req[r].failure = NotFound THEN 404 ELSE 409)
    /\ UNCHANGED <<valid, reviews>>

Charge(r) ==
    /\ req[r].pc = "limit"
    /\ req[r].failure = Found
    /\ Allows(buckets, req[r].credential, now)
    /\ buckets' = AllowAt(buckets, req[r].credential, now)
    /\ req' = [req EXCEPT ![r].pc = "authorize"]
    /\ UNCHANGED <<valid, reviews, metrics>>

\* Mutant: a policy is trusted for as long as the registry keeps it.
StaleNever(b) == b.policyObservedAt > now

\* The policy copied by Resolve is older than policyMaxAge by now.
Stale(b) == now - b.policyObservedAt > PolicyMaxAge

Deny(r) ==
    LET b == req[r].backend
        forbidden == req[r].credential \notin b.allowed
    IN  /\ req[r].pc = "authorize"
        /\ Stale(b) \/ forbidden \/ ~b.ready
        /\ Reply(r, req[r].label, IF ~Stale(b) /\ forbidden THEN 403 ELSE 503)
        /\ UNCHANGED <<valid, reviews, buckets>>

Authorized(r) ==
    LET b == req[r].backend
    IN  ~Stale(b) /\ req[r].credential \in b.allowed /\ b.ready

\* An HTTP/1 request with a body whose connection cannot go full duplex.
DuplexUnavailable(r) ==
    /\ req[r].pc = "authorize"
    /\ Authorized(r)
    /\ Reply(r, req[r].label, 500)
    /\ UNCHANGED <<valid, reviews, buckets>>

Forward(r) ==
    /\ req[r].pc = "authorize"
    /\ Authorized(r)
    /\ req' = [req EXCEPT ![r].pc = "proxy", ![r].result = "aborted",
                          ![r].decidedAt = now]
    /\ UNCHANGED <<valid, reviews, buckets, metrics>>

\* The proxied exchange ends: relayed, the backend unreachable (502), or a panic of
\* ReverseProxy (completed stays false).  1xx statuses are not captured.
ProxyDone(r) ==
    /\ req[r].pc = "proxy"
    /\ \E end \in BackendStatuses \X {"complete", "aborted"} \cup {<<502, "complete">>} :
          LET x == [req[r] EXCEPT !.pc = "done", !.status = end[1], !.result = end[2]]
          IN  /\ req' = [req EXCEPT ![r] = x]
              /\ metrics' = Record(metrics, x)
    /\ UNCHANGED <<valid, reviews, buckets>>

\* A credential expires or is revoked.
Revoke(a) ==
    /\ a \in valid
    /\ valid' = valid \ {a}
    /\ UNCHANGED <<req, reviews, buckets, metrics>>

\* What the handler of r does by itself, in bounded time.
Serve(r) ==
    \/ RejectCredential(r) \/ ReviewSaturated(r) \/ BeginReview(r) \/ ReviewFails(r)
    \/ ResolveServer(r) \/ RateLimit(r) \/ ChargeUnresolved(r) \/ Charge(r)
    \/ Deny(r) \/ DuplexUnavailable(r) \/ Forward(r)

\* What it waits for: the API server's verdict, the end of the exchange.
Answer(r) ==
    ReviewRejects(r) \/ ReviewAccepts(r) \/ ReviewAcceptsBadPath(r) \/ ProxyDone(r)

GatewayNext ==
    \/ \E r \in Requests :
          \/ \E c \in Agents \cup {NoCredential}, p \in GoodRoute \cup {BadPath} :
                Arrive(r, c, p)
          \/ Serve(r)
          \/ Answer(r)
    \/ \E a \in Agents : Revoke(a)

Next ==
    \/ RegistryNext /\ UNCHANGED gatewayVars
    \/ GatewayNext /\ UNCHANGED registryVars

Spec == Init /\ [][Next]_vars

\* Go schedules a runnable handler; nothing is assumed of the API server, of
\* the backends or of the clients.
LiveSpec == Spec /\ \A r \in Requests : WF_vars(Serve(r) /\ UNCHANGED registryVars)
-----------------------------------------------------------------------------
\* The shape of the state: semaphore within its capacity, gauge never negative.
TypeOK ==
    /\ RegistryTypeOK
    /\ valid \subseteq Agents
    /\ req \in [Requests -> Handler]
    /\ reviews \in 0..MaxReviews
    /\ DOMAIN buckets \subseteq Agents
    /\ metrics.inFlight \in Nat
    /\ IsABag(metrics.total) /\ IsABag(metrics.rateLimited)
    /\ metrics.serverLabels \subseteq Servers
    /\ metrics.agentLabels \subseteq Agents

\* The controller has reported the present generation of a live server ready.
Serving(m) == /\ ~m.deleting /\ m.ready
              /\ m.conditionGeneration = m.generation
              /\ m.observedGeneration = m.generation

\* Cluster state k allows agent a to reach server s by route p.
Permits(k, a, s, p) ==
    /\ s \in DOMAIN k
    /\ a \in k[s].allowed
    /\ Serving(k[s])
    /\ s.name = p.name
    /\ \/ p.namespace = s.namespace
       \/ p.namespace = Legacy /\ \A t \in DOMAIN k : t.name = p.name => t = s

\* The gateway's promise: a request is forwarded only if ONE cluster state that
\* was current at most policyMaxAge before the decision permits all of it: the
\* agent, the server, its readiness and the uniqueness of a legacy name.  So a
\* revocation in the MCPServer is enforced after policyMaxAge at the latest,
\* however polls fail and however long a handler sleeps between its steps.
JustifiedForward ==
    \A r \in Requests : req[r].decidedAt # Never =>
        \E h \in history :
            /\ h.at <= req[r].decidedAt
            /\ req[r].decidedAt - h.at <= PolicyMaxAge
            /\ Permits(h.cluster, req[r].credential, req[r].backend.server, req[r].route)

\* Authenticate caches no verdict: a forwarded request's own credential was
\* still valid after the request arrived, whatever earlier requests showed.
FreshAuthentication ==
    \A r \in Requests : req[r].decidedAt # Never => req[r].wasValid

\* Every way out of Authenticate gives its slot back, so saturation ends when
\* the reviews that cause it end.
ReviewSlotsConserved ==
    reviews = Cardinality({r \in Requests : req[r].pc = "review"})

\* Deferred accounting: every request is in the gauge until it is counted once,
\* under the label, status and result its handler ended with, whichever of its
\* returns it took; aborted streams are no exception.
Accounting ==
    LET started == {r \in Requests : req[r].pc # "new"}
        ended == {r \in Requests : req[r].pc = "done"}
    IN  /\ metrics.inFlight = Cardinality(started \ ended)
        /\ DOMAIN metrics.total = {Counted(req[r]) : r \in ended}
        /\ \A e \in DOMAIN metrics.total :
              metrics.total[e] = Cardinality({r \in ended : Counted(req[r]) = e})

\* observedServer names a server the same way in every request of the process,
\* also when handlers race for the last label.
LabelStability ==
    /\ Cardinality(metrics.serverLabels) <= MaxServerLabels
    /\ \A q, r \in Requests :
          (/\ req[q].backend # NoBackend
           /\ req[r].backend # NoBackend
           /\ req[q].backend.server = req[r].backend.server)
              => req[q].label = req[r].label

\* What has become of request x, in the words of AccessContract.
Call(x) ==
    [stage |-> IF x.pc = "new" THEN "absent"
               ELSE IF x.decidedAt # Never THEN "granted"
               ELSE IF x.pc = "done" THEN "refused" ELSE "pending",
     caller |-> x.credential, route |-> x.route, vouched |-> x.wasValid,
     target |-> IF x.decidedAt # Never THEN x.backend.server ELSE Unresolved]

calls == [r \in Requests |-> Call(req[r])]

Contract == INSTANCE AccessContract WITH
    Callers <- Agents \cup {NoCredential},
    Routes <- GoodRoute \cup {BadPath},
    Targets <- Servers,
    NoTarget <- Unresolved,
    MaxAge <- PolicyMaxAge,
    clock <- now,
    past <- history,
    Permitted <- Permits,
    call <- calls

\* The gateway implements AccessContract: each request is decided once, and let
\* through, by whatever interleaving of handlers, polls and changes, only as the
\* contract allows at that moment.
ImplementsContract == Contract!ContractSpec

\* docs/authentication.md: "Rate limits and audit identity use the verified
\* username, across all servers and all HTTP requests."  So ServeHTTP answers no
\* verified caller before the limiter has been asked.
VerifiedIsMetered ==
    [][\A r \in Requests :
          (req[r].pc # "done" /\ req'[r].pc = "done" /\ req'[r].label # Unauthenticated)
              => req[r].pc \in {"limit", "authorize", "proxy"}]_vars

\* Every request is answered or forwarded, even if TokenReview never replies.
EventuallyDecided ==
    \A r \in Requests : req[r].pc = "auth" ~> req[r].pc \in {"proxy", "done"}
=============================================================================
