---------------------------- MODULE GatewayProofs ----------------------------
(***************************************************************************)
(* Proofs about Gateway.  The invariant is a statement HandlerOK about the *)
(* locals of one ServeHTTP call.  The past only grows, the clock only      *)
(* advances and credentials are only revoked, so HandlerOK survives the    *)
(* steps of everyone else; each step of the handler itself re-establishes  *)
(* it.                                                                     *)
(***************************************************************************)
EXTENDS Gateway, RegistryProofs, FiniteSetTheorems

\* In cluster state k, route p leads to server s and to no other.
LeadsTo(k, s, p) ==
    /\ s \in DOMAIN k
    /\ s.name = p.name
    /\ \/ p.namespace = s.namespace
       \/ p.namespace = Legacy /\ \A t \in DOMAIN k : t.name = p.name => t = s

\* The copy b, reached by route p, is what the past state h says.
Vouches(h, b, p) ==
    /\ b.policyObservedAt <= h.at
    /\ h.at <= now
    /\ LeadsTo(h.cluster, b.server, p)
    /\ b.allowed = h.cluster[b.server].allowed
    /\ b.ready = IsReady(h.cluster[b.server])

CopyIsReal(x) ==
    x.backend # NoBackend => \E h \in history : Vouches(h, x.backend, x.route)

\* A handler has its copy where it is about to use it, and not before Resolve.
CopyInTime(x) ==
    /\ x.pc \in {"new", "auth", "review", "resolve"} =>
          x.backend = NoBackend /\ x.failure = Found
    /\ x.pc = "resolve" => x.route \in GoodRoute
    /\ x.pc = "limit" /\ x.failure = Found => x.backend # NoBackend
    /\ x.pc = "authorize" => x.backend # NoBackend

\* Nobody passes the review who did not arrive with a valid credential.
Verified(x) ==
    /\ x.pc \in {"auth", "review"} /\ x.credential \in valid => x.wasValid
    /\ x.pc \in {"resolve", "limit", "authorize", "proxy"} => x.wasValid
    /\ x.decidedAt # Never => x.wasValid

\* JustifiedForward for one handler.
Justified(x) ==
    x.decidedAt # Never =>
        \E h \in history :
            /\ h.at <= x.decidedAt
            /\ x.decidedAt - h.at <= PolicyMaxAge
            /\ Permits(h.cluster, x.credential, x.backend.server, x.route)

HandlerOK(x) ==
    /\ x \in Handler
    /\ CopyIsReal(x)
    /\ CopyInTime(x)
    /\ Verified(x)
    /\ Justified(x)
    /\ x.pc \notin {"proxy", "done"} => x.decidedAt = Never
    /\ x.pc = "proxy" => x.decidedAt # Never

GatewayInv ==
    /\ RegistryInv
    /\ valid \subseteq Agents
    /\ req \in [Requests -> Handler]
    /\ \A r \in Requests : HandlerOK(req[r])
-----------------------------------------------------------------------------
\* What holds of a handler goes on holding while others move.
LEMMA HandlerStable ==
    ASSUME NEW x, HandlerOK(x), RegistryInv, history \subseteq history',
           now' \in {now, now + 1}, valid' \subseteq valid
    PROVE  HandlerOK(x)'
<1>1. now \in Int /\ \A h \in history : h.at \in Int
  BY RegistryAssumption DEF RegistryInv, RegistryTypeOK, Time
<1>2. CopyIsReal(x)'
  BY <1>1 DEF HandlerOK, CopyIsReal, Vouches
<1>3. Justified(x)'
  BY DEF HandlerOK, Justified
<1>4. Verified(x)'
  BY DEF HandlerOK, Verified
<1>5. CopyInTime(x)'
  BY DEF HandlerOK, CopyInTime
<1> QED  BY <1>2, <1>3, <1>4, <1>5 DEF HandlerOK

\* A handler with locals x has returned with locals y.
Returned(x, y) ==
    /\ y \in Handler
    /\ y.pc = "done" /\ y.credential = x.credential /\ y.route = x.route
    /\ y.backend = x.backend /\ y.failure = x.failure
    /\ y.wasValid = x.wasValid /\ y.decidedAt = x.decidedAt

\* A handler that returns keeps the locals the invariant is about.
LEMMA HandlerEnds ==
    ASSUME NEW x, HandlerOK(x), NEW y, Returned(x, y)
    PROVE  HandlerOK(y)
<1>1. CopyIsReal(y) /\ CopyInTime(y)
  BY DEF Returned, HandlerOK, CopyIsReal, CopyInTime
<1>2. Verified(y) /\ Justified(y)
  BY DEF Returned, HandlerOK, Verified, Justified
<1> QED  BY <1>1, <1>2 DEF Returned, HandlerOK

\* Reply returns with the label and the status it is given.
LEMMA ReplyReturns ==
    ASSUME NEW x \in Handler, NEW status \in Nat,
           NEW lbl \in Servers \cup {Unauthenticated, Unresolved, Overflow}
    PROVE  Returned(x, [x EXCEPT !.pc = "done", !.label = lbl, !.status = status])
BY ZenonT(30) DEF Returned, Handler

\* The limiter's refusal ...
LEMMA LimitReturns ==
    ASSUME NEW x \in Handler, NEW status \in Nat
    PROVE  Returned(x, [x EXCEPT !.pc = "done", !.status = status])
BY DEF Returned, Handler

\* ... and the end of the exchange are returns of ServeHTTP ...
LEMMA ProxyReturns ==
    ASSUME NEW x \in Handler, NEW status \in Nat, NEW result \in {"complete", "aborted"}
    PROVE  Returned(x, [x EXCEPT !.pc = "done", !.status = status, !.result = result])
BY DEF Returned, Handler

\* ... that leave the label as it was.
LEMMA QuietReturns ==
    ASSUME NEW r \in Requests, req[r] \in Handler, RateLimit(r) \/ ProxyDone(r)
    PROVE  \E y : /\ Returned(req[r], y) /\ y.label = req[r].label
                  /\ req' = [req EXCEPT ![r] = y]
<1>1. CASE RateLimit(r)
  <2>1. PICK y : y = [req[r] EXCEPT !.pc = "done", !.status = 429]
    OBVIOUS
  <2>2. req' = [req EXCEPT ![r] = y]
    BY <1>1, <2>1 DEF RateLimit
  <2>3. Returned(req[r], y)
    <3>1. 429 \in Nat
      OBVIOUS
    <3> QED  BY <2>1, <3>1, LimitReturns, ZenonT(30)
  <2>4. y.label = req[r].label
    BY <2>1 DEF Handler
  <2> QED  BY <2>2, <2>3, <2>4
<1>2. CASE ProxyDone(r)
  <2>1. PICK end \in BackendStatuses \X {"complete", "aborted"} \cup {<<502, "complete">>} :
           req' = [req EXCEPT ![r] =
                      [req[r] EXCEPT !.pc = "done", !.status = end[1], !.result = end[2]]]
    BY <1>2, ZenonT(30) DEF ProxyDone
  <2>2. end[1] \in Nat /\ end[2] \in {"complete", "aborted"}
    BY <2>1, GatewayAssumption
  <2>3. PICK y : y = [req[r] EXCEPT !.pc = "done", !.status = end[1], !.result = end[2]]
    OBVIOUS
  <2>4. Returned(req[r], y)
    BY <2>2, <2>3, ProxyReturns, ZenonT(30)
  <2>5. y.label = req[r].label
    BY <2>3 DEF Handler
  <2> QED  BY <2>1, <2>3, <2>4, <2>5
<1> QED  BY <1>1, <1>2

\* Resolve on a real snapshot returns a copy that a past state vouches for.
LEMMA ResolveIsReal ==
    ASSUME RegistryInv, NEW p \in GoodRoute,
           ResolveError(backends, p.namespace, p.name) = Found
    PROVE  LET b == Resolve(backends, p.namespace, p.name)
           IN  /\ b \in Backend
               /\ \E h \in history : Vouches(h, b, p)
<1> DEFINE M == Matches(backends, p.namespace, p.name)
           b == Resolve(backends, p.namespace, p.name)
<1>1. M # {} /\ \A s, t \in M : s = t
  BY DEF ResolveError, NotFound, Ambiguous, Found
<1>2. PICK s \in M : b = backends[s]
  BY <1>1 DEF Resolve
<1>3. /\ s \in DOMAIN backends
      /\ s.name = p.name
      /\ p.namespace \in {s.namespace, Legacy}
      /\ p.namespace = Legacy => \A t \in DOMAIN backends : t.name = p.name => t = s
  BY <1>1 DEF Matches
<1>4. b \in Backend
  BY <1>2, <1>3 DEF RegistryInv, RegistryTypeOK
<1>5. PICK h \in history, o \in Time :
        o <= h.at /\ h.at <= now /\ backends = Snapshot(h.cluster, o)
  <2>1. backends # [x \in {} |-> 0]
    BY <1>3
  <2> QED  BY <2>1 DEF RegistryInv, SnapshotIsReal
<1>6. /\ DOMAIN backends = DOMAIN h.cluster
      /\ b.server = s /\ b.policyObservedAt = o
      /\ b.allowed = h.cluster[s].allowed /\ b.ready = IsReady(h.cluster[s])
  BY <1>2, <1>3, <1>5 DEF Snapshot
<1>7. LeadsTo(h.cluster, s, p)
  BY <1>3, <1>6 DEF LeadsTo
<1> QED  BY <1>4, <1>5, <1>6, <1>7 DEF Vouches

\* A fresh, allowing and ready copy justifies forwarding.
LEMMA ForwardIsJustified ==
    ASSUME RegistryInv, NEW x, HandlerOK(x), x.backend # NoBackend,
           ~Stale(x.backend), x.credential \in x.backend.allowed, x.backend.ready
    PROVE  \E h \in history :
               /\ h.at <= now
               /\ now - h.at <= PolicyMaxAge
               /\ Permits(h.cluster, x.credential, x.backend.server, x.route)
<1>1. PICK h \in history : Vouches(h, x.backend, x.route)
  BY DEF HandlerOK, CopyIsReal
<1>2. x.backend \in Backend
  BY DEF HandlerOK, Handler
<1>3. now \in Int /\ h.at \in Int /\ x.backend.policyObservedAt \in Int /\ PolicyMaxAge \in Int
  BY <1>2, RegistryAssumption DEF RegistryInv, RegistryTypeOK, Time, Backend
<1>4. h.at <= now /\ now - h.at <= PolicyMaxAge
  BY <1>1, <1>3 DEF Stale, Vouches
<1>5. Permits(h.cluster, x.credential, x.backend.server, x.route)
  BY <1>1 DEF Vouches, LeadsTo, Permits, Serving, IsReady
<1> QED  BY <1>4, <1>5
-----------------------------------------------------------------------------
\* A step of one handler that leaves the registry and the credentials alone.
LEMMA OneHandler ==
    ASSUME GatewayInv, UNCHANGED <<registryVars, valid>>,
           NEW r \in Requests, NEW y, HandlerOK(y),
           req' = [req EXCEPT ![r] = y]
    PROVE  GatewayInv'
<1>1. RegistryInv'
  BY RegistryNextInv DEF GatewayInv
<1>2. history' = history /\ now' = now /\ valid' = valid
  BY DEF registryVars
<1>3. req' \in [Requests -> Handler]
  BY DEF GatewayInv, HandlerOK
<1>4. ASSUME NEW q \in Requests, NEW z, z = req'[q] PROVE HandlerOK(z)'
  <2>1. HandlerOK(z)
    BY <1>4 DEF GatewayInv
  <2> QED  BY <1>2, <2>1, HandlerStable DEF GatewayInv
<1>5. \A q \in Requests : HandlerOK(req[q])'
  BY <1>4
<1> QED  BY <1>1, <1>2, <1>3, <1>5 DEF GatewayInv

\* ... in particular one that answers the request.
LEMMA ReplyInv ==
    ASSUME GatewayInv, UNCHANGED <<registryVars, valid>>, NEW r \in Requests,
           NEW lbl \in Servers \cup {Unauthenticated, Unresolved, Overflow},
           NEW status \in Nat, Reply(r, lbl, status)
    PROVE  GatewayInv'
<1>1. HandlerOK(req[r]) /\ req[r] \in Handler
  BY DEF GatewayInv
<1>2. PICK y : Returned(req[r], y) /\ req' = [req EXCEPT ![r] = y]
  BY <1>1, ReplyReturns DEF Reply
<1> QED  BY <1>1, <1>2, HandlerEnds, OneHandler

\* The label a handler has, or gets from observedServer, is a label.
LEMMA LabelType ==
    ASSUME NEW x \in Handler, NEW labels, NEW limit, NEW s \in Servers
    PROVE  /\ x.label \in Servers \cup {Unauthenticated, Unresolved, Overflow}
           /\ LabelOf(labels, limit, s) \in
                 Servers \cup {Unauthenticated, Unresolved, Overflow}
BY DEF Handler, LabelOf

\* A gateway that has just started satisfies the invariant.
LEMMA GatewayInitInv == Init => GatewayInv
<1> SUFFICES ASSUME Init PROVE GatewayInv
  OBVIOUS
<1>1. RegistryInv
  BY RegistryInitInv DEF Init
<1>2. NewHandler \in Handler
  BY DEF NewHandler, Handler
<1>3. HandlerOK(NewHandler)
  BY <1>2 DEF HandlerOK, CopyIsReal, CopyInTime, Verified, Justified, NewHandler
<1> QED  BY <1>1, <1>2, <1>3 DEF Init, GatewayInv

\* A request that arrives owes nothing yet.
LEMMA ArriveInv ==
    ASSUME GatewayInv, UNCHANGED registryVars, NEW r \in Requests,
           NEW c \in Agents \cup {NoCredential}, NEW p \in GoodRoute \cup {BadPath},
           Arrive(r, c, p)
    PROVE  GatewayInv'
<1>0. PICK v \in BOOLEAN : v = (c \in valid)
  <2>1. CASE c \in valid
    <3>1. TRUE = (c \in valid)
      BY <2>1
    <3> QED  BY <3>1
  <2>2. CASE c \notin valid
    <3>1. FALSE = (c \in valid)
      BY <2>2
    <3> QED  BY <3>1
  <2> QED  BY <2>1, <2>2
<1> DEFINE x == req[r]
           y == [x EXCEPT !.pc = "auth", !.credential = c, !.route = p,
                          !.wasValid = v]
<1>1. HandlerOK(x) /\ x \in Handler /\ x.pc = "new"
  BY DEF GatewayInv, Arrive
<1>2. /\ y \in Handler
      /\ y.pc = "auth" /\ y.credential = c
      /\ y.backend = x.backend /\ y.failure = x.failure
      /\ y.wasValid = v /\ y.decidedAt = x.decidedAt
  BY <1>1, ZenonT(30) DEF Handler
<1>3. req' = [req EXCEPT ![r] = y]
  BY <1>0 DEF Arrive, GatewayInv
<1>4. x.backend = NoBackend /\ x.failure = Found /\ x.decidedAt = Never
  BY <1>1 DEF HandlerOK, CopyInTime
<1> HIDE DEF x, y
<1>5. HandlerOK(y)
  BY <1>0, <1>2, <1>4 DEF HandlerOK, CopyIsReal, CopyInTime, Verified, Justified
<1> QED  BY <1>3, <1>5, OneHandler DEF Arrive

\* Taking a review slot changes no claim about the handler.
LEMMA BeginReviewInv ==
    ASSUME GatewayInv, UNCHANGED registryVars, NEW r \in Requests, BeginReview(r)
    PROVE  GatewayInv'
<1> DEFINE x == req[r]
           y == [x EXCEPT !.pc = "review"]
<1>1. HandlerOK(x) /\ x \in Handler /\ x.pc = "auth"
  BY DEF GatewayInv, BeginReview
<1>2. /\ y \in Handler
      /\ y.pc = "review" /\ y.credential = x.credential
      /\ y.backend = x.backend /\ y.failure = x.failure
      /\ y.wasValid = x.wasValid /\ y.decidedAt = x.decidedAt
  BY <1>1 DEF Handler
<1>3. req' = [req EXCEPT ![r] = y]
  BY DEF BeginReview, GatewayInv
<1> HIDE DEF x, y
<1>4. HandlerOK(y)
  BY <1>1, <1>2 DEF HandlerOK, CopyIsReal, CopyInTime, Verified, Justified
<1> QED  BY <1>3, <1>4, OneHandler DEF BeginReview

\* A credential TokenReview accepts now was valid when the request arrived:
\* a revoked one does not come back.
LEMMA ReviewAcceptsInv ==
    ASSUME GatewayInv, UNCHANGED registryVars, NEW r \in Requests, ReviewAccepts(r)
    PROVE  GatewayInv'
<1> DEFINE x == req[r]
           y == [x EXCEPT !.pc = "resolve", !.label = Unresolved]
<1>1. /\ HandlerOK(x) /\ x \in Handler /\ x.pc = "review"
      /\ x.credential \in valid /\ x.route # BadPath
  BY DEF GatewayInv, ReviewAccepts
<1>2. /\ y \in Handler
      /\ y.pc = "resolve" /\ y.credential = x.credential /\ y.route = x.route
      /\ y.backend = x.backend /\ y.failure = x.failure
      /\ y.wasValid = x.wasValid /\ y.decidedAt = x.decidedAt
  BY <1>1 DEF Handler
<1>3. req' = [req EXCEPT ![r] = y]
  BY DEF ReviewAccepts, GatewayInv
<1>4. x.route \in GoodRoute
  BY <1>1 DEF Handler
<1> HIDE DEF x, y
<1>5. HandlerOK(y)
  BY <1>1, <1>2, <1>4 DEF HandlerOK, CopyIsReal, CopyInTime, Verified, Justified
<1> QED  BY <1>3, <1>5, OneHandler DEF ReviewAccepts

\* Resolve hands the handler a copy that one past cluster state vouches for.
LEMMA ResolveServerInv ==
    ASSUME GatewayInv, UNCHANGED registryVars, NEW r \in Requests, ResolveServer(r)
    PROVE  GatewayInv'
<1> DEFINE x == req[r]
           p == x.route
           e == ResolveError(backends, p.namespace, p.name)
           b == Resolve(backends, p.namespace, p.name)
           l == LabelOf(metrics.serverLabels, MaxServerLabels, b.server)
<1>1. HandlerOK(x) /\ x \in Handler /\ x.pc = "resolve" /\ p \in GoodRoute
  BY DEF GatewayInv, ResolveServer, HandlerOK, CopyInTime
<1>2. x.backend = NoBackend /\ x.decidedAt = Never /\ x.wasValid
  BY <1>1 DEF HandlerOK, CopyInTime, Verified
<1>3. e \in {NotFound, Ambiguous, Found}
  BY DEF ResolveError
<1>4. UNCHANGED <<registryVars, valid>>
  BY DEF ResolveServer
<1>5. CASE e # Found
  <2> DEFINE y == [x EXCEPT !.pc = "limit", !.failure = e]
  <2>1. /\ y \in Handler
        /\ y.pc = "limit" /\ y.failure = e
        /\ y.backend = x.backend
        /\ y.wasValid = x.wasValid /\ y.decidedAt = x.decidedAt
    BY <1>1, <1>3 DEF Handler
  <2>2. req' = [req EXCEPT ![r] = y]
    BY <1>5 DEF ResolveServer, GatewayInv
  <2> HIDE DEF x, y, e
  <2>3. HandlerOK(y)
    BY <1>2, <1>5, <2>1 DEF HandlerOK, CopyIsReal, CopyInTime, Verified, Justified
  <2> QED  BY <1>4, <2>2, <2>3, OneHandler
<1>6. CASE e = Found
  <2> DEFINE y == [x EXCEPT !.pc = "limit", !.backend = b, !.label = l]
  <2>1. b \in Backend /\ \E h \in history : Vouches(h, b, p)
    BY <1>1, <1>6, ResolveIsReal DEF GatewayInv
  <2>2. l \in Servers \cup {Unauthenticated, Unresolved, Overflow}
    BY <1>1, <2>1, LabelType DEF Backend
  <2>3. b # NoBackend
    BY <2>1, GatewayAssumption
  <2>4. req' = [req EXCEPT ![r] = y]
    BY <1>6 DEF ResolveServer, GatewayInv
  <2> HIDE DEF b, l
  <2>5. /\ y \in Handler
        /\ y.pc = "limit" /\ y.backend = b /\ y.route = p
        /\ y.wasValid = x.wasValid /\ y.decidedAt = x.decidedAt
    BY <1>1, <2>1, <2>2 DEF Handler
  <2> HIDE DEF x, y, p
  <2>6. HandlerOK(y)
    BY <1>2, <2>1, <2>3, <2>5
       DEF HandlerOK, CopyIsReal, CopyInTime, Verified, Justified
  <2> QED  BY <1>4, <2>4, <2>6, OneHandler
<1> QED  BY <1>5, <1>6

\* Charging the limiter leaves the copied backend alone.
LEMMA ChargeInv ==
    ASSUME GatewayInv, UNCHANGED registryVars, NEW r \in Requests, Charge(r)
    PROVE  GatewayInv'
<1> DEFINE x == req[r]
           y == [x EXCEPT !.pc = "authorize"]
<1>1. HandlerOK(x) /\ x \in Handler /\ x.pc = "limit" /\ x.failure = Found
  BY DEF GatewayInv, Charge
<1>2. /\ y \in Handler
      /\ y.pc = "authorize" /\ y.credential = x.credential /\ y.route = x.route
      /\ y.backend = x.backend
      /\ y.wasValid = x.wasValid /\ y.decidedAt = x.decidedAt
  BY <1>1 DEF Handler
<1>3. req' = [req EXCEPT ![r] = y]
  BY DEF Charge, GatewayInv
<1> HIDE DEF x, y
<1>4. HandlerOK(y)
  BY <1>1, <1>2 DEF HandlerOK, CopyIsReal, CopyInTime, Verified, Justified
<1> QED  BY <1>3, <1>4, OneHandler DEF Charge

\* Forwarding is justified by the copy the handler holds.
LEMMA ForwardInv ==
    ASSUME GatewayInv, UNCHANGED registryVars, NEW r \in Requests, Forward(r)
    PROVE  GatewayInv'
<1> DEFINE x == req[r]
           y == [x EXCEPT !.pc = "proxy", !.result = "aborted", !.decidedAt = now]
<1>1. HandlerOK(x) /\ x \in Handler /\ x.pc = "authorize" /\ Authorized(r)
  BY DEF GatewayInv, Forward
<1>2. /\ y \in Handler
      /\ y.pc = "proxy" /\ y.credential = x.credential /\ y.route = x.route
      /\ y.backend = x.backend
      /\ y.wasValid = x.wasValid /\ y.decidedAt = now
  BY <1>1 DEF Handler, GatewayInv, RegistryInv, RegistryTypeOK
<1>3. req' = [req EXCEPT ![r] = y]
  BY DEF Forward, GatewayInv
<1>4. /\ x.backend # NoBackend /\ ~Stale(x.backend)
      /\ x.credential \in x.backend.allowed /\ x.backend.ready
  BY <1>1 DEF HandlerOK, CopyInTime, Authorized
<1> HIDE DEF x, y
<1>5. Justified(y)
  BY <1>1, <1>2, <1>4, ForwardIsJustified DEF GatewayInv, Justified
<1>6. now # Never
  BY RegistryAssumption DEF GatewayInv, RegistryInv, RegistryTypeOK, Time, Never
<1>7. HandlerOK(y)
  BY <1>1, <1>2, <1>5, <1>6 DEF HandlerOK, CopyIsReal, CopyInTime, Verified
<1> QED  BY <1>3, <1>7, OneHandler DEF Forward

\* ... and one that ends the handler in another way.
LEMMA QuietEndInv ==
    ASSUME GatewayInv, UNCHANGED registryVars, NEW r \in Requests,
           RateLimit(r) \/ ProxyDone(r)
    PROVE  GatewayInv'
<1>1. HandlerOK(req[r]) /\ req[r] \in Handler
  BY DEF GatewayInv
<1>2. PICK y : Returned(req[r], y) /\ req' = [req EXCEPT ![r] = y]
  BY <1>1, QuietReturns
<1>3. UNCHANGED valid
  BY DEF RateLimit, ProxyDone
<1> QED  BY <1>1, <1>2, <1>3, HandlerEnds, OneHandler

\* Every step of a handler keeps the invariant.
LEMMA ServeInv ==
    ASSUME GatewayInv, UNCHANGED registryVars, NEW r \in Requests,
           Serve(r) \/ Answer(r)
    PROVE  GatewayInv'
<1>1. req[r].label \in Servers \cup {Unauthenticated, Unresolved, Overflow}
  BY DEF GatewayInv, Handler
<1>2. CASE \/ RejectCredential(r) \/ ReviewSaturated(r) \/ ReviewFails(r)
           \/ ReviewRejects(r) \/ ReviewAcceptsBadPath(r)
  BY <1>2, ReplyInv DEF RejectCredential, ReviewSaturated, ReviewFails,
       ReviewRejects, ReviewAcceptsBadPath
<1>3. CASE ChargeUnresolved(r) \/ Deny(r) \/ DuplexUnavailable(r)
  BY <1>1, <1>3, ReplyInv DEF ChargeUnresolved, Deny, DuplexUnavailable
<1>4. CASE RateLimit(r) \/ ProxyDone(r)
  BY <1>4, QuietEndInv
<1>5. CASE BeginReview(r) \/ ReviewAccepts(r) \/ ResolveServer(r)
  BY <1>5, BeginReviewInv, ReviewAcceptsInv, ResolveServerInv
<1>6. CASE Charge(r) \/ Forward(r)
  BY <1>6, ChargeInv, ForwardInv
<1> QED  BY <1>2, <1>3, <1>4, <1>5, <1>6 DEF Serve, Answer

\* Steps of the cluster, of the poller and of the credentials' issuer.
LEMMA OthersInv ==
    ASSUME GatewayInv,
           \/ [RegistryNext]_registryVars /\ valid' = valid
           \/ UNCHANGED registryVars /\ valid' \subseteq valid,
           req' = req
    PROVE  GatewayInv'
<1>1. RegistryInv'
  BY RegistryNextInv DEF GatewayInv
<1>2. history \subseteq history' /\ now' \in {now, now + 1} /\ valid' \subseteq valid
  BY HistoryGrows DEF registryVars
<1>3. ASSUME NEW r \in Requests, NEW z, z = req[r] PROVE HandlerOK(z)'
  BY <1>2, <1>3, HandlerStable DEF GatewayInv
<1>4. \A r \in Requests : HandlerOK(req[r])'
  BY <1>3
<1> QED  BY <1>1, <1>2, <1>4 DEF GatewayInv

\* Every step of the gateway and of its surroundings keeps the invariant.
LEMMA GatewayNextInv == GatewayInv /\ [Next]_vars => GatewayInv'
<1> SUFFICES ASSUME GatewayInv, [Next]_vars PROVE GatewayInv'
  OBVIOUS
<1>1. CASE RegistryNext /\ UNCHANGED gatewayVars
  BY <1>1, OthersInv DEF gatewayVars
<1>2. CASE GatewayNext /\ UNCHANGED registryVars
  <2>1. ASSUME NEW r \in Requests, Serve(r) \/ Answer(r) PROVE GatewayInv'
    BY <1>2, <2>1, ServeInv
  <2>2. ASSUME NEW r \in Requests, NEW c \in Agents \cup {NoCredential},
               NEW p \in GoodRoute \cup {BadPath}, Arrive(r, c, p)
        PROVE  GatewayInv'
    BY <1>2, <2>2, ArriveInv
  <2>3. ASSUME NEW a \in Agents, Revoke(a) PROVE GatewayInv'
    BY <1>2, <2>3, OthersInv DEF Revoke
  <2> QED  BY <1>2, <2>1, <2>2, <2>3 DEF GatewayNext
<1>3. CASE UNCHANGED vars
  BY <1>3, OthersInv DEF vars, gatewayVars
<1> QED  BY <1>1, <1>2, <1>3 DEF Next

\* The gateway's inductive invariant holds in every reachable state.
THEOREM GatewayInvariance == Spec => []GatewayInv
BY GatewayInitInv, GatewayNextInv, PTL DEF Spec

\* Every forwarded request is permitted by one real cluster state that was
\* current at most policyMaxAge before the decision, for any cluster, any
\* number of handlers and any failures of polls and reviews.
THEOREM ForwardsAreJustified == Spec => []JustifiedForward
<1>1. GatewayInv => JustifiedForward
  BY DEF GatewayInv, HandlerOK, Justified, JustifiedForward
<1> QED  BY <1>1, GatewayInvariance, PTL

\* No request is forwarded on the strength of an earlier request's review.
THEOREM AuthenticationIsFresh == Spec => []FreshAuthentication
<1>1. GatewayInv => FreshAuthentication
  BY DEF GatewayInv, HandlerOK, Verified, FreshAuthentication
<1> QED  BY <1>1, GatewayInvariance, PTL
-----------------------------------------------------------------------------
(***************************************************************************)
(* Gateway implements AccessContract.  With the inductive invariant of     *)
(* GatewayProofs each step of a handler moves at most its own call: to     *)
(* pending when the request arrives, to granted in Forward, to refused     *)
(* when ServeHTTP answers by itself.  All other steps leave the calls      *)
(* alone.                                                                  *)
(***************************************************************************)

\* A step of one handler changes one call.
LEMMA CallMoves ==
    ASSUME NEW r \in Requests, NEW y, req \in [Requests -> Handler],
           req' = [req EXCEPT ![r] = y]
    PROVE  calls' = [calls EXCEPT ![r] = Call(y)]
BY DEF calls

\* A call is described by five fields of its handler.
LEMMA CallFields ==
    ASSUME NEW x, NEW y, y.credential = x.credential, y.route = x.route,
           y.wasValid = x.wasValid, x.decidedAt = Never, y.decidedAt = Never,
           x.pc \notin {"new", "done"}
    PROVE  /\ Call(x) = [stage |-> "pending", caller |-> x.credential, route |-> x.route,
                         vouched |-> x.wasValid, target |-> Unresolved]
           /\ y.pc \notin {"new", "done"} => Call(y) = Call(x)
           /\ y.pc = "done" =>
                 Call(y) = [stage |-> "refused", caller |-> x.credential,
                            route |-> x.route, vouched |-> x.wasValid,
                            target |-> Unresolved]
BY DEF Call

\* A handler that goes on before its decision is pending before and after.
LEMMA StaysPending ==
    ASSUME GatewayInv, NEW r \in Requests, NEW y, req' = [req EXCEPT ![r] = y],
           y.credential = req[r].credential, y.route = req[r].route,
           y.wasValid = req[r].wasValid, req[r].decidedAt = Never, y.decidedAt = Never,
           req[r].pc \notin {"new", "done"}, y.pc \notin {"new", "done"}
    PROVE  calls' = calls
<1>1. req \in [Requests -> Handler]
  BY DEF GatewayInv
<1>2. Call(y) = Call(req[r])
  BY CallFields
<1>3. calls' = [calls EXCEPT ![r] = Call(y)]
  BY <1>1, CallMoves
<1>4. Call(y) = calls[r]
  BY <1>2 DEF calls
<1> QED  BY <1>3, <1>4 DEF calls

\* ServeHTTP answers a request that was not forwarded: the contract refuses it.
LEMMA EndsRefused ==
    ASSUME GatewayInv, UNCHANGED <<registryVars, valid>>, NEW r \in Requests,
           NEW y, req' = [req EXCEPT ![r] = y],
           y.credential = req[r].credential, y.route = req[r].route,
           y.wasValid = req[r].wasValid, y.decidedAt = req[r].decidedAt,
           req[r].pc \notin {"new", "proxy", "done"}, y.pc = "done"
    PROVE  Contract!ContractNext
<1>1. req \in [Requests -> Handler] /\ req[r].decidedAt = Never
  BY DEF GatewayInv, HandlerOK
<1> DEFINE x == req[r]
<1>2. /\ calls[r] = [stage |-> "pending", caller |-> x.credential, route |-> x.route,
                     vouched |-> x.wasValid, target |-> Unresolved]
      /\ Call(y) = [stage |-> "refused", caller |-> x.credential, route |-> x.route,
                    vouched |-> x.wasValid, target |-> Unresolved]
  BY <1>1, CallFields DEF calls
<1>3. calls' = [calls EXCEPT ![r] = Call(y)]
  BY <1>1, CallMoves
<1>4. Contract!Refuse(r)
  BY <1>2, <1>3 DEF Contract!Refuse, Contract!Becomes, Contract!Stage, registryVars
<1> QED  BY <1>4 DEF Contract!ContractNext

\* ... in the form in which most handlers end.
LEMMA ReplyRefuses ==
    ASSUME GatewayInv, UNCHANGED <<registryVars, valid>>, NEW r \in Requests,
           NEW lbl \in Servers \cup {Unauthenticated, Unresolved, Overflow},
           NEW status \in Nat, Reply(r, lbl, status),
           req[r].pc \notin {"new", "proxy", "done"}
    PROVE  Contract!ContractNext
<1>1. PICK y : Returned(req[r], y) /\ req' = [req EXCEPT ![r] = y]
  BY ReplyReturns DEF Reply, GatewayInv
<1> QED  BY <1>1, EndsRefused DEF Returned
-----------------------------------------------------------------------------
\* Arrive is the contract's Ask.
LEMMA ArriveAsks ==
    ASSUME GatewayInv, UNCHANGED registryVars, NEW r \in Requests,
           NEW c \in Agents \cup {NoCredential}, NEW p \in GoodRoute \cup {BadPath},
           Arrive(r, c, p)
    PROVE  Contract!ContractNext
<1>0. PICK v \in BOOLEAN : v = (c \in valid)
  <2>1. CASE c \in valid
    <3>1. TRUE = (c \in valid)
      BY <2>1
    <3> QED  BY <3>1
  <2>2. CASE c \notin valid
    <3>1. FALSE = (c \in valid)
      BY <2>2
    <3> QED  BY <3>1
  <2> QED  BY <2>1, <2>2
<1> DEFINE x == req[r]
           y == [x EXCEPT !.pc = "auth", !.credential = c, !.route = p, !.wasValid = v]
<1>1. HandlerOK(x) /\ x \in Handler /\ x.pc = "new" /\ req \in [Requests -> Handler]
  BY DEF GatewayInv, Arrive
<1>2. /\ y.pc = "auth" /\ y.credential = c /\ y.route = p /\ y.wasValid = v
      /\ y.decidedAt = x.decidedAt
  BY <1>1 DEF Handler
<1>3. req' = [req EXCEPT ![r] = y]
  BY <1>0 DEF Arrive, GatewayInv
<1>4. x.decidedAt = Never
  BY <1>1 DEF HandlerOK
<1>5. calls[r].stage = "absent"
  BY <1>1 DEF calls, Call
<1> HIDE DEF x, y
<1>6. Call(y) = [stage |-> "pending", caller |-> c, route |-> p, vouched |-> v,
                 target |-> Unresolved]
  BY <1>2, <1>4 DEF Call
<1>7. calls' = [calls EXCEPT ![r] = Call(y)]
  BY <1>1, <1>3, CallMoves
<1>8. v <=> c \in valid
  BY <1>0
<1>9. Contract!Ask(r, c, p, v)
  BY <1>5, <1>6, <1>7, <1>8
     DEF Arrive, Contract!Ask, Contract!Becomes, Contract!Stage, registryVars
<1> QED  BY <1>9 DEF Contract!ContractNext

\* Forward is the contract's Grant: the copy the handler holds is vouched for by
\* a cluster state that is recent enough.
LEMMA ForwardGrants ==
    ASSUME GatewayInv, UNCHANGED registryVars, NEW r \in Requests, Forward(r)
    PROVE  Contract!ContractNext
<1> DEFINE x == req[r]
           y == [x EXCEPT !.pc = "proxy", !.result = "aborted", !.decidedAt = now]
           s == x.backend.server
<1>1. /\ HandlerOK(x) /\ x \in Handler /\ x.pc = "authorize" /\ Authorized(r)
      /\ req \in [Requests -> Handler] /\ RegistryInv
  BY DEF GatewayInv, Forward
<1>2. /\ y.pc = "proxy" /\ y.credential = x.credential /\ y.route = x.route
      /\ y.backend = x.backend /\ y.wasValid = x.wasValid /\ y.decidedAt = now
  BY <1>1 DEF Handler
<1>3. req' = [req EXCEPT ![r] = y]
  BY DEF Forward, GatewayInv
<1>4. /\ x.backend # NoBackend /\ ~Stale(x.backend)
      /\ x.credential \in x.backend.allowed /\ x.backend.ready
      /\ x.wasValid /\ x.decidedAt = Never
  BY <1>1 DEF HandlerOK, CopyInTime, Verified, Authorized
<1>5. s \in Servers
  BY <1>1, <1>4 DEF Handler, Backend
<1>6. x.wasValid = TRUE
  BY <1>1, <1>4 DEF Handler
<1>7. now # Never
  BY <1>1, RegistryAssumption DEF RegistryInv, RegistryTypeOK, Time, Never
<1>8. calls[r] = [stage |-> "pending", caller |-> x.credential, route |-> x.route,
                  vouched |-> x.wasValid, target |-> Unresolved]
  BY <1>1, <1>4 DEF calls, Call
<1>9. \E h \in history :
         /\ h.at <= now
         /\ now - h.at <= PolicyMaxAge
         /\ Permits(h.cluster, x.credential, s, x.route)
  BY <1>1, <1>4, ForwardIsJustified
<1> HIDE DEF x, y
<1>10. Call(y) = [stage |-> "granted", caller |-> x.credential, route |-> x.route,
                  vouched |-> TRUE, target |-> s]
  BY <1>2, <1>6, <1>7 DEF Call
<1>11. calls' = [calls EXCEPT ![r] = Call(y)]
  BY <1>1, <1>3, CallMoves
<1> HIDE DEF s
<1>12. Contract!Grant(r, s)
  BY <1>6, <1>8, <1>9, <1>10, <1>11
     DEF Forward, Contract!Grant, Contract!Becomes, Contract!Stage, registryVars
<1> QED  BY <1>5, <1>12 DEF Contract!ContractNext

\* The steps between arrival and decision are invisible to the contract.
LEMMA MiddleIsInvisible ==
    ASSUME GatewayInv, NEW r \in Requests,
           BeginReview(r) \/ ReviewAccepts(r) \/ ResolveServer(r) \/ Charge(r)
    PROVE  calls' = calls
<1> DEFINE x == req[r]
<1>1. x \in Handler /\ req \in [Requests -> Handler]
  BY DEF GatewayInv
<1>2. x.pc \in {"auth", "review", "resolve", "limit"} /\ x.decidedAt = Never
  BY DEF GatewayInv, HandlerOK, BeginReview, ReviewAccepts, ResolveServer, Charge
<1>3. \E y : /\ req' = [req EXCEPT ![r] = y]
             /\ y.credential = x.credential /\ y.route = x.route
             /\ y.wasValid = x.wasValid /\ y.decidedAt = x.decidedAt
             /\ y.pc \in {"review", "resolve", "limit", "authorize"}
  <2>1. CASE BeginReview(r)
    <3> DEFINE y == [x EXCEPT !.pc = "review"]
    <3>1. req' = [req EXCEPT ![r] = y]
      BY <1>1, <2>1 DEF BeginReview
    <3>2. /\ y.credential = x.credential /\ y.route = x.route
          /\ y.wasValid = x.wasValid /\ y.decidedAt = x.decidedAt /\ y.pc = "review"
      BY <1>1 DEF Handler
    <3> QED  BY <3>1, <3>2
  <2>2. CASE ReviewAccepts(r)
    <3> DEFINE y == [x EXCEPT !.pc = "resolve", !.label = Unresolved]
    <3>1. req' = [req EXCEPT ![r] = y]
      BY <1>1, <2>2 DEF ReviewAccepts
    <3>2. /\ y.credential = x.credential /\ y.route = x.route
          /\ y.wasValid = x.wasValid /\ y.decidedAt = x.decidedAt /\ y.pc = "resolve"
      BY <1>1 DEF Handler
    <3> QED  BY <3>1, <3>2
  <2>3. CASE ResolveServer(r)
    <3> DEFINE e == ResolveError(backends, x.route.namespace, x.route.name)
               b == Resolve(backends, x.route.namespace, x.route.name)
               l == LabelOf(metrics.serverLabels, MaxServerLabels, b.server)
               y == [x EXCEPT !.pc = "limit", !.failure = e]
               z == [x EXCEPT !.pc = "limit", !.backend = b, !.label = l]
    <3>1. req' = [req EXCEPT ![r] = y] \/ req' = [req EXCEPT ![r] = z]
      BY <1>1, <2>3 DEF ResolveServer
    <3> HIDE DEF e, b, l
    <3>2. /\ y.credential = x.credential /\ y.route = x.route
          /\ y.wasValid = x.wasValid /\ y.decidedAt = x.decidedAt /\ y.pc = "limit"
      BY <1>1 DEF Handler
    <3>3. /\ z.credential = x.credential /\ z.route = x.route
          /\ z.wasValid = x.wasValid /\ z.decidedAt = x.decidedAt /\ z.pc = "limit"
      BY <1>1 DEF Handler
    <3> HIDE DEF y, z
    <3> QED  BY <3>1, <3>2, <3>3
  <2>4. CASE Charge(r)
    <3> DEFINE y == [x EXCEPT !.pc = "authorize"]
    <3>1. req' = [req EXCEPT ![r] = y]
      BY <1>1, <2>4 DEF Charge
    <3>2. /\ y.credential = x.credential /\ y.route = x.route
          /\ y.wasValid = x.wasValid /\ y.decidedAt = x.decidedAt /\ y.pc = "authorize"
      BY <1>1 DEF Handler
    <3> QED  BY <3>1, <3>2
  <2> QED  BY <2>1, <2>2, <2>3, <2>4
<1> QED  BY <1>2, <1>3, StaysPending

\* RateLimit refuses; ProxyDone ends a call that was granted long ago.
LEMMA QuietEnds ==
    ASSUME GatewayInv, UNCHANGED registryVars, NEW r \in Requests,
           RateLimit(r) \/ ProxyDone(r)
    PROVE  Contract!ContractNext \/ UNCHANGED Contract!contractVars
<1> DEFINE x == req[r]
<1>1. x \in Handler /\ req \in [Requests -> Handler] /\ HandlerOK(x)
  BY DEF GatewayInv
<1>2. PICK y : Returned(x, y) /\ req' = [req EXCEPT ![r] = y]
  BY <1>1, QuietReturns
<1>3. /\ y.pc = "done" /\ y.credential = x.credential /\ y.route = x.route
      /\ y.backend = x.backend /\ y.wasValid = x.wasValid /\ y.decidedAt = x.decidedAt
      /\ UNCHANGED valid
  BY <1>2 DEF Returned, RateLimit, ProxyDone
<1>4. CASE RateLimit(r)
  <2>1. x.pc = "limit"
    BY <1>4 DEF RateLimit
  <2> QED  BY <1>2, <1>3, <2>1, EndsRefused
<1>5. CASE ProxyDone(r)
  <2>1. x.pc = "proxy" /\ x.decidedAt # Never
    BY <1>1, <1>5 DEF ProxyDone, HandlerOK
  <2> HIDE DEF x
  <2>2. Call(y) = Call(x)
    BY <1>3, <2>1 DEF Call
  <2>3. calls' = [calls EXCEPT ![r] = Call(x)]
    BY <1>1, <1>2, <2>2, CallMoves
  <2>4. calls' = calls
    BY <2>3 DEF calls, x
  <2> QED  BY <1>3, <2>4 DEF Contract!contractVars, registryVars
<1> QED  BY <1>4, <1>5

\* Every step of a handler is a step of the contract or none.
LEMMA ServeImplements ==
    ASSUME GatewayInv, UNCHANGED registryVars, NEW r \in Requests,
           Serve(r) \/ Answer(r)
    PROVE  Contract!ContractNext \/ UNCHANGED Contract!contractVars
<1>1. CASE \/ RejectCredential(r) \/ ReviewSaturated(r) \/ ReviewFails(r)
           \/ ReviewRejects(r) \/ ReviewAcceptsBadPath(r)
  BY <1>1, ReplyRefuses DEF RejectCredential, ReviewSaturated, ReviewFails,
       ReviewRejects, ReviewAcceptsBadPath
<1>2. CASE ChargeUnresolved(r) \/ Deny(r) \/ DuplexUnavailable(r)
  <2>1. req[r].label \in Servers \cup {Unauthenticated, Unresolved, Overflow}
    BY DEF GatewayInv, Handler
  <2> QED  BY <1>2, <2>1, ReplyRefuses DEF ChargeUnresolved, Deny, DuplexUnavailable
<1>3. CASE RateLimit(r) \/ ProxyDone(r)
  BY <1>3, QuietEnds
<1>4. CASE BeginReview(r) \/ ReviewAccepts(r) \/ ResolveServer(r) \/ Charge(r)
  <2>1. calls' = calls
    BY <1>4, MiddleIsInvisible
  <2>2. valid' = valid
    BY <1>4 DEF BeginReview, ReviewAccepts, ResolveServer, Charge
  <2> QED  BY <2>1, <2>2 DEF Contract!contractVars, registryVars
<1>5. CASE Forward(r)
  BY <1>5, ForwardGrants
<1> QED  BY <1>1, <1>2, <1>3, <1>4, <1>5 DEF Serve, Answer

\* Everyone else's steps are the contract's World.
LEMMA OthersAreTheWorld ==
    ASSUME GatewayInv, req' = req,
           \/ RegistryNext /\ valid' = valid
           \/ UNCHANGED registryVars /\ valid' \subseteq valid
    PROVE  Contract!World
<1>1. calls' = calls
  BY DEF calls
<1>2. /\ now' \in {now, now + 1} /\ history \subseteq history'
      /\ \A h \in history' \ history : h.at = now'
  <2>1. CASE UNCHANGED registryVars
    BY <2>1 DEF registryVars
  <2>2. CASE Tick
    BY <2>2 DEF Tick
  <2>3. CASE ClusterNext
    <3>1. PICK k : Change(k)
      BY <2>3 DEF ClusterNext, CreateServer, EditSpec, UpdateStatus, MarkDeleting,
           RemoveServer
    <3> QED  BY <3>1 DEF Change
  <2>4. CASE PollerNext
    BY <2>4 DEF PollerNext, StartRefresh, ListServers, ListFails, Publish
  <2> QED  BY <2>1, <2>2, <2>3, <2>4 DEF RegistryNext
<1> QED  BY <1>1, <1>2 DEF Contract!World

\* Every step of the gateway and of its surroundings is allowed by the contract.
LEMMA NextImplements ==
    GatewayInv /\ [Next]_vars => [Contract!ContractNext]_(Contract!contractVars)
<1> SUFFICES ASSUME GatewayInv, [Next]_vars
             PROVE  Contract!ContractNext \/ UNCHANGED Contract!contractVars
  OBVIOUS
<1>1. CASE RegistryNext /\ UNCHANGED gatewayVars
  BY <1>1, OthersAreTheWorld DEF gatewayVars, Contract!ContractNext
<1>2. CASE GatewayNext /\ UNCHANGED registryVars
  <2>1. ASSUME NEW r \in Requests, Serve(r) \/ Answer(r)
        PROVE  Contract!ContractNext \/ UNCHANGED Contract!contractVars
    BY <1>2, <2>1, ServeImplements
  <2>2. ASSUME NEW r \in Requests, NEW c \in Agents \cup {NoCredential},
               NEW p \in GoodRoute \cup {BadPath}, Arrive(r, c, p)
        PROVE  Contract!ContractNext
    BY <1>2, <2>2, ArriveAsks
  <2>3. ASSUME NEW a \in Agents, Revoke(a) PROVE Contract!ContractNext
    BY <1>2, <2>3, OthersAreTheWorld DEF Revoke, Contract!ContractNext
  <2> QED  BY <1>2, <2>1, <2>2, <2>3 DEF GatewayNext
<1>3. CASE UNCHANGED vars
  BY <1>3 DEF vars, gatewayVars, registryVars, Contract!contractVars, calls
<1> QED  BY <1>1, <1>2, <1>3 DEF Next

\* A gateway that has just started has decided nothing.
LEMMA InitImplements == Init => Contract!ContractInit
BY DEF Init, RegistryInit, Contract!ContractInit, calls, Call, NewHandler

\* The gateway implements its contract, for any cluster, any requests, any
\* failures of polls and reviews and any interleaving.
THEOREM GatewayImplementsContract == Spec => ImplementsContract
<1>1. GatewayInv /\ [Next]_vars => [Contract!ContractNext]_(Contract!contractVars)
  BY NextImplements
<1> QED  BY <1>1, InitImplements, GatewayInvariance, PTL
           DEF Spec, ImplementsContract, Contract!ContractSpec

-----------------------------------------------------------------------------
(***************************************************************************)
(* Proofs about what the handlers of Gateway share: the review slots, the  *)
(* limiter's buckets and the metrics.  Every step of a handler is a Move   *)
(* that takes the locals of one request from x to y and adjusts the shared *)
(* counters by what distinguishes x from y; the invariant says that each   *)
(* counter is the number of handlers it stands for, so a Move preserves it *)
(* by adding or removing one element of a finite set.                      *)
(***************************************************************************)

\* The handlers that hold a review slot, and those inside ServeHTTP.
Reviewing == {r \in Requests : req[r].pc = "review"}
Open == {r \in Requests : req[r].pc \notin {"new", "done"}}

\* The handlers that were counted under the label values e.
CountedAs(e) == {r \in Requests : req[r].pc = "done" /\ Counted(req[r]) = e}

\* m has the fields of metrics and no others.
IsMetrics(m) ==
    m = [inFlight |-> m.inFlight, total |-> m.total, rateLimited |-> m.rateLimited,
         serverLabels |-> m.serverLabels, agentLabels |-> m.agentLabels]

SlotsOK ==
    /\ reviews = Cardinality(Reviewing)
    /\ reviews <= MaxReviews

GaugeOK == metrics.inFlight = Cardinality(Open)

CountersOK ==
    /\ IsABag(metrics.total)
    /\ \A e : e \in DOMAIN metrics.total <=> CountedAs(e) # {}
    /\ \A e \in DOMAIN metrics.total : metrics.total[e] = Cardinality(CountedAs(e))

\* The handler's label is what observedServer would give its server today: the
\* name if it was admitted, and otherwise the table is full for good.
LabelFits(x) ==
    x.backend # NoBackend =>
        \/ x.label = x.backend.server /\ x.backend.server \in metrics.serverLabels
        \/ /\ x.label = Overflow
           /\ x.backend.server \notin metrics.serverLabels
           /\ Cardinality(metrics.serverLabels) >= MaxServerLabels

LabelsOK ==
    /\ metrics.serverLabels \subseteq Servers
    /\ IsFiniteSet(metrics.serverLabels)
    /\ Cardinality(metrics.serverLabels) <= MaxServerLabels
    /\ \A r \in Requests : LabelFits(req[r])

\* Only named accounts reach the limiter.
LimiterOK ==
    /\ \A r \in Requests :
          req[r].pc \in {"review", "resolve", "limit", "authorize", "proxy"} =>
              req[r].credential \in Agents
    /\ DOMAIN buckets \subseteq Agents
    /\ IsABag(metrics.rateLimited)
    /\ metrics.agentLabels \subseteq Agents

ResourceInv ==
    /\ IsMetrics(metrics)
    /\ SlotsOK
    /\ GaugeOK
    /\ CountersOK
    /\ LabelsOK
    /\ LimiterOK
-----------------------------------------------------------------------------
\* The handler of r goes from its present locals to y.
Goes(r, y) ==
    /\ y \in Handler
    /\ req' = [req EXCEPT ![r] = y]
    /\ req[r].pc # "done" /\ y.pc # "new"

\* The review slots follow: one more for a handler that enters, one fewer for
\* one that leaves.
SlotsFollow(x, y) ==
    \/ x.pc # "review" /\ y.pc # "review" /\ reviews' = reviews
    \/ x.pc # "review" /\ y.pc = "review" /\ reviews < MaxReviews /\ reviews' = reviews + 1
    \/ x.pc = "review" /\ y.pc # "review" /\ reviews' = reviews - 1

\* So does the gauge, and a handler that returns is counted.
CountsFollow(x, y) ==
    \/ /\ x.pc = "new" /\ y.pc # "done"
       /\ metrics'.inFlight = metrics.inFlight + 1 /\ metrics'.total = metrics.total
    \/ /\ x.pc # "new" /\ y.pc # "done"
       /\ metrics'.inFlight = metrics.inFlight /\ metrics'.total = metrics.total
    \/ /\ x.pc # "new" /\ y.pc = "done"
       /\ metrics'.inFlight = metrics.inFlight - 1
       /\ metrics'.total = Inc(metrics.total, Counted(y))

\* A handler gets its label with its copy, and keeps it with the copy.
LabelFollows(x, y) ==
    \/ /\ metrics'.serverLabels = metrics.serverLabels
       /\ y.backend = x.backend
       /\ x.backend # NoBackend => y.label = x.label
    \/ /\ y.backend \in Backend
       /\ y.label = LabelOf(metrics.serverLabels, MaxServerLabels, y.backend.server)
       /\ metrics'.serverLabels =
             Admit(metrics.serverLabels, MaxServerLabels, y.backend.server)

\* The limiter is asked about named accounts only.
LimiterFollows(y) ==
    /\ y.pc \in {"review", "resolve", "limit", "authorize", "proxy"} => y.credential \in Agents
    /\ DOMAIN buckets' \subseteq Agents
    /\ IsABag(metrics'.rateLimited)
    /\ metrics'.agentLabels \subseteq Agents

Move(r, y) ==
    /\ Goes(r, y)
    /\ IsMetrics(metrics')
    /\ SlotsFollow(req[r], y)
    /\ CountsFollow(req[r], y)
    /\ LabelFollows(req[r], y)
    /\ LimiterFollows(y)
-----------------------------------------------------------------------------
\* A counter that goes up by one for the label values e.
LEMMA IncEffect ==
    ASSUME NEW c, IsABag(c), NEW e
    PROVE  /\ IsABag(Inc(c, e))
           /\ DOMAIN Inc(c, e) = DOMAIN c \cup {e}
           /\ \A d \in DOMAIN c : d # e => Inc(c, e)[d] = c[d]
           /\ Inc(c, e)[e] = IF e \in DOMAIN c THEN c[e] + 1 ELSE 1
<1> DEFINE n == Inc(c, e)
<1>1. n = [d \in DOMAIN c \cup {e} |->
              (IF d \in DOMAIN c THEN c[d] ELSE 0) + (IF d \in {e} THEN 1 ELSE 0)]
  BY DEF Inc, SetToBag, (+)
<1>2. \A d \in DOMAIN c : c[d] \in Nat /\ c[d] > 0
  BY DEF IsABag
<1> HIDE DEF n
<1>3. DOMAIN n = DOMAIN c \cup {e}
  BY <1>1
<1>4. \A d \in DOMAIN c : d # e => n[d] = c[d]
  BY <1>1, <1>2
<1>5. n[e] = IF e \in DOMAIN c THEN c[e] + 1 ELSE 1
  BY <1>1, <1>2
<1>6. \A d \in DOMAIN n : n[d] \in Nat /\ n[d] > 0
  BY <1>2, <1>3, <1>4, <1>5
<1>7. IsABag(n)
  BY <1>1, <1>3, <1>6 DEF IsABag
<1> QED  BY <1>3, <1>4, <1>5, <1>7 DEF n

\* The sets the counters stand for change by the request that moves.
LEMMA SetsMove ==
    ASSUME req \in [Requests -> Handler], NEW r \in Requests, NEW y, Goes(r, y)
    PROVE  /\ Reviewing' = IF y.pc = "review" THEN Reviewing \cup {r} ELSE Reviewing \ {r}
           /\ Open' = IF y.pc = "done" THEN Open \ {r} ELSE Open \cup {r}
           /\ \A e : CountedAs(e)' = IF y.pc = "done" /\ Counted(y) = e
                                     THEN CountedAs(e) \cup {r} ELSE CountedAs(e)
           /\ r \in Reviewing <=> req[r].pc = "review"
           /\ r \in Open <=> req[r].pc # "new"
           /\ \A e : r \notin CountedAs(e)
<1>1. req'[r] = y /\ \A q \in Requests : q # r => req'[q] = req[q]
  BY DEF Goes
<1>2. Reviewing' = IF y.pc = "review" THEN Reviewing \cup {r} ELSE Reviewing \ {r}
  BY <1>1 DEF Reviewing
<1>3. Open' = IF y.pc = "done" THEN Open \ {r} ELSE Open \cup {r}
  BY <1>1 DEF Open, Goes
<1>4. ASSUME NEW e
      PROVE  CountedAs(e)' = IF y.pc = "done" /\ Counted(y) = e
                             THEN CountedAs(e) \cup {r} ELSE CountedAs(e)
  <2>1. \A q \in Requests : q # r => Counted(req[q])' = Counted(req[q])
    BY <1>1 DEF Counted
  <2>2. Counted(req[r])' = Counted(y)
    BY <1>1 DEF Counted
  <2> QED  BY <1>1, <2>1, <2>2 DEF CountedAs, Goes
<1>5. \A e : r \notin CountedAs(e)
  BY DEF CountedAs, Goes
<1>6. r \in Reviewing <=> req[r].pc = "review"
  BY DEF Reviewing
<1>7. r \in Open <=> req[r].pc # "new"
  BY DEF Open, Goes
<1> QED  BY <1>2, <1>3, <1>4, <1>5, <1>6, <1>7

\* They are finite.
LEMMA SetsFinite ==
    /\ IsFiniteSet(Reviewing) /\ IsFiniteSet(Open)
    /\ \A e : IsFiniteSet(CountedAs(e))
<1>1. /\ Reviewing \subseteq Requests /\ Open \subseteq Requests
      /\ \A e : CountedAs(e) \subseteq Requests
  BY DEF Reviewing, Open, CountedAs
<1> QED  BY <1>1, FS_Subset, GatewayAssumption
-----------------------------------------------------------------------------
\* A move keeps the count of the review slots.
LEMMA MoveSlots ==
    ASSUME req \in [Requests -> Handler], NEW r \in Requests, NEW y, Goes(r, y),
           SlotsOK, SlotsFollow(req[r], y)
    PROVE  SlotsOK'
<1>1. IsFiniteSet(Reviewing) /\ Cardinality(Reviewing) \in Nat /\ MaxReviews \in Nat
  BY SetsFinite, FS_CardinalityType, GatewayAssumption
<1>2. /\ Cardinality(Reviewing \cup {r}) =
            IF r \in Reviewing THEN Cardinality(Reviewing) ELSE Cardinality(Reviewing) + 1
      /\ Cardinality(Reviewing \ {r}) =
            IF r \in Reviewing THEN Cardinality(Reviewing) - 1 ELSE Cardinality(Reviewing)
  BY <1>1, FS_AddElement, FS_RemoveElement
<1>3. Cardinality(Reviewing') =
         IF y.pc = "review" THEN Cardinality(Reviewing \cup {r})
                            ELSE Cardinality(Reviewing \ {r})
  BY SetsMove
<1>4. r \in Reviewing <=> req[r].pc = "review"
  BY SetsMove
<1>5. reviews' = Cardinality(Reviewing')
  BY <1>1, <1>2, <1>3, <1>4 DEF SlotsOK, SlotsFollow
<1>6. reviews' <= MaxReviews
  BY <1>1 DEF SlotsOK, SlotsFollow
<1> QED  BY <1>5, <1>6 DEF SlotsOK

\* ... of the gauge ...
LEMMA MoveGauge ==
    ASSUME req \in [Requests -> Handler], NEW r \in Requests, NEW y, Goes(r, y),
           GaugeOK, CountsFollow(req[r], y)
    PROVE  GaugeOK'
<1>1. IsFiniteSet(Open) /\ Cardinality(Open) \in Nat
  BY SetsFinite, FS_CardinalityType
<1>2. /\ Cardinality(Open \cup {r}) =
            IF r \in Open THEN Cardinality(Open) ELSE Cardinality(Open) + 1
      /\ Cardinality(Open \ {r}) =
            IF r \in Open THEN Cardinality(Open) - 1 ELSE Cardinality(Open)
  BY <1>1, FS_AddElement, FS_RemoveElement
<1>3. Cardinality(Open') =
         IF y.pc = "done" THEN Cardinality(Open \ {r}) ELSE Cardinality(Open \cup {r})
  BY SetsMove
<1>4. r \in Open <=> req[r].pc # "new"
  BY SetsMove
<1> QED  BY <1>1, <1>2, <1>3, <1>4 DEF GaugeOK, CountsFollow

\* ... and of the request counter.
LEMMA MoveCounters ==
    ASSUME req \in [Requests -> Handler], NEW r \in Requests, NEW y, Goes(r, y),
           CountersOK, CountsFollow(req[r], y)
    PROVE  CountersOK'
<1>1. CASE y.pc # "done"
  <2>1. metrics'.total = metrics.total
    BY <1>1 DEF CountsFollow
  <2>2. \A e : CountedAs(e)' = CountedAs(e)
    BY <1>1, SetsMove
  <2> QED  BY <2>1, <2>2 DEF CountersOK
<1>2. CASE y.pc = "done"
  <2> DEFINE c == Counted(y)
             t == metrics.total
  <2>1. metrics'.total = Inc(t, c)
    BY <1>2 DEF CountsFollow
  <2>2. /\ CountedAs(c)' = CountedAs(c) \cup {r} /\ r \notin CountedAs(c)
        /\ \A e : e # c => CountedAs(e)' = CountedAs(e)
    BY <1>2, SetsMove
  <2>3. Cardinality(CountedAs(c) \cup {r}) = Cardinality(CountedAs(c)) + 1
    BY <2>2, SetsFinite, FS_AddElement
  <2>4. c \notin DOMAIN t => Cardinality(CountedAs(c)) = 0
    BY FS_EmptySet DEF CountersOK
  <2> HIDE DEF c, t
  <2>5. /\ IsABag(Inc(t, c))
        /\ DOMAIN Inc(t, c) = DOMAIN t \cup {c}
        /\ \A d \in DOMAIN t : d # c => Inc(t, c)[d] = t[d]
        /\ Inc(t, c)[c] = IF c \in DOMAIN t THEN t[c] + 1 ELSE 1
    BY IncEffect DEF CountersOK, t
  <2>6. \A e : e \in DOMAIN Inc(t, c) <=> CountedAs(e)' # {}
    BY <2>2, <2>5 DEF CountersOK, t
  <2>7. Inc(t, c)[c] = Cardinality(CountedAs(c)')
    BY <2>2, <2>3, <2>4, <2>5 DEF CountersOK, t
  <2>8. \A e \in DOMAIN Inc(t, c) : Inc(t, c)[e] = Cardinality(CountedAs(e)')
    BY <2>2, <2>5, <2>7 DEF CountersOK, t
  <2> QED  BY <2>1, <2>5, <2>6, <2>8 DEF CountersOK
<1> QED  BY <1>1, <1>2

\* Labels are admitted for good, and once the table is full no more are.
LEMMA MoveLabels ==
    ASSUME req \in [Requests -> Handler], NEW r \in Requests, NEW y, Goes(r, y),
           LabelsOK, LabelFollows(req[r], y)
    PROVE  LabelsOK'
<1> DEFINE L == metrics.serverLabels
           L1 == metrics'.serverLabels
<1>1. IsFiniteSet(L) /\ Cardinality(L) \in Nat /\ MaxServerLabels \in Nat
  BY FS_CardinalityType, GatewayAssumption DEF LabelsOK
<1>2. req'[r] = y /\ \A q \in Requests : q # r => req'[q] = req[q]
  BY DEF Goes
<1>3. CASE L1 = L /\ y.backend = req[r].backend
             /\ (req[r].backend # NoBackend => y.label = req[r].label)
  <2>1. \A q \in Requests : LabelFits(req[q])'
    BY <1>2, <1>3 DEF LabelsOK, LabelFits
  <2> QED  BY <1>3, <2>1 DEF LabelsOK
<1>4. CASE /\ y.backend \in Backend
           /\ y.label = LabelOf(L, MaxServerLabels, y.backend.server)
           /\ L1 = Admit(L, MaxServerLabels, y.backend.server)
  <2> DEFINE s == y.backend.server
  <2>1. s \in Servers /\ y.backend # NoBackend
    BY <1>4, GatewayAssumption DEF Backend
  <2>2. /\ IsFiniteSet(L \cup {s})
        /\ Cardinality(L \cup {s}) =
              IF s \in L THEN Cardinality(L) ELSE Cardinality(L) + 1
    BY <1>1, FS_AddElement
  <2>3. CASE s \in L \/ Cardinality(L) < MaxServerLabels
    <3>1. L1 = L \cup {s} /\ y.label = s
      BY <1>4, <2>3 DEF Admit, Admits, LabelOf
    <3> HIDE DEF s, L, L1
    <3>2. IsFiniteSet(L1) /\ L1 \subseteq Servers /\ Cardinality(L1) <= MaxServerLabels
      BY <1>1, <2>1, <2>2, <2>3, <3>1 DEF LabelsOK, L
    <3>3. Cardinality(L) >= MaxServerLabels => L1 = L
      BY <1>1, <2>3, <3>1
    <3>4. ASSUME NEW q \in Requests PROVE LabelFits(req[q])'
      <4>1. CASE q = r
        BY <1>2, <3>1, <4>1 DEF LabelFits, s, L1
      <4>2. CASE q # r
        BY <1>2, <3>1, <3>3, <4>2 DEF LabelsOK, LabelFits, L, L1
      <4> QED  BY <4>1, <4>2
    <3> QED  BY <3>2, <3>4 DEF LabelsOK, L1
  <2>4. CASE ~(s \in L \/ Cardinality(L) < MaxServerLabels)
    <3>1. L1 = L /\ y.label = Overflow
      BY <1>4, <2>4 DEF Admit, Admits, LabelOf
    <3>2. ASSUME NEW q \in Requests PROVE LabelFits(req[q])'
      <4>1. CASE q = r
        BY <1>1, <1>2, <2>4, <3>1, <4>1 DEF LabelFits
      <4>2. CASE q # r
        BY <1>2, <3>1, <4>2 DEF LabelsOK, LabelFits
      <4> QED  BY <4>1, <4>2
    <3> QED  BY <3>1, <3>2 DEF LabelsOK
  <2> QED  BY <2>3, <2>4
<1> QED  BY <1>3, <1>4 DEF LabelFollows

\* A move keeps the limiter and its metrics to named accounts.
LEMMA MoveLimiter ==
    ASSUME req \in [Requests -> Handler], NEW r \in Requests, NEW y, Goes(r, y),
           LimiterOK, LimiterFollows(y)
    PROVE  LimiterOK'
<1>1. req'[r] = y /\ \A q \in Requests : q # r => req'[q] = req[q]
  BY DEF Goes
<1> QED  BY <1>1 DEF LimiterOK, LimiterFollows

\* So every move keeps the whole invariant.
LEMMA MoveInv ==
    ASSUME GatewayInv, ResourceInv, NEW r \in Requests, NEW y, Move(r, y)
    PROVE  ResourceInv'
<1>1. req \in [Requests -> Handler] /\ Goes(r, y)
  BY DEF GatewayInv, Move
<1>2. SlotsOK' /\ GaugeOK' /\ CountersOK'
  BY <1>1, MoveSlots, MoveGauge, MoveCounters DEF ResourceInv, Move
<1>3. LabelsOK' /\ LimiterOK'
  BY <1>1, MoveLabels, MoveLimiter DEF ResourceInv, Move
<1> QED  BY <1>2, <1>3 DEF ResourceInv, Move
-----------------------------------------------------------------------------
\* What the deferred calls do to the metrics.
LEMMA RecordEffect ==
    ASSUME NEW m, IsMetrics(m), NEW x
    PROVE  /\ IsMetrics(Record(m, x))
           /\ Record(m, x).inFlight = m.inFlight - 1
           /\ Record(m, x).total = Inc(m.total, Counted(x))
           /\ Record(m, x).rateLimited = m.rateLimited
           /\ Record(m, x).serverLabels = m.serverLabels
           /\ Record(m, x).agentLabels = m.agentLabels
<1>1. PICK c : c = Inc(m.total, Counted(x))
  OBVIOUS
<1>2. Record(m, x) = [m EXCEPT !.inFlight = @ - 1, !.total = c]
  BY <1>1 DEF Record
<1>3. PICK g : g = m.inFlight - 1
  OBVIOUS
<1>4. Record(m, x) = [inFlight |-> g, total |-> c, rateLimited |-> m.rateLimited,
                      serverLabels |-> m.serverLabels, agentLabels |-> m.agentLabels]
  BY <1>2, <1>3 DEF IsMetrics
<1> QED  BY <1>1, <1>3, <1>4 DEF IsMetrics

\* AllowAt gives a bucket to nobody but the agent that asks.
LEMMA AllowAtDomain ==
    ASSUME NEW bs, NEW a, NEW t
    PROVE  DOMAIN AllowAt(bs, a, t) \subseteq DOMAIN bs \cup {a}
<1>1. DOMAIN Sweep(bs, a, t) \subseteq DOMAIN bs
  BY DEF Sweep
<1>2. \A s, b : DOMAIN WithBucket(s, a, b) = DOMAIN s \cup {a}
  BY DEF WithBucket
<1> QED  BY <1>1, <1>2 DEF AllowAt

\* Answering a request is a move, whatever the answer.
LEMMA ReplyMoves ==
    ASSUME GatewayInv, ResourceInv, NEW r \in Requests,
           NEW lbl \in Servers \cup {Unauthenticated, Unresolved, Overflow},
           NEW status \in Nat, Reply(r, lbl, status),
           req[r].pc \notin {"new", "done"},
           req[r].backend # NoBackend => lbl = req[r].label,
           IF req[r].pc = "review" THEN reviews' = reviews - 1 ELSE reviews' = reviews,
           DOMAIN buckets' \subseteq Agents
    PROVE  \E y : Move(r, y)
<1>1. PICK y : y = [req[r] EXCEPT !.pc = "done", !.label = lbl, !.status = status]
  OBVIOUS
<1>2. req[r] \in Handler
  BY DEF GatewayInv
<1>3. Returned(req[r], y) /\ y.label = lbl
  <2>1. Returned(req[r], y)
    BY <1>1, <1>2, ReplyReturns
  <2>2. y.label = lbl
    BY <1>1, <1>2 DEF Handler
  <2> QED  BY <2>1, <2>2
<1>4. req' = [req EXCEPT ![r] = y] /\ metrics' = Record(metrics, y)
  BY <1>1 DEF Reply
<1>5. Goes(r, y) /\ SlotsFollow(req[r], y)
  BY <1>3, <1>4 DEF Goes, Returned, SlotsFollow
<1>6. IsMetrics(metrics)
  BY DEF ResourceInv
<1>7. IsMetrics(metrics') /\ CountsFollow(req[r], y)
  BY <1>3, <1>4, <1>6, RecordEffect DEF Returned, CountsFollow
<1>8. LabelFollows(req[r], y)
  BY <1>3, <1>4, <1>6, RecordEffect DEF Returned, LabelFollows
<1>9. LimiterFollows(y)
  BY <1>3, <1>4, <1>6, RecordEffect DEF Returned, LimiterFollows, ResourceInv, LimiterOK
<1> QED  BY <1>5, <1>7, <1>8, <1>9 DEF Move

\* So is going on to the next step of ServeHTTP with the same copy.
LEMMA StepMoves ==
    ASSUME GatewayInv, ResourceInv, NEW r \in Requests, NEW y \in Handler,
           req' = [req EXCEPT ![r] = y],
           req[r].pc \notin {"new", "done"}, y.pc \notin {"new", "done"},
           y.backend = req[r].backend, req[r].backend # NoBackend => y.label = req[r].label,
           y.credential \in Agents, DOMAIN buckets' \subseteq Agents,
           SlotsFollow(req[r], y), UNCHANGED metrics
    PROVE  Move(r, y)
<1>1. Goes(r, y) /\ IsMetrics(metrics')
  BY DEF Goes, ResourceInv
<1>2. CountsFollow(req[r], y) /\ LabelFollows(req[r], y)
  BY DEF CountsFollow, LabelFollows
<1>3. LimiterFollows(y)
  BY DEF LimiterFollows, ResourceInv, LimiterOK
<1> QED  BY <1>1, <1>2, <1>3 DEF Move

\* A request that arrives raises the gauge.
LEMMA ArriveMoves ==
    ASSUME GatewayInv, ResourceInv, NEW r \in Requests,
           NEW c \in Agents \cup {NoCredential}, NEW p \in GoodRoute \cup {BadPath},
           Arrive(r, c, p)
    PROVE  \E y : Move(r, y)
<1>0. PICK v \in BOOLEAN : v = (c \in valid)
  <2>1. CASE c \in valid
    <3>1. TRUE = (c \in valid)
      BY <2>1
    <3> QED  BY <3>1
  <2>2. CASE c \notin valid
    <3>1. FALSE = (c \in valid)
      BY <2>2
    <3> QED  BY <3>1
  <2> QED  BY <2>1, <2>2
<1>1. PICK x \in Handler : x = req[r] /\ x.pc = "new"
  BY DEF GatewayInv, Arrive
<1>2. PICK y : y = [x EXCEPT !.pc = "auth", !.credential = c, !.route = p, !.wasValid = v]
  OBVIOUS
<1>3. /\ y \in Handler /\ y.pc = "auth"
      /\ y.backend = x.backend /\ y.label = x.label
  BY <1>2 DEF Handler
<1>4. req' = [req EXCEPT ![r] = y]
  BY <1>0, <1>1, <1>2 DEF Arrive, GatewayInv
<1>5. Goes(r, y) /\ SlotsFollow(req[r], y)
  BY <1>1, <1>3, <1>4 DEF Goes, SlotsFollow, Arrive
<1>6. IsMetrics(metrics)
  BY DEF ResourceInv
<1>7. /\ IsMetrics(metrics')
      /\ metrics'.inFlight = metrics.inFlight + 1 /\ metrics'.total = metrics.total
      /\ metrics'.serverLabels = metrics.serverLabels
      /\ metrics'.rateLimited = metrics.rateLimited
      /\ metrics'.agentLabels = metrics.agentLabels
  <2>1. PICK g : g = metrics.inFlight + 1
    OBVIOUS
  <2>2. metrics' = [metrics EXCEPT !.inFlight = g]
    BY <2>1 DEF Arrive
  <2>3. metrics' = [inFlight |-> g, total |-> metrics.total,
                    rateLimited |-> metrics.rateLimited,
                    serverLabels |-> metrics.serverLabels,
                    agentLabels |-> metrics.agentLabels]
    BY <1>6, <2>2 DEF IsMetrics
  <2> QED  BY <2>1, <2>3 DEF IsMetrics
<1>8. CountsFollow(req[r], y) /\ LabelFollows(req[r], y)
  BY <1>1, <1>3, <1>7 DEF CountsFollow, LabelFollows
<1>9. LimiterFollows(y)
  BY <1>3, <1>7 DEF LimiterFollows, ResourceInv, LimiterOK, Arrive
<1> QED  BY <1>5, <1>7, <1>8, <1>9 DEF Move

\* The steps between authentication and the exchange that count nothing.
LEMMA InnerMoves ==
    ASSUME GatewayInv, ResourceInv, NEW r \in Requests,
           BeginReview(r) \/ ReviewAccepts(r) \/ Charge(r) \/ Forward(r)
    PROVE  \E y : Move(r, y)
<1>1. PICK x \in Handler : x = req[r]
  BY DEF GatewayInv
<1>2. req \in [Requests -> Handler] /\ HandlerOK(x)
  BY <1>1 DEF GatewayInv
<1>3. /\ x.pc \in {"review", "limit", "authorize"} => x.credential \in Agents
      /\ DOMAIN buckets \subseteq Agents
  BY <1>1 DEF ResourceInv, LimiterOK
<1>4. CASE BeginReview(r)
  <2>1. PICK y : y = [x EXCEPT !.pc = "review"]
    OBVIOUS
  <2>2. /\ y \in Handler /\ y.pc = "review" /\ y.backend = x.backend
        /\ y.label = x.label /\ y.credential = x.credential
    BY <2>1 DEF Handler
  <2>3. req' = [req EXCEPT ![r] = y]
    BY <1>1, <1>2, <1>4, <2>1 DEF BeginReview
  <2>4. x.pc = "auth" /\ x.credential \in Agents
    BY <1>1, <1>4 DEF BeginReview, Handler
  <2>5. SlotsFollow(x, y)
    BY <1>4, <2>2, <2>4 DEF BeginReview, SlotsFollow
  <2>6. DOMAIN buckets' \subseteq Agents /\ UNCHANGED metrics
    BY <1>3, <1>4 DEF BeginReview
  <2> QED  BY <1>1, <2>2, <2>3, <2>4, <2>5, <2>6, StepMoves
<1>5. CASE ReviewAccepts(r)
  <2>1. PICK y : y = [x EXCEPT !.pc = "resolve", !.label = Unresolved]
    OBVIOUS
  <2>2. /\ y \in Handler /\ y.pc = "resolve" /\ y.backend = x.backend
        /\ y.credential = x.credential
    BY <2>1 DEF Handler
  <2>3. req' = [req EXCEPT ![r] = y]
    BY <1>1, <1>2, <1>5, <2>1 DEF ReviewAccepts
  <2>4. x.pc = "review" /\ x.credential \in Agents /\ x.backend = NoBackend
    BY <1>1, <1>2, <1>3, <1>5 DEF ReviewAccepts, HandlerOK, CopyInTime
  <2>5. SlotsFollow(x, y)
    BY <1>5, <2>2, <2>4 DEF ReviewAccepts, SlotsFollow
  <2>6. DOMAIN buckets' \subseteq Agents /\ UNCHANGED metrics
    BY <1>3, <1>5 DEF ReviewAccepts
  <2> QED  BY <1>1, <2>2, <2>3, <2>4, <2>5, <2>6, StepMoves
<1>6. CASE Charge(r)
  <2>1. PICK y : y = [x EXCEPT !.pc = "authorize"]
    OBVIOUS
  <2>2. /\ y \in Handler /\ y.pc = "authorize" /\ y.backend = x.backend
        /\ y.label = x.label /\ y.credential = x.credential
    BY <2>1 DEF Handler
  <2>3. req' = [req EXCEPT ![r] = y]
    BY <1>1, <1>2, <1>6, <2>1 DEF Charge
  <2>4. x.pc = "limit" /\ x.credential \in Agents
    BY <1>1, <1>3, <1>6 DEF Charge
  <2>5. SlotsFollow(x, y)
    BY <1>6, <2>2, <2>4 DEF Charge, SlotsFollow
  <2>6. DOMAIN buckets' \subseteq Agents /\ UNCHANGED metrics
    BY <1>1, <1>3, <1>6, <2>4, AllowAtDomain DEF Charge
  <2> QED  BY <1>1, <2>2, <2>3, <2>4, <2>5, <2>6, StepMoves
<1>7. CASE Forward(r)
  <2>1. PICK y : y = [x EXCEPT !.pc = "proxy", !.result = "aborted", !.decidedAt = now]
    OBVIOUS
  <2>2. /\ y \in Handler /\ y.pc = "proxy" /\ y.backend = x.backend
        /\ y.label = x.label /\ y.credential = x.credential
    BY <2>1 DEF Handler, GatewayInv, RegistryInv, RegistryTypeOK
  <2>3. req' = [req EXCEPT ![r] = y]
    BY <1>1, <1>2, <1>7, <2>1 DEF Forward
  <2>4. x.pc = "authorize" /\ x.credential \in Agents
    BY <1>1, <1>3, <1>7 DEF Forward
  <2>5. SlotsFollow(x, y)
    BY <1>7, <2>2, <2>4 DEF Forward, SlotsFollow
  <2>6. DOMAIN buckets' \subseteq Agents /\ UNCHANGED metrics
    BY <1>3, <1>7 DEF Forward
  <2> QED  BY <1>1, <2>2, <2>3, <2>4, <2>5, <2>6, StepMoves
<1> QED  BY <1>4, <1>5, <1>6, <1>7

\* Resolve gives the handler its copy and, with it, its label.
LEMMA ResolveMoves ==
    ASSUME GatewayInv, ResourceInv, UNCHANGED registryVars, NEW r \in Requests,
           ResolveServer(r)
    PROVE  \E y : Move(r, y)
<1>1. PICK x \in Handler : x = req[r]
  BY DEF GatewayInv
<1>2. /\ HandlerOK(x) /\ x.pc = "resolve" /\ x.route \in GoodRoute
      /\ x.backend = NoBackend
  BY <1>1 DEF GatewayInv, ResolveServer, HandlerOK, CopyInTime
<1>3. x.credential \in Agents /\ DOMAIN buckets' \subseteq Agents
  BY <1>1, <1>2 DEF ResourceInv, LimiterOK, ResolveServer
<1> DEFINE e == ResolveError(backends, x.route.namespace, x.route.name)
           b == Resolve(backends, x.route.namespace, x.route.name)
           l == LabelOf(metrics.serverLabels, MaxServerLabels, b.server)
<1>4. CASE e # Found
  <2>1. PICK y : y = [x EXCEPT !.pc = "limit", !.failure = e]
    OBVIOUS
  <2>2. e \in {NotFound, Ambiguous, Found}
    BY DEF ResolveError
  <2>3. /\ y \in Handler /\ y.pc = "limit" /\ y.backend = x.backend
        /\ y.label = x.label /\ y.credential = x.credential
    BY <2>1, <2>2 DEF Handler
  <2>4. req' = [req EXCEPT ![r] = y] /\ UNCHANGED <<metrics, reviews>>
    BY <1>1, <1>4, <2>1 DEF ResolveServer, GatewayInv
  <2>5. SlotsFollow(x, y)
    BY <1>2, <2>3, <2>4 DEF SlotsFollow
  <2> QED  BY <1>1, <1>2, <1>3, <2>3, <2>4, <2>5, StepMoves
<1>5. CASE e = Found
  <2>1. b \in Backend
    BY <1>2, <1>5, ResolveIsReal DEF GatewayInv
  <2>2. l \in Servers \cup {Unauthenticated, Unresolved, Overflow}
    BY <2>1, LabelType DEF Backend
  <2>3. PICK y : y = [x EXCEPT !.pc = "limit", !.backend = b, !.label = l]
    OBVIOUS
  <2>4. /\ y \in Handler /\ y.pc = "limit" /\ y.backend = b
        /\ y.label = l /\ y.credential = x.credential
    <3> HIDE DEF b, l
    <3> QED  BY <2>1, <2>2, <2>3 DEF Handler
  <2>5. req' = [req EXCEPT ![r] = y]
    BY <1>1, <1>5, <2>3 DEF ResolveServer, GatewayInv
  <2>6. PICK a : a = Admit(metrics.serverLabels, MaxServerLabels, b.server)
    OBVIOUS
  <2>7. metrics' = [metrics EXCEPT !.serverLabels = a] /\ UNCHANGED reviews
    BY <1>1, <1>5, <2>6 DEF ResolveServer
  <2>8. metrics' = [inFlight |-> metrics.inFlight, total |-> metrics.total,
                    rateLimited |-> metrics.rateLimited, serverLabels |-> a,
                    agentLabels |-> metrics.agentLabels]
    BY <2>7 DEF ResourceInv, IsMetrics
  <2> HIDE DEF b, l, e
  <2>9. Goes(r, y) /\ SlotsFollow(x, y)
    BY <1>1, <1>2, <2>4, <2>5, <2>7 DEF Goes, SlotsFollow
  <2>10. IsMetrics(metrics') /\ CountsFollow(x, y)
    BY <1>2, <2>4, <2>8 DEF IsMetrics, CountsFollow
  <2>11. LabelFollows(x, y)
    BY <2>1, <2>4, <2>6, <2>8 DEF LabelFollows, l
  <2>12. LimiterFollows(y)
    BY <1>3, <2>4, <2>8 DEF LimiterFollows, ResourceInv, LimiterOK
  <2> QED  BY <1>1, <2>9, <2>10, <2>11, <2>12 DEF Move
<1> QED  BY <1>4, <1>5

\* The limiter's refusal is counted twice, in two counters.
LEMMA RateLimitMoves ==
    ASSUME GatewayInv, ResourceInv, NEW r \in Requests, RateLimit(r)
    PROVE  \E y : Move(r, y)
<1>1. PICK x \in Handler : x = req[r] /\ x.pc = "limit"
  BY DEF GatewayInv, RateLimit
<1>2. PICK y : y = [x EXCEPT !.pc = "done", !.status = 429]
  OBVIOUS
<1>3. Returned(x, y) /\ y.label = x.label
  <2>1. 429 \in Nat
    OBVIOUS
  <2>2. Returned(x, y)
    BY <1>2, <2>1, LimitReturns, ZenonT(30)
  <2>3. y.label = x.label
    BY <1>2 DEF Handler
  <2> QED  BY <2>2, <2>3
<1>4. x.credential \in Agents /\ DOMAIN buckets \subseteq Agents
  BY <1>1 DEF ResourceInv, LimiterOK
<1>5. PICK t : t = Inc(metrics.rateLimited,
                       LabelOf(metrics.agentLabels, MaxAgentLabels, x.credential))
  OBVIOUS
<1>6. PICK a : a = Admit(metrics.agentLabels, MaxAgentLabels, x.credential)
  OBVIOUS
<1>7. PICK m : m = [metrics EXCEPT !.rateLimited = t, !.agentLabels = a]
  OBVIOUS
<1>8. /\ metrics' = Record(m, y)
      /\ req' = [req EXCEPT ![r] = y]
      /\ buckets' = AllowAt(buckets, x.credential, now) /\ UNCHANGED reviews
  BY <1>1, <1>2, <1>5, <1>6, <1>7 DEF RateLimit
<1>9. m = [inFlight |-> metrics.inFlight, total |-> metrics.total, rateLimited |-> t,
           serverLabels |-> metrics.serverLabels, agentLabels |-> a]
  BY <1>7 DEF ResourceInv, IsMetrics
<1>10. IsMetrics(m)
  BY <1>9 DEF IsMetrics
<1>11. Goes(r, y) /\ SlotsFollow(x, y)
  BY <1>1, <1>3, <1>8 DEF Goes, Returned, SlotsFollow
<1>12. IsMetrics(metrics') /\ CountsFollow(x, y)
  BY <1>1, <1>3, <1>8, <1>9, <1>10, RecordEffect DEF Returned, CountsFollow
<1>13. LabelFollows(x, y)
  BY <1>3, <1>8, <1>9, <1>10, RecordEffect DEF Returned, LabelFollows
<1>14. metrics'.rateLimited = t /\ metrics'.agentLabels = a
  BY <1>8, <1>9, <1>10, RecordEffect
<1>15. IsABag(t) /\ a \subseteq Agents
  BY <1>4, <1>5, <1>6, IncEffect DEF ResourceInv, LimiterOK, Admit
<1>16. LimiterFollows(y)
  BY <1>3, <1>4, <1>8, <1>14, <1>15, AllowAtDomain DEF Returned, LimiterFollows
<1> QED  BY <1>1, <1>11, <1>12, <1>13, <1>16 DEF Move

\* So is the end of a proxied exchange, complete or aborted, counted.
LEMMA ProxyDoneMoves ==
    ASSUME GatewayInv, ResourceInv, NEW r \in Requests, ProxyDone(r)
    PROVE  \E y : Move(r, y)
<1>1. PICK x \in Handler : x = req[r] /\ x.pc = "proxy"
  BY DEF GatewayInv, ProxyDone
<1>2. PICK end \in BackendStatuses \X {"complete", "aborted"} \cup {<<502, "complete">>} :
         LET y == [x EXCEPT !.pc = "done", !.status = end[1], !.result = end[2]]
         IN  req' = [req EXCEPT ![r] = y] /\ metrics' = Record(metrics, y)
  BY <1>1, ZenonT(30) DEF ProxyDone
<1>3. end[1] \in Nat /\ end[2] \in {"complete", "aborted"}
  BY <1>2, GatewayAssumption
<1>4. PICK y : y = [x EXCEPT !.pc = "done", !.status = end[1], !.result = end[2]]
  OBVIOUS
<1>5. Returned(x, y)
  BY <1>3, <1>4, ProxyReturns, ZenonT(30)
<1>6. y.label = x.label
  BY <1>4 DEF Handler
<1>7. req' = [req EXCEPT ![r] = y] /\ metrics' = Record(metrics, y)
  BY <1>2, <1>4
<1>8. Goes(r, y) /\ SlotsFollow(x, y)
  BY <1>1, <1>5, <1>7 DEF Goes, Returned, SlotsFollow, ProxyDone
<1>9. IsMetrics(metrics)
  BY DEF ResourceInv
<1>10. IsMetrics(metrics') /\ CountsFollow(x, y)
  BY <1>1, <1>5, <1>7, <1>9, RecordEffect DEF Returned, CountsFollow
<1>11. LabelFollows(x, y)
  BY <1>5, <1>6, <1>7, <1>9, RecordEffect DEF Returned, LabelFollows
<1>12. LimiterFollows(y)
  BY <1>5, <1>7, <1>9, RecordEffect DEF Returned, LimiterFollows, ResourceInv, LimiterOK, ProxyDone
<1> QED  BY <1>1, <1>8, <1>10, <1>11, <1>12 DEF Move

\* The answers of ServeHTTP, one by one.
LEMMA AnswerMoves ==
    ASSUME GatewayInv, ResourceInv, NEW r \in Requests,
           \/ RejectCredential(r) \/ ReviewSaturated(r) \/ ReviewFails(r)
           \/ ReviewRejects(r) \/ ReviewAcceptsBadPath(r)
           \/ ChargeUnresolved(r) \/ Deny(r) \/ DuplexUnavailable(r)
    PROVE  \E y : Move(r, y)
<1>1. PICK x \in Handler : x = req[r]
  BY DEF GatewayInv
<1>2. /\ x.label \in Servers \cup {Unauthenticated, Unresolved, Overflow}
      /\ x.pc \in {"auth", "review"} => x.backend = NoBackend
      /\ x.pc = "limit" => x.credential \in Agents
      /\ DOMAIN buckets \subseteq Agents
  BY <1>1 DEF Handler, GatewayInv, HandlerOK, CopyInTime, ResourceInv, LimiterOK
<1>3. CASE RejectCredential(r) \/ ReviewSaturated(r)
  BY <1>1, <1>2, <1>3, ReplyMoves DEF RejectCredential, ReviewSaturated
<1>4. CASE ReviewFails(r) \/ ReviewRejects(r) \/ ReviewAcceptsBadPath(r)
  BY <1>1, <1>2, <1>4, ReplyMoves DEF ReviewFails, ReviewRejects, ReviewAcceptsBadPath
<1>5. CASE ChargeUnresolved(r)
  <2>1. x.pc = "limit" /\ buckets' = AllowAt(buckets, x.credential, now)
    BY <1>1, <1>5 DEF ChargeUnresolved
  <2>2. DOMAIN buckets' \subseteq Agents
    BY <1>2, <2>1, AllowAtDomain
  <2> QED  BY <1>1, <1>2, <1>5, <2>1, <2>2, ReplyMoves DEF ChargeUnresolved
<1>6. CASE Deny(r) \/ DuplexUnavailable(r)
  BY <1>1, <1>2, <1>6, ReplyMoves DEF Deny, DuplexUnavailable
<1> QED  BY <1>3, <1>4, <1>5, <1>6

\* Every step of a handler is a move.
LEMMA HandlerMoves ==
    ASSUME GatewayInv, ResourceInv, UNCHANGED registryVars, NEW r \in Requests,
           \/ \E c \in Agents \cup {NoCredential}, p \in GoodRoute \cup {BadPath} :
                 Arrive(r, c, p)
           \/ Serve(r)
           \/ Answer(r)
    PROVE  \E y : Move(r, y)
<1>1. CASE \/ RejectCredential(r) \/ ReviewSaturated(r) \/ ReviewFails(r)
           \/ ReviewRejects(r) \/ ReviewAcceptsBadPath(r)
           \/ ChargeUnresolved(r) \/ Deny(r) \/ DuplexUnavailable(r)
  BY <1>1, AnswerMoves
<1>2. CASE BeginReview(r) \/ ReviewAccepts(r) \/ Charge(r) \/ Forward(r)
  BY <1>2, InnerMoves
<1>3. CASE ResolveServer(r) \/ RateLimit(r) \/ ProxyDone(r)
  BY <1>3, ResolveMoves, RateLimitMoves, ProxyDoneMoves
<1>4. CASE \E c \in Agents \cup {NoCredential}, p \in GoodRoute \cup {BadPath} :
              Arrive(r, c, p)
  BY <1>4, ArriveMoves
<1> QED  BY <1>1, <1>2, <1>3, <1>4 DEF Serve, Answer

\* A gateway that has just started has used nothing.
LEMMA ResourceInitInv == Init => ResourceInv
<1> SUFFICES ASSUME Init PROVE ResourceInv
  OBVIOUS
<1>1. \A r \in Requests : req[r].pc = "new" /\ req[r].backend = NoBackend
  BY DEF Init, NewHandler
<1>2. Reviewing = {} /\ Open = {} /\ \A e : CountedAs(e) = {}
  BY <1>1 DEF Reviewing, Open, CountedAs
<1>3. /\ metrics.inFlight = 0 /\ metrics.serverLabels = {} /\ metrics.agentLabels = {}
      /\ metrics.total = EmptyBag /\ metrics.rateLimited = EmptyBag
  BY DEF Init, NoMetrics
<1>4. IsMetrics(metrics)
  BY DEF Init, NoMetrics, IsMetrics
<1>5. DOMAIN EmptyBag = {} /\ IsABag(EmptyBag)
  BY DEF EmptyBag, SetToBag, IsABag
<1>6. SlotsOK /\ GaugeOK
  BY <1>2, <1>3, FS_EmptySet, GatewayAssumption DEF SlotsOK, GaugeOK, Init
<1>7. CountersOK
  BY <1>2, <1>3, <1>5 DEF CountersOK
<1>8. LabelsOK
  BY <1>1, <1>3, FS_EmptySet, GatewayAssumption DEF LabelsOK, LabelFits
<1>9. LimiterOK
  BY <1>1, <1>3, <1>5 DEF LimiterOK, Init
<1> QED  BY <1>4, <1>6, <1>7, <1>8, <1>9 DEF ResourceInv

\* Steps that touch no handler and nothing the handlers share.
LEMMA OthersResource ==
    ASSUME ResourceInv, UNCHANGED <<req, reviews, buckets, metrics>>
    PROVE  ResourceInv'
<1>1. /\ Reviewing' = Reviewing /\ Open' = Open
      /\ \A e : CountedAs(e)' = CountedAs(e)
  BY DEF Reviewing, Open, CountedAs, Counted
<1>2. SlotsOK' /\ GaugeOK' /\ CountersOK'
  BY <1>1 DEF ResourceInv, SlotsOK, GaugeOK, CountersOK
<1>3. LabelsOK' /\ LimiterOK'
  BY DEF ResourceInv, LabelsOK, LabelFits, LimiterOK
<1> QED  BY <1>2, <1>3 DEF ResourceInv

\* Every step of the gateway keeps the invariant.
LEMMA ResourceNextInv == GatewayInv /\ ResourceInv /\ [Next]_vars => ResourceInv'
<1> SUFFICES ASSUME GatewayInv, ResourceInv, [Next]_vars PROVE ResourceInv'
  OBVIOUS
<1>1. CASE GatewayNext /\ UNCHANGED registryVars
  <2>1. CASE \E a \in Agents : Revoke(a)
    BY <2>1, OthersResource DEF Revoke
  <2>2. ASSUME NEW r \in Requests,
               \/ \E c \in Agents \cup {NoCredential}, p \in GoodRoute \cup {BadPath} :
                     Arrive(r, c, p)
               \/ Serve(r)
               \/ Answer(r)
        PROVE  ResourceInv'
    <3>1. PICK y : Move(r, y)
      BY <1>1, <2>2, HandlerMoves
    <3> QED  BY <3>1, MoveInv
  <2> QED  BY <1>1, <2>1, <2>2 DEF GatewayNext
<1>2. CASE RegistryNext /\ UNCHANGED gatewayVars
  BY <1>2, OthersResource DEF gatewayVars
<1>3. CASE UNCHANGED vars
  BY <1>3, OthersResource DEF vars, gatewayVars
<1> QED  BY <1>1, <1>2, <1>3 DEF Next

\* In every reachable state each shared counter is the number of handlers it
\* stands for.
THEOREM ResourceInvariance == Spec => []ResourceInv
BY ResourceInitInv, ResourceNextInv, GatewayInvariance, PTL DEF Spec

\* Every way out of Authenticate gives its slot back: the slots in use are the
\* reviews under way, for any capacity and any number of requests.
THEOREM SlotsAreConserved == Spec => []ReviewSlotsConserved
<1>1. ResourceInv => ReviewSlotsConserved
  BY DEF ResourceInv, SlotsOK, Reviewing, ReviewSlotsConserved
<1> QED  BY <1>1, ResourceInvariance, PTL

\* Every request is in the gauge until it is counted, exactly once, under the
\* label, status and result it ended with, by whichever return.
THEOREM AccountingIsExact == Spec => []Accounting
<1>1. ASSUME ResourceInv PROVE Accounting
  <2> DEFINE started == {r \in Requests : req[r].pc # "new"}
             ended == {r \in Requests : req[r].pc = "done"}
  <2>1. Open = started \ ended
    BY DEF Open
  <2>2. \A e : CountedAs(e) = {r \in ended : Counted(req[r]) = e}
    BY DEF CountedAs
  <2>3. DOMAIN metrics.total = {Counted(req[r]) : r \in ended}
    <3>1. \A e : e \in DOMAIN metrics.total <=> \E r \in ended : Counted(req[r]) = e
      BY <1>1, <2>2 DEF ResourceInv, CountersOK
    <3> QED  BY <3>1
  <2> QED  BY <1>1, <2>1, <2>2, <2>3 DEF ResourceInv, GaugeOK, CountersOK, Accounting
<1> QED  BY <1>1, ResourceInvariance, PTL

\* The label table stays within its limit and a server has one label in all
\* requests of the process, however the handlers race for the last one.
THEOREM LabelsAreStable == Spec => []LabelStability
<1>1. ResourceInv => LabelStability
  BY DEF ResourceInv, LabelsOK, LabelFits, LabelStability
<1> QED  BY <1>1, ResourceInvariance, PTL

\* The state keeps its shape: the semaphore within its capacity, the gauge never
\* negative, buckets and labels for known agents and servers only.
THEOREM GatewayTypeCorrect == Spec => []TypeOK
<1>1. ASSUME GatewayInv, ResourceInv PROVE TypeOK
  <2>1. reviews \in 0..MaxReviews /\ metrics.inFlight \in Nat
    BY <1>1, SetsFinite, FS_CardinalityType, GatewayAssumption
       DEF ResourceInv, SlotsOK, GaugeOK
  <2>2. RegistryTypeOK /\ valid \subseteq Agents /\ req \in [Requests -> Handler]
    BY <1>1 DEF GatewayInv, RegistryInv
  <2> QED  BY <1>1, <2>1, <2>2 DEF ResourceInv, CountersOK, LabelsOK, LimiterOK, TypeOK
<1> QED  BY <1>1, GatewayInvariance, ResourceInvariance, PTL
=============================================================================
