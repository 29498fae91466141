----------------------------- MODULE Controller -----------------------------
(***************************************************************************)
(* The controller (internal/controller/mcpserver_controller.go): one       *)
(* MCPServer, the Deployment and the Service of that name, and the         *)
(* Reconcile loop that keeps them in step and reports readiness.           *)
(*                                                                         *)
(* Reconcile reads informer caches that lag behind the API server, each on *)
(* its own, and writes to the API server with optimistic locking.  Users,  *)
(* the Deployment controller and the garbage collector act between any two *)
(* of its steps.  fresh[k] says that the cache of k holds the object's     *)
(* current resourceVersion, copyFresh that the copy in Reconcile does: an  *)
(* update from a stale object is a Conflict.                               *)
(*                                                                         *)
(* External: API server, informers, work queue, Deployment controller,     *)
(* garbage collector, users.  earned is a history variable.                *)
(***************************************************************************)
EXTENDS ServerLifecycle

CONSTANTS
    Specs,      \* what a spec asks of the children: image and port
    Foreign,    \* the owner of an object that no MCPServer controls
    Absent,     \* no such object
    MaxEdits,   \* bound of the exploration: user edits and pod failures
    MaxErrors   \* bound of the exploration: API errors and restarts

Kinds == {"Deployment", "Service"}

Verdicts == {"None", "Ready", "Progressing", "Unavailable", "Failed", "Deleting"}

Server == [uid : Nat, spec : Specs, generation : Nat, deleting : BOOLEAN,
           verdict : Verdicts, observedGeneration : Nat]

\* rollout sums up the replica counts and conditions of a Deployment's status.
\* A Service has neither generations nor a rollout; its last three fields are idle.
Child == [owner : Nat \cup {Foreign}, spec : Specs, deleting : BOOLEAN,
          generation : Nat, observedGeneration : Nat,
          rollout : {"progressing", "complete", "failed"}]

ASSUME ControllerAssumption ==
    /\ MaxEdits \in Nat
    /\ MaxErrors \in Nat
    /\ Foreign \notin Nat
    /\ Absent \notin Server \cup Child

VARIABLES
    server,     \* the MCPServer in etcd
    child,      \* child[k]: the Deployment and the Service in etcd
    cServer,    \* the cached MCPServer
    cChild,     \* cChild[k]: the cached children
    fresh,      \* fresh[k] for "Server" and the Kinds
    due,        \* the kinds with a watch event of an owned child on its way
    queued,     \* the work queue holds the request
    run,        \* Reconcile: place, copy of the MCPServer, verdict, error
    copyFresh,  \* run.m has the MCPServer's current resourceVersion
    uids,       \* how many MCPServers of this name there have been
    faults,     \* how much of MaxEdits and MaxErrors is used
    earned      \* <<spec, g>>: while generation g of the present MCPServer was
                \* current, a Deployment of its own was rolled out with spec

vars == <<server, child, cServer, cChild, fresh, due, queued, run, copyFresh, uids, faults, earned>>

NoRun == [pc |-> "idle", m |-> Absent, verdict |-> "None", failed |-> FALSE]

Init ==
    /\ server = Absent
    /\ child = [k \in Kinds |-> Absent]
    /\ cServer = Absent
    /\ cChild = [k \in Kinds |-> Absent]
    /\ fresh = [k \in Kinds \cup {"Server"} |-> TRUE]
    /\ due = {}
    /\ queued = FALSE
    /\ run = NoRun
    /\ copyFresh = FALSE
    /\ uids = 0
    /\ faults = [edits |-> 0, errors |-> 0]
    /\ earned = {}

Edit ==
    /\ faults.edits < MaxEdits
    /\ faults' = [faults EXCEPT !.edits = @ + 1]

Error ==
    /\ faults.errors < MaxErrors
    /\ faults' = [faults EXCEPT !.errors = @ + 1]
-----------------------------------------------------------------------------
(* The API server: writing an object makes every older copy of it stale.   *)

Earned(s, d) ==
    IF /\ s # Absent /\ d # Absent
       /\ d.owner = s.uid
       /\ d.observedGeneration = d.generation /\ d.rollout = "complete"
    THEN {<<d.spec, s.generation>>} ELSE {}

SetServer(s) ==
    /\ server' = s
    /\ fresh' = [fresh EXCEPT !["Server"] = FALSE]
    /\ copyFresh' = FALSE
    /\ UNCHANGED due
    /\ earned' = Earned(s, child["Deployment"]) \cup
                    IF server # Absent /\ s # Absent THEN earned ELSE {}

\* Some MCPServer, of this name, controls c.
Owned(c) == c # Absent /\ c.owner # Foreign

SetChild(k, c) ==
    /\ child' = [child EXCEPT ![k] = c]
    /\ fresh' = [fresh EXCEPT ![k] = FALSE]
    /\ due' = IF Owned(child[k]) \/ Owned(c) THEN due \cup {k} ELSE due
    /\ earned' = earned \cup IF k = "Deployment" THEN Earned(server, c) ELSE {}

\* A child as it is created: a Deployment's status is still empty.
NewChild(owner, s) ==
    [owner |-> owner, spec |-> s, deleting |-> FALSE, generation |-> 1,
     observedGeneration |-> 0, rollout |-> "progressing"]

\* Child c of kind k with another spec: a Deployment's next generation.
Respec(k, c, s) ==
    [c EXCEPT !.spec = s, !.generation = IF k = "Deployment" THEN @ + 1 ELSE @]

\* Users create, edit and delete the MCPServer.  An edit that concerns the policy
\* only is a new generation too.
UserServer ==
    /\ Edit
    /\ \/ /\ server = Absent
          /\ uids' = uids + 1
          /\ \E s \in Specs :
                SetServer([uid |-> uids + 1, spec |-> s, generation |-> 1, deleting |-> FALSE,
                           verdict |-> "None", observedGeneration |-> 0])
       \/ /\ server # Absent
          /\ UNCHANGED uids
          /\ \/ \E s \in Specs :
                   SetServer([server EXCEPT !.spec = s, !.generation = @ + 1])
             \/ ~server.deleting /\ SetServer([server EXCEPT !.deleting = TRUE])
             \/ SetServer(Absent)
    /\ UNCHANGED <<child, cServer, cChild, queued, run>>

\* Users put a child of their own in the place of what there is, edit a child or
\* delete it; pods fail.
UserChild(k) ==
    /\ Edit
    /\ \/ \E s \in Specs : SetChild(k, NewChild(Foreign, s))
       \/ /\ child[k] # Absent
          /\ \/ \E s \in Specs \ {child[k].spec} : SetChild(k, Respec(k, child[k], s))
             \/ ~child[k].deleting /\ SetChild(k, [child[k] EXCEPT !.deleting = TRUE])
             \/ SetChild(k, Absent)
             \/ k = "Deployment" /\ Owned(child[k]) /\ \E o \in {"progressing", "failed"} \ {child[k].rollout} :
                   SetChild(k, [child[k] EXCEPT !.rollout = o])
    /\ UNCHANGED <<server, cServer, cChild, queued, run, copyFresh, uids>>

\* The Deployment controller first observes a generation, then rolls it out.
\* What it does with a Deployment that is not ours makes no difference here.
RollOut ==
    LET d == child["Deployment"]
    IN  /\ Owned(d)
        /\ \/ /\ d.observedGeneration # d.generation
              /\ SetChild("Deployment", [d EXCEPT !.observedGeneration = d.generation,
                                                  !.rollout = "progressing"])
           \/ /\ d.observedGeneration = d.generation
              /\ d.rollout # "complete"
              /\ SetChild("Deployment", [d EXCEPT !.rollout = "complete"])
        /\ UNCHANGED <<server, cServer, cChild, queued, run, copyFresh, uids, faults>>

\* Children being deleted, and children of an MCPServer that is gone, vanish.
Collect(k) ==
    /\ child[k] # Absent
    /\ \/ child[k].deleting
       \/ child[k].owner # Foreign /\ (server # Absent => server.uid # child[k].owner)
    /\ SetChild(k, Absent)
    /\ UNCHANGED <<server, cServer, cChild, queued, run, copyFresh, uids, faults>>

\* An informer catches up and its event handlers enqueue the request: always for
\* the MCPServer (For), for a child if one of the events concerns an object that
\* has, or had, an owner (Owns).  The events in between change only the queue.
SyncServer ==
    /\ ~fresh["Server"]
    /\ cServer' = server
    /\ fresh' = [fresh EXCEPT !["Server"] = TRUE]
    /\ queued' = TRUE
    /\ UNCHANGED <<server, child, cChild, due, run, copyFresh, uids, faults, earned>>

\* Mutant: the children are not watched (Owns is missing).
SyncChildQuietly(k) ==
    /\ ~fresh[k]
    /\ cChild' = [cChild EXCEPT ![k] = child[k]]
    /\ fresh' = [fresh EXCEPT ![k] = TRUE]
    /\ due' = due \ {k}
    /\ UNCHANGED <<server, child, cServer, queued, run, copyFresh, uids, faults, earned>>

SyncChild(k) ==
    /\ ~fresh[k]
    /\ cChild' = [cChild EXCEPT ![k] = child[k]]
    /\ fresh' = [fresh EXCEPT ![k] = TRUE]
    /\ queued' = (queued \/ k \in due)
    /\ due' = due \ {k}
    /\ UNCHANGED <<server, child, cServer, run, copyFresh, uids, faults, earned>>

\* The process crashes and starts again: caches are listed anew, and every
\* MCPServer and owned child listed is enqueued.
Restart ==
    /\ Error
    /\ run' = NoRun
    /\ cServer' = server
    /\ cChild' = child
    /\ fresh' = [k \in DOMAIN fresh |-> TRUE]
    /\ due' = {}
    /\ queued' = (server # Absent \/ \E k \in Kinds : Owned(child[k]))
    /\ copyFresh' = FALSE
    /\ UNCHANGED <<server, child, uids, earned>>
-----------------------------------------------------------------------------
(* Reconcile.  The queue hands the request to one worker at a time.        *)

\* Mutant: a deleted MCPServer is reconciled like any other.
BeginUnchecked ==
    /\ run.pc = "idle"
    /\ queued
    /\ queued' = FALSE
    /\ run' = [pc |-> "Deployment", m |-> cServer, verdict |-> "None", failed |-> FALSE]
    /\ copyFresh' = (fresh["Server"] /\ cServer # Absent)
    /\ UNCHANGED <<server, child, cServer, cChild, fresh, due, uids, faults, earned>>

\* The request is taken off the queue and the cached MCPServer copied.
Begin ==
    /\ run.pc = "idle"
    /\ queued
    /\ queued' = FALSE
    /\ run' = IF cServer = Absent THEN NoRun
              ELSE IF cServer.deleting
              THEN [pc |-> "status", m |-> cServer, verdict |-> "Deleting", failed |-> FALSE]
              ELSE [pc |-> "Deployment", m |-> cServer, verdict |-> "None", failed |-> FALSE]
    /\ copyFresh' = (fresh["Server"] /\ cServer # Absent)
    /\ UNCHANGED <<server, child, cServer, cChild, fresh, due, uids, faults, earned>>

\* Mutant: ownership is not checked for an object that exists.
CheckOwnershipNever(m, c) == m # c

\* checkOwnership: an existing object must be controlled by this very
\* MCPServer (by UID, not by name) and must not be on its way out.
CheckOwnership(m, c) == c.owner = m.uid /\ ~c.deleting

\* Mutant: a status written for an older Deployment generation counts.
DeploymentReadinessAnyGeneration(d, changed) ==
    IF changed THEN "Progressing"
    ELSE [complete |-> "Ready", failed |-> "Failed", progressing |-> "Unavailable"][d.rollout]

\* deploymentReadiness.
DeploymentReadiness(d, changed) ==
    IF changed \/ d.observedGeneration # d.generation THEN "Progressing"
    ELSE [complete |-> "Ready", failed |-> "Failed", progressing |-> "Unavailable"][d.rollout]

\* Where Reconcile goes after one child, with the verdict it has so far.
After(k, d, changed) ==
    run' = [run EXCEPT !.pc = IF k = "Deployment" THEN "Service" ELSE "status",
                       !.verdict = IF k = "Deployment" THEN DeploymentReadiness(d, changed) ELSE @]

\* An error ends the work on the children: Failed is reported, and the error
\* returned, which puts the request back on the queue.
Abandon == run' = [run EXCEPT !.pc = "status", !.verdict = "Failed", !.failed = TRUE]

\* CreateOrUpdate finds the cached object as it should be and writes nothing.
InSync(k) ==
    /\ run.pc = k
    /\ cChild[k] # Absent
    /\ CheckOwnership(run.m, cChild[k])
    /\ cChild[k].spec = run.m.spec
    /\ After(k, cChild[k], FALSE)
    /\ UNCHANGED <<server, child, cServer, cChild, fresh, due, queued, copyFresh, uids, faults, earned>>

\* The API server accepts a Create if the name is free, and an Update of the
\* version that was read.
Writable(k) ==
    IF cChild[k] = Absent THEN child[k] = Absent
    ELSE fresh[k] /\ CheckOwnership(run.m, cChild[k])

Desired(k) ==
    IF cChild[k] = Absent THEN NewChild(run.m.uid, run.m.spec)
    ELSE Respec(k, cChild[k], run.m.spec)

NeedsWrite(k) == cChild[k] # Absent => cChild[k].spec # run.m.spec

\* CreateOrUpdate creates or updates the child; the answer may get lost.
Write(k) ==
    /\ run.pc = k
    /\ NeedsWrite(k)
    /\ Writable(k)
    /\ SetChild(k, Desired(k))
    /\ \/ After(k, Desired(k), TRUE) /\ UNCHANGED faults
       \/ Abandon /\ Error
    /\ UNCHANGED <<server, cServer, cChild, queued, copyFresh, uids>>

\* Not our object, AlreadyExists, Conflict, NotFound, or the API server fails.
WriteFails(k) ==
    /\ run.pc = k
    /\ \/ cChild[k] # Absent /\ ~CheckOwnership(run.m, cChild[k]) /\ UNCHANGED faults
       \/ NeedsWrite(k) /\ ~Writable(k) /\ UNCHANGED faults
       \/ NeedsWrite(k) /\ Error
    /\ Abandon
    /\ UNCHANGED <<server, child, cServer, cChild, fresh, due, queued, copyFresh, uids, earned>>

\* Mutant: the status is written whether or not it changed.
StatusCurrentNever == FALSE

\* updateStatus: nothing to do if the copy already says so; otherwise a patch
\* that the API server takes only from a current copy.
StatusCurrent ==
    run.m.verdict = run.verdict /\ run.m.observedGeneration = run.m.generation

Return(error) ==
    /\ run' = NoRun
    /\ queued' = (queued \/ run.failed \/ error)
    /\ copyFresh' = FALSE

SkipStatus ==
    /\ run.pc = "status"
    /\ StatusCurrent
    /\ Return(FALSE)
    /\ UNCHANGED <<server, child, cServer, cChild, fresh, due, uids, faults, earned>>

\* Mutant: a merge patch without the optimistic lock.
PatchStatusUnlocked ==
    /\ run.pc = "status"
    /\ ~StatusCurrent
    /\ server # Absent
    /\ SetServer([server EXCEPT !.verdict = run.verdict,
                                !.observedGeneration = run.m.generation])
    /\ Return(FALSE)
    /\ UNCHANGED <<child, cServer, cChild, uids, faults>>

\* The API server applies the patch; the answer may get lost.
PatchStatus ==
    /\ run.pc = "status"
    /\ ~StatusCurrent
    /\ copyFresh
    /\ SetServer([run.m EXCEPT !.verdict = run.verdict,
                               !.observedGeneration = run.m.generation])
    /\ \/ Return(FALSE) /\ UNCHANGED faults
       \/ Return(TRUE) /\ Error
    /\ UNCHANGED <<child, cServer, cChild, uids>>

\* A conflict, or the API server fails.
PatchFails ==
    /\ run.pc = "status"
    /\ ~StatusCurrent
    /\ \/ ~copyFresh /\ UNCHANGED faults
       \/ Error
    /\ Return(TRUE)
    /\ UNCHANGED <<server, child, cServer, cChild, fresh, due, uids, earned>>

Reconcile ==
    \/ Begin
    \/ \E k \in Kinds : InSync(k) \/ Write(k) \/ WriteFails(k)
    \/ SkipStatus \/ PatchStatus \/ PatchFails

Next ==
    \/ UserServer \/ RollOut \/ SyncServer \/ Restart
    \/ \E k \in Kinds : UserChild(k) \/ Collect(k) \/ SyncChild(k)
    \/ Reconcile

Spec == Init /\ [][Next]_vars

\* The worker, the informers, the Deployment controller and the garbage
\* collector keep going; users owe nothing.
Fairness ==
    /\ WF_vars(Reconcile) /\ WF_vars(RollOut) /\ WF_vars(SyncServer)
    /\ \A k \in Kinds : WF_vars(SyncChild(k)) /\ WF_vars(Collect(k))

LiveSpec == Spec /\ Fairness
-----------------------------------------------------------------------------
\* The shape of the state; Reconcile only goes to work on an MCPServer it found.
TypeOK ==
    /\ server \in Server \cup {Absent}
    /\ cServer \in Server \cup {Absent}
    /\ child \in [Kinds -> Child \cup {Absent}]
    /\ cChild \in [Kinds -> Child \cup {Absent}]
    /\ fresh \in [Kinds \cup {"Server"} -> BOOLEAN]
    /\ due \subseteq Kinds
    /\ queued \in BOOLEAN
    /\ copyFresh \in BOOLEAN
    /\ run \in [pc : Kinds \cup {"idle", "status"}, m : Server \cup {Absent},
                verdict : Verdicts, failed : BOOLEAN]
    /\ run.pc # "idle" => run.m # Absent
    /\ uids \in Nat
    /\ faults \in [edits : 0..MaxEdits, errors : 0..MaxErrors]

\* The MCPServer m as the gateway lists it: updateStatus writes the condition's
\* generation together with the status's.  The policy is nothing to the controller.
Shared(m) ==
    [generation |-> m.generation, observedGeneration |-> m.observedGeneration,
     ready |-> m.verdict = "Ready", conditionGeneration |-> m.observedGeneration,
     deleting |-> m.deleting, allowed |-> {}]

\* What the gateway takes for granted of the controller: as long as an MCPServer
\* exists, a step changes it as a user's edit, a deletion or ONE status that judges
\* the generation the object has at that moment, never an older one that the
\* verdict of Reconcile was really about.
LifecycleRespected ==
    [][\/ server' = Absent
       \/ server = Absent /\ Shared(server') = Created({})
       \/ /\ server # Absent /\ server' # Absent
          /\ server'.uid = server.uid
          /\ LET m == Shared(server)
             IN  Shared(server') \in {SpecEdited(m, {}), MarkedDeleting(m)}
                                    \cup {StatusWritten(m, b) : b \in BOOLEAN}]_server

\* The readiness traffic is routed by was earned: whenever the MCPServer counts
\* as ready, a Deployment controlled by this MCPServer (this UID) has been
\* completely rolled out with the spec of the present generation.  An old
\* status, an old generation or a namesake's Deployment never suffices.
ReadyWasEarned ==
    server # Absent /\ IsReady(Shared(server)) =>
        \E g \in 1..server.generation : <<server.spec, g>> \in earned

\* checkOwnership and optimistic locking together: Reconcile never writes to an
\* object that belongs to anyone else at the moment of the write, although it
\* looked at a cached copy and the object may have been replaced since.
OwnershipRespected ==
    [][\A k \in Kinds : (run.pc = k /\ Write(k)) =>
            child[k] = Absent \/ child[k].owner = run.m.uid]_vars

\* A name that the MCPServer needs is taken by an object of somebody else.
Contested == \E k \in Kinds : child[k] # Absent /\ child[k].owner = Foreign

\* A live MCPServer has its children and is reported ready, or it cannot have
\* them and is not.
Settled ==
    \/ server = Absent
    \/ server.deleting
    \/ Contested /\ ~IsReady(Shared(server))
    \/ /\ \A k \in Kinds : child[k] # Absent /\ child[k].owner = server.uid
                          /\ child[k].spec = server.spec
       /\ IsReady(Shared(server))

\* Reconcile converges: once users, pods and faults are quiet, a live MCPServer
\* gets its children and is reported ready, unless a name is taken, and then it
\* is not; no event is lost, no conflict or failed write is final.
Converges == <>[]Settled

\* updateStatus triggers no loop: although every status patch is an event that
\* enqueues the request again, the queue runs dry once users and faults are
\* quiet, unless a taken name keeps the retries going.
Quiesces == <>[](Contested \/ (run.pc = "idle" /\ ~queued))

\* docs/architecture.md: Ready=True "requires the current Deployment generation
\* to have been observed and its rollout completed"; "an available old replica
\* cannot make an incomplete new rollout ready."  So the MCPServer counts as ready
\* only if deploymentReadiness could have seen its Deployment rolled out with its
\* spec while the present generation was current.
ReadyEarnedThisGeneration ==
    server # Absent /\ IsReady(Shared(server)) =>
        <<server.spec, server.generation>> \in earned
=============================================================================
