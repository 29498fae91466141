---------------------------- MODULE MCController ----------------------------
(***************************************************************************)
(* TLC instances of Controller.  The specs are interchangeable.            *)
(***************************************************************************)
EXTENDS Controller, TLC

SpecSymmetry == Permutations(Specs)

\* What a created MCPServer of spec s looks like once it has its children, is
\* reported ready, and every cache has caught up; e errors are already spent.
\* Runs that start here need no edit for the creation.
MCEstablished(s, e) ==
    /\ server = [uid |-> 1, spec |-> s, generation |-> 1, deleting |-> FALSE,
                 verdict |-> "Ready", observedGeneration |-> 1]
    /\ child = [Deployment |-> [NewChild(1, s) EXCEPT !.observedGeneration = 1,
                                                      !.rollout = "complete"],
                Service |-> NewChild(1, s)]
    /\ cServer = server
    /\ cChild = child
    /\ fresh = [k \in Kinds \cup {"Server"} |-> TRUE]
    /\ due = {}
    /\ queued = FALSE
    /\ run = NoRun
    /\ copyFresh = FALSE
    /\ uids = 1
    /\ faults = [edits |-> 0, errors |-> e]
    /\ earned = {<<s, 1>>}

MCEstablishedSpec == (\E s \in Specs : MCEstablished(s, 0)) /\ [][Next]_vars

\* All edits are edits of the MCPServer: nobody touches its children, no pod fails.
MCServerEditsNext ==
    \/ UserServer \/ RollOut \/ SyncServer \/ Restart
    \/ \E k \in Kinds : Collect(k) \/ SyncChild(k)
    \/ Reconcile

MCServerEditsSpec == (\E s \in Specs : MCEstablished(s, 0)) /\ [][MCServerEditsNext]_vars

\* Liveness rules symmetry out, so the established start is of one spec, and
\* the errors are left to the runs that start in an empty namespace.
MCLiveSpec ==
    /\ Init \/ MCEstablished(CHOOSE s \in Specs : TRUE, MaxErrors)
    /\ [][Next]_vars
    /\ Fairness
=============================================================================
