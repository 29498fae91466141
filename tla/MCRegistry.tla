----------------------------- MODULE MCRegistry -----------------------------
(***************************************************************************)
(* TLC instances of Registry: a gateway started in an empty cluster, or in *)
(* one where a single server is ready for every agent.                     *)
(***************************************************************************)
EXTENDS Registry

MCReadyServer == [generation |-> 1, observedGeneration |-> 1, ready |-> TRUE,
                  conditionGeneration |-> 1, deleting |-> FALSE, allowed |-> Agents]

MCInitialClusters ==
    {[s \in {} |-> MCReadyServer]} \cup {[s \in {t} |-> MCReadyServer] : t \in Servers}
=============================================================================
