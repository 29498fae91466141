------------------------------ MODULE MCGateway ------------------------------
(***************************************************************************)
(* TLC instances of Gateway.  The gateway is started in a cluster where    *)
(* one server, or every server, is ready for every agent.                  *)
(***************************************************************************)
EXTENDS Gateway, TLC

MCReadyServer == [generation |-> 1, observedGeneration |-> 1, ready |-> TRUE,
                  conditionGeneration |-> 1, deleting |-> FALSE, allowed |-> Agents]

MCOneServer == {[s \in {CHOOSE t \in Servers : TRUE} |-> MCReadyServer]}

MCAllServers == {[s \in Servers |-> MCReadyServer]}

RequestSymmetry == Permutations(Requests)
=============================================================================
