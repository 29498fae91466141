--------------------------- MODULE AccessContract ---------------------------
(***************************************************************************)
(* What the gateway promises, without registry, review, limiter or poll: a *)
(* request is decided once, and it is let through to a server only if its  *)
(* credential was valid when it arrived and one state of the cluster that  *)
(* was current at most MaxAge before the decision permits it.  Clusters    *)
(* and credentials change at any time; it is not said how the gateway      *)
(* learns of it.                                                           *)
(***************************************************************************)
EXTENDS Integers

CONSTANTS
    Requests,   \* requests
    Callers,    \* whom a credential may name
    Routes,     \* what a request may ask for
    Targets,    \* the servers
    NoTarget,   \* of a request that has not been let through
    MaxAge,     \* how old a state of the cluster may be when it decides
    Permitted(_, _, _, _)   \* a state of the cluster lets a caller reach a target
                            \* by a route

VARIABLES
    clock,      \* the time
    past,       \* the states of the cluster so far, each with a time it was current
    valid,      \* the callers whose credential is valid
    call        \* call[r]: what has become of request r

contractVars == <<clock, past, valid, call>>

ContractInit ==
    /\ clock = 0
    /\ \A h \in past : h.at = 0
    /\ \A r \in Requests : call[r].stage = "absent"

\* Time passes, the cluster changes, credentials expire; the past does not change.
World ==
    /\ UNCHANGED call
    /\ clock' \in {clock, clock + 1}
    /\ past \subseteq past'
    /\ \A h \in past' \ past : h.at = clock'
    /\ valid' \subseteq valid

Becomes(r, x) ==
    /\ call' = [call EXCEPT ![r] = x]
    /\ UNCHANGED <<clock, past, valid>>

Stage(stage, caller, route, vouched, target) ==
    [stage |-> stage, caller |-> caller, route |-> route, vouched |-> vouched,
     target |-> target]

\* A request arrives; vouched: its credential is valid now.
Ask(r, caller, route, vouched) ==
    /\ call[r].stage = "absent"
    /\ vouched <=> caller \in valid
    /\ Becomes(r, Stage("pending", caller, route, vouched, NoTarget))

Refuse(r) ==
    /\ call[r].stage = "pending"
    /\ Becomes(r, Stage("refused", call[r].caller, call[r].route, call[r].vouched, NoTarget))

Grant(r, target) ==
    /\ call[r].stage = "pending"
    /\ call[r].vouched
    /\ Becomes(r, Stage("granted", call[r].caller, call[r].route, TRUE, target))
    /\ \E h \in past :
          /\ h.at <= clock
          /\ clock - h.at <= MaxAge
          /\ Permitted(h.cluster, call[r].caller, target, call[r].route)

ContractNext ==
    \/ World
    \/ \E r \in Requests :
          \/ \E caller \in Callers, route \in Routes, vouched \in BOOLEAN :
                Ask(r, caller, route, vouched)
          \/ Refuse(r)
          \/ \E target \in Targets : Grant(r, target)

ContractSpec == ContractInit /\ [][ContractNext]_contractVars
=============================================================================
