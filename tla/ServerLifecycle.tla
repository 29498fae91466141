-------------------------- MODULE ServerLifecycle --------------------------
(***************************************************************************)
(* The MCPServer object, the one thing the controller and the gateway      *)
(* share (api/v1alpha1): what readiness depends on, and the ways in which  *)
(* users and the controller may change it.  Registry takes these changes   *)
(* as its environment; Controller is shown to make no others.              *)
(*                                                                         *)
(* A condition that is missing, False or Unknown is ready = FALSE;         *)
(* generation counts the edits of the spec.                                *)
(***************************************************************************)
EXTENDS Integers

MCPServerOf(policies) ==
    [generation : Nat, observedGeneration : Nat, ready : BOOLEAN,
     conditionGeneration : Nat, deleting : BOOLEAN, allowed : policies]

\* MCPServer.IsReady.
IsReady(m) ==
    /\ ~m.deleting
    /\ m.observedGeneration = m.generation
    /\ m.ready
    /\ m.conditionGeneration = m.generation

Created(allowed) ==
    [generation |-> 1, observedGeneration |-> 0, ready |-> FALSE,
     conditionGeneration |-> 0, deleting |-> FALSE, allowed |-> allowed]

\* A new spec: another policy, or another image or port under the same one.
SpecEdited(m, allowed) == [m EXCEPT !.generation = @ + 1, !.allowed = allowed]

\* updateStatus: with its optimistic lock, the generation it writes is the one the
\* object still has.
StatusWritten(m, ready) ==
    [m EXCEPT !.observedGeneration = m.generation, !.conditionGeneration = m.generation,
              !.ready = ready]

MarkedDeleting(m) == [m EXCEPT !.deleting = TRUE]
=============================================================================
