-------------------------- MODULE ControllerProofs --------------------------
(***************************************************************************)
(* Proofs about Controller, for every number of specs, edits and errors.   *)
(***************************************************************************)
EXTENDS Controller, TLAPS

\* A cache that counts as fresh holds the stored object, and so does a copy in
\* Reconcile that would pass the optimistic lock.
Coherent ==
    /\ fresh["Server"] => cServer = server
    /\ \A k \in Kinds : fresh[k] => cChild[k] = child[k]
    /\ copyFresh => run.m = server
-----------------------------------------------------------------------------
(* Types.                                                                  *)

\* What is written to the API server keeps the variables SetServer sets in type.
LEMMA SetServerType ==
    ASSUME TypeOK, NEW s \in Server \cup {Absent}, SetServer(s)
    PROVE  /\ server' \in Server \cup {Absent}
           /\ fresh' \in [Kinds \cup {"Server"} -> BOOLEAN]
           /\ due' \subseteq Kinds
           /\ copyFresh' \in BOOLEAN
  BY DEF TypeOK, SetServer

\* Likewise SetChild.
LEMMA SetChildType ==
    ASSUME TypeOK, NEW k \in Kinds, NEW c \in Child \cup {Absent}, SetChild(k, c)
    PROVE  /\ child' \in [Kinds -> Child \cup {Absent}]
           /\ fresh' \in [Kinds \cup {"Server"} -> BOOLEAN]
           /\ due' \subseteq Kinds
  BY DEF TypeOK, SetChild, Owned

\* The children that are created and updated are well formed.
LEMMA ChildType ==
    /\ \A owner \in Nat \cup {Foreign}, s \in Specs : NewChild(owner, s) \in Child
    /\ \A k \in Kinds, c \in Child, s \in Specs : Respec(k, c, s) \in Child
<1>1. \A owner \in Nat \cup {Foreign}, s \in Specs : NewChild(owner, s) \in Child
  BY DEF NewChild, Child
<1>2. ASSUME NEW k \in Kinds, NEW c \in Child, NEW s \in Specs
      PROVE  Respec(k, c, s) \in Child
  <2>1. c.generation \in Nat /\ c.generation + 1 \in Nat
    BY DEF Child
  <2> QED  BY <2>1 DEF Respec, Child
<1> QED  BY <1>1, <1>2

\* Counting an edit or an error keeps faults in type.
LEMMA FaultsType ==
    ASSUME TypeOK, Edit \/ Error
    PROVE  faults' \in [edits : 0..MaxEdits, errors : 0..MaxErrors]
  BY ControllerAssumption DEF TypeOK, Edit, Error

\* The verdict on a Deployment is one of the verdicts.
LEMMA ReadinessType ==
    ASSUME NEW d \in Child, NEW changed \in BOOLEAN
    PROVE  DeploymentReadiness(d, changed) \in Verdicts
<1>1. d.rollout \in {"progressing", "complete", "failed"}
  BY DEF Child
<1>2. [complete |-> "Ready", failed |-> "Failed", progressing |-> "Unavailable"][d.rollout]
        \in Verdicts
  <2>1. CASE d.rollout = "progressing"  BY <2>1 DEF Verdicts
  <2>2. CASE d.rollout = "complete"  BY <2>2 DEF Verdicts
  <2>3. CASE d.rollout = "failed"  BY <2>3 DEF Verdicts
  <2> QED  BY <1>1, <2>1, <2>2, <2>3
<1> QED  BY <1>2 DEF DeploymentReadiness, Verdicts

RunType ==
    /\ run \in [pc : Kinds \cup {"idle", "status"}, m : Server \cup {Absent},
                verdict : Verdicts, failed : BOOLEAN]
    /\ run.pc # "idle" => run.m # Absent

\* Reconcile's locals stay in type along its paths.
LEMMA RunStepType ==
    ASSUME TypeOK
    PROVE  /\ run' = NoRun => RunType'
           /\ run.pc # "idle" /\ Abandon => RunType'
           /\ \A k \in Kinds, d \in Child, changed \in BOOLEAN :
                 run.pc = k /\ After(k, d, changed) => RunType'
<1> USE DEF TypeOK, RunType
<1>1. run' = NoRun => RunType'
  BY DEF NoRun, Verdicts
<1>2. run.pc # "idle" /\ Abandon => RunType'
  BY DEF Abandon, Verdicts
<1>3. ASSUME NEW k \in Kinds, NEW d \in Child, NEW changed \in BOOLEAN,
             run.pc = k, After(k, d, changed)
      PROVE  RunType'
  <2>1. DeploymentReadiness(d, changed) \in Verdicts
    BY ReadinessType
  <2>2. run.pc # "idle"
    BY <1>3 DEF Kinds
  <2> QED  BY <1>3, <2>1, <2>2 DEF After, Kinds
<1> QED  BY <1>1, <1>2, <1>3

\* Acts of users and pods.
LEMMA UserType ==
    ASSUME TypeOK, UserServer \/ \E k \in Kinds : UserChild(k)
    PROVE  TypeOK'
<1>1. CASE UserServer
  <2>1. UNCHANGED <<child, cServer, cChild, queued, run>> /\ Edit
    BY <1>1 DEF UserServer
  <2>2. uids' \in Nat /\ \E s \in Server \cup {Absent} : SetServer(s)
    <3>1. CASE server = Absent
      <4>1. uids' = uids + 1 /\ uids + 1 \in Nat
        BY <1>1, <3>1 DEF UserServer, TypeOK
      <4>2. \A s \in Specs :
              [uid |-> uids + 1, spec |-> s, generation |-> 1, deleting |-> FALSE,
               verdict |-> "None", observedGeneration |-> 0] \in Server
        BY <4>1 DEF Server, Verdicts
      <4> QED  BY <1>1, <3>1, <4>1, <4>2 DEF UserServer
    <3>2. CASE server # Absent
      <4>1. server \in Server /\ server.generation + 1 \in Nat
        BY <3>2 DEF TypeOK, Server
      <4>2. \A s \in Specs : [server EXCEPT !.spec = s, !.generation = @ + 1] \in Server
        BY <4>1 DEF Server
      <4>3. [server EXCEPT !.deleting = TRUE] \in Server
        BY <4>1 DEF Server
      <4>4. uids' = uids
        BY <1>1, <3>2 DEF UserServer
      <4> QED  BY <1>1, <3>2, <4>2, <4>3, <4>4 DEF UserServer, TypeOK
    <3> QED  BY <3>1, <3>2
  <2> QED  BY <2>1, <2>2, SetServerType, FaultsType DEF TypeOK
<1>2. ASSUME NEW k \in Kinds, UserChild(k)
      PROVE  TypeOK'
  <2>1. UNCHANGED <<server, cServer, cChild, queued, run, copyFresh, uids>> /\ Edit
    BY <1>2 DEF UserChild
  <2>2. \E c \in Child \cup {Absent} : SetChild(k, c)
    <3>1. \A s \in Specs : NewChild(Foreign, s) \in Child
      BY ChildType
    <3>2. ASSUME child[k] # Absent
          PROVE  /\ child[k] \in Child
                 /\ \A s \in Specs : Respec(k, child[k], s) \in Child
                 /\ [child[k] EXCEPT !.deleting = TRUE] \in Child
                 /\ \A o \in {"progressing", "failed"} : [child[k] EXCEPT !.rollout = o] \in Child
      <4>1. child[k] \in Child
        BY <3>2 DEF TypeOK
      <4>2. \A s \in Specs : Respec(k, child[k], s) \in Child
        BY <4>1, ChildType
      <4> QED  BY <4>1, <4>2 DEF Child
    <3> QED  BY <1>2, <3>1, <3>2 DEF UserChild
  <2> QED  BY <2>1, <2>2, SetChildType, FaultsType DEF TypeOK
<1> QED  BY <1>1, <1>2

\* The Deployment controller and the garbage collector.
LEMMA ClusterType ==
    ASSUME TypeOK, RollOut \/ \E k \in Kinds : Collect(k)
    PROVE  TypeOK'
<1>1. CASE RollOut
  <2>1. child["Deployment"] \in Child
    BY <1>1 DEF RollOut, Owned, TypeOK, Kinds
  <2>2. \E c \in Child : SetChild("Deployment", c)
    BY <1>1, <2>1 DEF RollOut, Child
  <2> QED  BY <1>1, <2>2, SetChildType DEF RollOut, TypeOK, Kinds
<1>2. ASSUME NEW k \in Kinds, Collect(k)
      PROVE  TypeOK'
  BY <1>2, SetChildType DEF Collect, TypeOK
<1> QED  BY <1>1, <1>2

\* Informers and restarts.
LEMMA CacheType ==
    ASSUME TypeOK, SyncServer \/ Restart \/ \E k \in Kinds : SyncChild(k)
    PROVE  TypeOK'
<1>1. CASE SyncServer
  BY <1>1 DEF SyncServer, TypeOK
<1>2. CASE Restart
  <2>1. RunType'
    BY <1>2, RunStepType DEF Restart
  <2>2. queued' \in BOOLEAN
    BY <1>2 DEF Restart
  <2> QED  BY <1>2, <2>1, <2>2, FaultsType DEF Restart, TypeOK, RunType
<1>3. ASSUME NEW k \in Kinds, SyncChild(k)
      PROVE  TypeOK'
  BY <1>3 DEF SyncChild, TypeOK
<1> QED  BY <1>1, <1>2, <1>3

\* Reconcile.
LEMMA ReconcileType ==
    ASSUME TypeOK, Reconcile
    PROVE  TypeOK'
<1>1. CASE Begin
  <2>1. RunType'
    <3>1. CASE cServer = Absent
      BY <1>1, <3>1, RunStepType DEF Begin
    <3>2. CASE cServer # Absent
      BY <1>1, <3>2 DEF Begin, TypeOK, RunType, Kinds, Verdicts
    <3> QED  BY <3>1, <3>2
  <2>2. copyFresh' \in BOOLEAN
    BY <1>1 DEF Begin
  <2> QED  BY <1>1, <2>1, <2>2 DEF Begin, TypeOK, RunType
<1>2. ASSUME NEW k \in Kinds, InSync(k)
      PROVE  TypeOK'
  <2>1. cChild[k] \in Child
    BY <1>2 DEF InSync, TypeOK
  <2>2. RunType'
    BY <1>2, <2>1, RunStepType DEF InSync
  <2> QED  BY <1>2, <2>2 DEF InSync, TypeOK, RunType
<1>3. ASSUME NEW k \in Kinds, Write(k)
      PROVE  TypeOK'
  <2>1. run.pc = k /\ run.pc # "idle" /\ run.m \in Server
    BY <1>3 DEF Write, TypeOK, Kinds
  <2>2. run.m.uid \in Nat /\ run.m.spec \in Specs
    BY <2>1 DEF Server
  <2>3. Desired(k) \in Child
    BY <2>2, ChildType DEF Desired, TypeOK
  <2>4. RunType'
    BY <1>3, <2>1, <2>3, RunStepType DEF Write
  <2>5. faults' \in [edits : 0..MaxEdits, errors : 0..MaxErrors]
    BY <1>3, FaultsType DEF Write, TypeOK
  <2> QED  BY <1>3, <2>3, <2>4, <2>5, SetChildType DEF Write, TypeOK, RunType
<1>4. ASSUME NEW k \in Kinds, WriteFails(k)
      PROVE  TypeOK'
  <2>1. run.pc # "idle"
    BY <1>4 DEF WriteFails, Kinds
  <2>2. RunType'
    BY <1>4, <2>1, RunStepType DEF WriteFails
  <2>3. faults' \in [edits : 0..MaxEdits, errors : 0..MaxErrors]
    BY <1>4, FaultsType DEF WriteFails, TypeOK
  <2> QED  BY <1>4, <2>2, <2>3 DEF WriteFails, TypeOK, RunType
<1>5. ASSUME NEW error \in BOOLEAN, Return(error)
      PROVE  RunType' /\ queued' \in BOOLEAN /\ copyFresh' \in BOOLEAN
  BY <1>5, RunStepType DEF Return
<1>6. CASE SkipStatus
  BY <1>5, <1>6 DEF SkipStatus, TypeOK, RunType
<1>7. CASE PatchStatus
  <2>1. run.m \in Server /\ run.verdict \in Verdicts
    BY <1>7 DEF PatchStatus, TypeOK
  <2>2. [run.m EXCEPT !.verdict = run.verdict, !.observedGeneration = run.m.generation]
          \in Server
    BY <2>1 DEF Server
  <2>3. faults' \in [edits : 0..MaxEdits, errors : 0..MaxErrors]
    BY <1>7, FaultsType DEF PatchStatus, TypeOK
  <2>4. PICK error \in BOOLEAN : Return(error)
    BY <1>7 DEF PatchStatus
  <2>5. RunType' /\ queued' \in BOOLEAN /\ copyFresh' \in BOOLEAN
    BY <1>5, <2>4
  <2> QED  BY <1>7, <2>2, <2>3, <2>5, SetServerType DEF PatchStatus, TypeOK, RunType
<1>8. CASE PatchFails
  <2>1. faults' \in [edits : 0..MaxEdits, errors : 0..MaxErrors]
    BY <1>8, FaultsType DEF PatchFails, TypeOK
  <2> QED  BY <1>5, <1>8, <2>1 DEF PatchFails, TypeOK, RunType
<1> QED  BY <1>1, <1>2, <1>3, <1>4, <1>6, <1>7, <1>8 DEF Reconcile

\* Every step keeps the state in type.
LEMMA NextType ==
    ASSUME TypeOK, [Next]_vars
    PROVE  TypeOK'
<1>1. CASE Next
  BY <1>1, UserType, ClusterType, CacheType, ReconcileType DEF Next
<1>2. CASE UNCHANGED vars
  BY <1>2 DEF vars, TypeOK
<1> QED  BY <1>1, <1>2

\* The empty namespace is in type.
LEMMA InitType == Init => TypeOK
<1> SUFFICES ASSUME Init PROVE TypeOK
  OBVIOUS
<1>1. NoRun \in [pc : Kinds \cup {"idle", "status"}, m : Server \cup {Absent},
                 verdict : Verdicts, failed : BOOLEAN] /\ NoRun.pc = "idle"
  BY DEF NoRun, Verdicts
<1>2. [edits |-> 0, errors |-> 0] \in [edits : 0..MaxEdits, errors : 0..MaxErrors]
  BY ControllerAssumption
<1> QED  BY <1>1, <1>2 DEF Init, TypeOK

\* The state of the controller and of the cluster it works on stays in type, and
\* Reconcile goes to work only on an MCPServer it found.
THEOREM ControllerTypeCorrect == Spec => []TypeOK
<1>1. TypeOK /\ [Next]_vars => TypeOK'
  BY NextType
<1> QED  BY <1>1, InitType, PTL DEF Spec
-----------------------------------------------------------------------------
(* Optimistic locking.                                                     *)

\* Every step keeps fresh copies equal to what is stored.
LEMMA NextCoherent ==
    ASSUME TypeOK, Coherent, [Next]_vars
    PROVE  Coherent'
<1> USE DEF Coherent
<1>1. ASSUME NEW s, SetServer(s), UNCHANGED <<child, cServer, cChild>>
      PROVE  Coherent'
  BY <1>1 DEF SetServer, TypeOK, Kinds
<1>2. ASSUME NEW k \in Kinds, NEW c, SetChild(k, c),
             UNCHANGED <<server, cServer, cChild>>, copyFresh' = copyFresh, run'.m = run.m
      PROVE  Coherent'
  BY <1>2 DEF SetChild, TypeOK, Kinds
<1>3. ASSUME UNCHANGED <<server, child, cServer, cChild, fresh>>,
             \/ ~copyFresh'
             \/ copyFresh' = copyFresh /\ run'.m = run.m
      PROVE  Coherent'
  BY <1>3
<1>4. CASE UserServer
  BY <1>1, <1>4 DEF UserServer
<1>5. CASE \E k \in Kinds : UserChild(k)
  BY <1>2, <1>5 DEF UserChild
<1>6. CASE RollOut \/ \E k \in Kinds : Collect(k)
  BY <1>2, <1>6 DEF RollOut, Collect, Kinds
<1>7. CASE SyncServer
  BY <1>7 DEF SyncServer, TypeOK, Kinds
<1>8. CASE \E k \in Kinds : SyncChild(k)
  BY <1>8 DEF SyncChild, TypeOK, Kinds
<1>9. CASE Restart
  BY <1>9 DEF Restart
<1>10. CASE Begin
  <2>1. fresh["Server"] \in BOOLEAN
    BY DEF TypeOK
  <2> QED  BY <1>10, <2>1 DEF Begin
<1>11. CASE \E k \in Kinds : InSync(k) \/ WriteFails(k)
  <2>1. run'.m = run.m
    BY <1>11 DEF InSync, WriteFails, After, Abandon, TypeOK
  <2> QED  BY <1>3, <1>11, <2>1 DEF InSync, WriteFails
<1>12. CASE \E k \in Kinds : Write(k)
  <2>1. run'.m = run.m
    BY <1>12 DEF Write, After, Abandon, TypeOK
  <2> QED  BY <1>2, <1>12, <2>1 DEF Write
<1>13. CASE SkipStatus \/ PatchFails
  BY <1>3, <1>13 DEF SkipStatus, PatchFails, Return
<1>14. CASE PatchStatus
  BY <1>1, <1>14 DEF PatchStatus
<1>15. CASE UNCHANGED vars
  BY <1>15 DEF vars
<1> QED  BY <1>4, <1>5, <1>6, <1>7, <1>8, <1>9, <1>10, <1>11, <1>12, <1>13, <1>14, <1>15
         DEF Next, Reconcile

\* Copies that count as fresh always are.
LEMMA AlwaysCoherent == Spec => [](TypeOK /\ Coherent)
<1>1. Init => TypeOK /\ Coherent
  BY InitType DEF Init, Coherent
<1>2. TypeOK /\ Coherent /\ [Next]_vars => TypeOK' /\ Coherent'
  BY NextType, NextCoherent
<1> QED  BY <1>1, <1>2, PTL DEF Spec

\* Reconcile never writes to an object that belongs to anyone else.
THEOREM OwnershipIsRespected == Spec => OwnershipRespected
<1>1. ASSUME TypeOK, Coherent, NEW k \in Kinds, run.pc = k, Write(k)
      PROVE  child[k] = Absent \/ child[k].owner = run.m.uid
  BY <1>1 DEF Write, Writable, CheckOwnership, Coherent
<1>2. TypeOK /\ Coherent /\ [Next]_vars =>
        [\A k \in Kinds : (run.pc = k /\ Write(k)) =>
            child[k] = Absent \/ child[k].owner = run.m.uid]_vars
  BY <1>1
<1> QED  BY <1>2, AlwaysCoherent, PTL DEF Spec, OwnershipRespected

\* One step of LifecycleRespected.
LifecycleStep ==
    \/ server' = Absent
    \/ server = Absent /\ Shared(server') = Created({})
    \/ /\ server # Absent /\ server' # Absent
       /\ server'.uid = server.uid
       /\ LET m == Shared(server)
          IN  Shared(server') \in {SpecEdited(m, {}), MarkedDeleting(m)}
                                 \cup {StatusWritten(m, b) : b \in BOOLEAN}

Object == MCPServerOf({{}})

\* An MCPServer is its fields.
LEMMA SameFields ==
    ASSUME NEW x \in Object, NEW y \in Object,
           x.generation = y.generation, x.observedGeneration = y.observedGeneration,
           x.ready = y.ready, x.conditionGeneration = y.conditionGeneration,
           x.deleting = y.deleting
    PROVE  x = y
  BY DEF Object, MCPServerOf

\* The part of an MCPServer that the gateway sees.
LEMMA SharedFields ==
    ASSUME NEW m \in Server
    PROVE  /\ Shared(m) \in Object
           /\ Shared(m).generation = m.generation
           /\ Shared(m).observedGeneration = m.observedGeneration
           /\ Shared(m).ready = (m.verdict = "Ready")
           /\ Shared(m).conditionGeneration = m.observedGeneration
           /\ Shared(m).deleting = m.deleting
<1> DEFINE r == m.verdict = "Ready"
<1>1. r \in BOOLEAN
  OBVIOUS
<1>2. m.generation \in Nat /\ m.observedGeneration \in Nat /\ m.deleting \in BOOLEAN
  BY DEF Server
<1>3. Shared(m) = [generation |-> m.generation, observedGeneration |-> m.observedGeneration,
                   ready |-> r, conditionGeneration |-> m.observedGeneration,
                   deleting |-> m.deleting, allowed |-> {}]
  BY DEF Shared
<1> HIDE DEF r
<1>4. /\ Shared(m) \in Object
      /\ Shared(m).generation = m.generation
      /\ Shared(m).observedGeneration = m.observedGeneration
      /\ Shared(m).ready = r
      /\ Shared(m).conditionGeneration = m.observedGeneration
      /\ Shared(m).deleting = m.deleting
  BY <1>1, <1>2, <1>3 DEF Object, MCPServerOf
<1> QED  BY <1>4 DEF r

\* What users' changes make of the fields.
LEMMA ChangedFields ==
    ASSUME NEW m \in Object
    PROVE  /\ LET n == SpecEdited(m, {})
              IN  /\ n \in Object
                  /\ n.generation = m.generation + 1
                  /\ n.observedGeneration = m.observedGeneration /\ n.ready = m.ready
                  /\ n.conditionGeneration = m.conditionGeneration /\ n.deleting = m.deleting
           /\ LET n == MarkedDeleting(m)
              IN  /\ n \in Object
                  /\ n.generation = m.generation
                  /\ n.observedGeneration = m.observedGeneration /\ n.ready = m.ready
                  /\ n.conditionGeneration = m.conditionGeneration /\ n.deleting = TRUE
<1>1. m.generation \in Nat /\ m.generation + 1 \in Nat
  BY DEF Object, MCPServerOf
<1> QED  BY <1>1 DEF SpecEdited, MarkedDeleting, Object, MCPServerOf

\* When MCPServer n is what a change makes of m, as the gateway sees it.
LEMMA SharedChange ==
    ASSUME NEW m \in Server, NEW n \in Server
    PROVE  /\ (/\ n.generation = m.generation + 1
               /\ n.observedGeneration = m.observedGeneration
               /\ n.verdict = m.verdict /\ n.deleting = m.deleting)
                  => Shared(n) = SpecEdited(Shared(m), {})
           /\ (/\ n.generation = m.generation
               /\ n.observedGeneration = m.observedGeneration
               /\ n.verdict = m.verdict /\ n.deleting = TRUE)
                  => Shared(n) = MarkedDeleting(Shared(m))
           /\ (/\ n.generation = m.generation
               /\ n.observedGeneration = m.generation
               /\ n.deleting = m.deleting)
                  => Shared(n) = StatusWritten(Shared(m), Shared(n).ready)
<1>1. Shared(m) \in Object /\ Shared(n) \in Object /\ Shared(n).ready \in BOOLEAN
  <2>1. Shared(m) \in Object /\ Shared(n) \in Object
    BY SharedFields
  <2> QED  BY <2>1 DEF Object, MCPServerOf
<1>2. n.verdict = m.verdict => Shared(n).ready = Shared(m).ready
  <2>1. Shared(n).ready = (n.verdict = "Ready") /\ Shared(m).ready = (m.verdict = "Ready")
    BY SharedFields
  <2> QED  BY <2>1, Zenon
<1>3. /\ Shared(m).generation = m.generation /\ Shared(m).deleting = m.deleting
      /\ Shared(m).observedGeneration = m.observedGeneration
      /\ Shared(m).conditionGeneration = m.observedGeneration
      /\ Shared(n).generation = n.generation /\ Shared(n).deleting = n.deleting
      /\ Shared(n).observedGeneration = n.observedGeneration
      /\ Shared(n).conditionGeneration = n.observedGeneration
  BY SharedFields
<1> DEFINE x == Shared(m)
           y == Shared(n)
<1> HIDE DEF x, y
<1>4. ASSUME n.generation = m.generation + 1, n.observedGeneration = m.observedGeneration,
             n.verdict = m.verdict, n.deleting = m.deleting
      PROVE  y = SpecEdited(x, {})
  <2>1. x \in Object /\ y \in Object /\ y.ready = x.ready
    BY <1>1, <1>2, <1>4 DEF x, y
  <2>2. /\ y.generation = x.generation + 1 /\ y.observedGeneration = x.observedGeneration
        /\ y.conditionGeneration = x.conditionGeneration /\ y.deleting = x.deleting
    BY <1>3, <1>4 DEF x, y
  <2> DEFINE z == SpecEdited(x, {})
  <2>3. /\ z \in Object /\ z.generation = x.generation + 1 /\ z.observedGeneration = x.observedGeneration
        /\ z.ready = x.ready /\ z.conditionGeneration = x.conditionGeneration /\ z.deleting = x.deleting
    BY <2>1, ChangedFields
  <2> HIDE DEF z
  <2>4. y = z
    BY <2>1, <2>2, <2>3, SameFields
  <2> QED  BY <2>4 DEF z
<1>5. ASSUME n.generation = m.generation, n.observedGeneration = m.observedGeneration,
             n.verdict = m.verdict, n.deleting = TRUE
      PROVE  y = MarkedDeleting(x)
  <2>1. x \in Object /\ y \in Object /\ y.ready = x.ready
    BY <1>1, <1>2, <1>5 DEF x, y
  <2>2. /\ y.generation = x.generation /\ y.observedGeneration = x.observedGeneration
        /\ y.conditionGeneration = x.conditionGeneration /\ y.deleting = TRUE
    BY <1>3, <1>5 DEF x, y
  <2> DEFINE z == MarkedDeleting(x)
  <2>3. /\ z \in Object /\ z.generation = x.generation /\ z.observedGeneration = x.observedGeneration
        /\ z.ready = x.ready /\ z.conditionGeneration = x.conditionGeneration /\ z.deleting = TRUE
    BY <2>1, ChangedFields
  <2> HIDE DEF z
  <2>4. y = z
    BY <2>1, <2>2, <2>3, SameFields
  <2> QED  BY <2>4 DEF z
<1>6. ASSUME n.generation = m.generation, n.observedGeneration = m.generation,
             n.deleting = m.deleting
      PROVE  y = StatusWritten(x, y.ready)
  <2>1. x \in Object /\ y \in Object /\ y.ready \in BOOLEAN
    BY <1>1 DEF x, y
  <2>2. /\ y.generation = x.generation /\ y.observedGeneration = x.generation
        /\ y.conditionGeneration = x.generation /\ y.deleting = x.deleting
    BY <1>3, <1>6 DEF x, y
  <2>3. PICK b \in BOOLEAN : b = y.ready
    BY <2>1
  <2> DEFINE z == StatusWritten(x, b)
  <2>4. /\ z \in Object /\ z.generation = x.generation /\ z.observedGeneration = x.generation
        /\ z.ready = b /\ z.conditionGeneration = x.generation /\ z.deleting = x.deleting
    BY <2>1 DEF StatusWritten, Object, MCPServerOf
  <2> HIDE DEF z
  <2>5. y = z
    BY <2>1, <2>2, <2>3, <2>4, SameFields
  <2> QED  BY <2>3, <2>5 DEF z
<1> QED  BY <1>4, <1>5, <1>6 DEF x, y

\* What the gateway takes for granted of the controller: every status it records is
\* a verdict for the generation the object has at that moment.
THEOREM LifecycleIsRespected == Spec => LifecycleRespected
<1>1. ASSUME TypeOK, Coherent, UserServer
      PROVE  LifecycleStep
  <2>1. CASE server = Absent
    <3>1. PICK s \in Specs :
            server' = [uid |-> uids + 1, spec |-> s, generation |-> 1, deleting |-> FALSE,
                       verdict |-> "None", observedGeneration |-> 0]
      BY <1>1, <2>1 DEF UserServer, SetServer
    <3> QED  BY <2>1, <3>1 DEF LifecycleStep, Shared, Created
  <2>2. CASE server # Absent
    <3>1. server \in Server
      BY <1>1, <2>2 DEF TypeOK
    <3>2. CASE \E s \in Specs : server' = [server EXCEPT !.spec = s, !.generation = @ + 1]
      <4> PICK s \in Specs : server' = [server EXCEPT !.spec = s, !.generation = @ + 1]
        BY <3>2
      <4>0. server.generation + 1 \in Nat
        BY <3>1 DEF Server
      <4>1. server' \in Server
        BY <3>1, <4>0 DEF Server
      <4>b. /\ server'.uid = server.uid /\ server'.generation = server.generation + 1
            /\ server'.observedGeneration = server.observedGeneration
            /\ server'.verdict = server.verdict /\ server'.deleting = server.deleting
        BY <3>1 DEF Server
      <4>2. Shared(server') = SpecEdited(Shared(server), {}) /\ server'.uid = server.uid
        BY <3>1, <4>1, <4>b, SharedChange
      <4> QED  BY <2>2, <4>1, <4>2, ControllerAssumption DEF LifecycleStep
    <3>3. CASE server' = [server EXCEPT !.deleting = TRUE]
      <4>1. server' \in Server
        BY <3>1, <3>3 DEF Server
      <4>2. /\ server'.uid = server.uid /\ server'.generation = server.generation
            /\ server'.observedGeneration = server.observedGeneration
            /\ server'.verdict = server.verdict /\ server'.deleting = TRUE
        BY <3>1, <3>3 DEF Server
      <4>3. Shared(server') = MarkedDeleting(Shared(server))
        BY <3>1, <4>1, <4>2, SharedChange
      <4> QED  BY <2>2, <4>1, <4>2, <4>3, ControllerAssumption DEF LifecycleStep
    <3>4. CASE server' = Absent
      BY <3>4 DEF LifecycleStep
    <3> QED  BY <1>1, <2>2, <3>2, <3>3, <3>4 DEF UserServer, SetServer
  <2> QED  BY <2>1, <2>2
<1>2. ASSUME TypeOK, Coherent, PatchStatus
      PROVE  LifecycleStep
  <2>1. run.m = server /\ server \in Server /\ run.verdict \in Verdicts
    BY <1>2 DEF PatchStatus, Coherent, TypeOK
  <2>2. server' = [server EXCEPT !.verdict = run.verdict,
                                 !.observedGeneration = server.generation]
    BY <1>2, <2>1 DEF PatchStatus, SetServer
  <2>3. server' \in Server /\ server'.uid = server.uid
    BY <2>1, <2>2 DEF Server
  <2>4. /\ server'.generation = server.generation
        /\ server'.observedGeneration = server.generation
        /\ server'.verdict = run.verdict /\ server'.deleting = server.deleting
    BY <2>1, <2>2 DEF Server
  <2>5. Shared(server') = StatusWritten(Shared(server), Shared(server').ready)
    BY <2>1, <2>3, <2>4, SharedChange
  <2>6. Shared(server').ready \in BOOLEAN
    <3>1. Shared(server') \in Object
      BY <2>3, SharedFields
    <3> QED  BY <3>1 DEF Object, MCPServerOf
  <2> QED  BY <2>1, <2>3, <2>5, <2>6, ControllerAssumption DEF LifecycleStep
<1>3. Next => UserServer \/ PatchStatus \/ server' = server
  BY DEF Next, Reconcile, RollOut, SyncServer, Restart, UserChild, Collect, SyncChild, Begin,
         InSync, Write, WriteFails, SkipStatus, PatchFails
<1>4. TypeOK /\ Coherent /\ [Next]_vars => [LifecycleStep]_server
  BY <1>1, <1>2, <1>3 DEF vars
<1> QED  BY <1>4, AlwaysCoherent, PTL DEF Spec, LifecycleRespected, LifecycleStep
-----------------------------------------------------------------------------
(* Readiness is earned.                                                    *)

HasOwner(c) == c # Absent /\ c.owner \in Nat

\* No object anywhere names an MCPServer that has not been created yet.
UidsBounded ==
    /\ server # Absent => server.uid <= uids
    /\ cServer # Absent => cServer.uid <= uids
    /\ run.m # Absent => run.m.uid <= uids
    /\ \A k \in Kinds : HasOwner(child[k]) => child[k].owner <= uids
    /\ \A k \in Kinds : HasOwner(cChild[k]) => cChild[k].owner <= uids

HasEarned(m, e, spec) == \E g \in 1..m.generation : <<spec, g>> \in e

RolledOut(m, c) ==
    /\ c # Absent
    /\ c.owner = m.uid
    /\ c.observedGeneration = c.generation /\ c.rollout = "complete"

\* Whoever may still say that MCPServer m is ready speaks of a spec that was earned
\* (e): the stored and the cached Deployment (d, c), a verdict of Reconcile on its
\* way (x), the status.
EarnedBy(m, d, c, x, e) ==
    /\ 1 <= m.generation
    /\ m.observedGeneration <= m.generation
    /\ RolledOut(m, d) => HasEarned(m, e, d.spec)
    /\ RolledOut(m, c) => HasEarned(m, e, c.spec)
    /\ x.m # Absent /\ x.verdict = "Ready" /\ x.m.uid = m.uid => HasEarned(m, e, x.m.spec)
    /\ m.verdict = "Ready" /\ m.observedGeneration = m.generation => HasEarned(m, e, m.spec)

EarnedEverywhere ==
    server # Absent =>
        EarnedBy(server, child["Deployment"], cChild["Deployment"], run, earned)

\* Every step keeps the UIDs bounded.
LEMMA NextUids ==
    ASSUME TypeOK, UidsBounded, [Next]_vars
    PROVE  UidsBounded'
<1> USE DEF UidsBounded, HasOwner
<1>1. ASSUME NEW k \in Kinds, NEW c \in Child \cup {Absent}, SetChild(k, c),
             HasOwner(c) => c.owner <= uids,
             UNCHANGED <<server, cServer, cChild, uids>>, run'.m = run.m
      PROVE  UidsBounded'
  BY <1>1 DEF SetChild, TypeOK
<1>2. ASSUME UNCHANGED <<server, child, cServer, cChild, uids>>,
             run'.m \in {run.m, cServer, Absent}
      PROVE  UidsBounded'
  BY <1>2
<1>3. CASE UserServer
  <2>1. UNCHANGED <<child, cServer, cChild, run>>
    BY <1>3 DEF UserServer
  <2>2. CASE server = Absent
    <3>0. PICK s \in Specs :
            server' = [uid |-> uids + 1, spec |-> s, generation |-> 1, deleting |-> FALSE,
                       verdict |-> "None", observedGeneration |-> 0]
      BY <1>3, <2>2 DEF UserServer, SetServer
    <3>1. uids' = uids + 1 /\ server'.uid = uids'
      BY <1>3, <2>2, <3>0 DEF UserServer
    <3>2. \A x \in Nat : x <= uids => x <= uids'
      BY <3>1 DEF TypeOK
    <3>3. /\ cServer # Absent => cServer.uid \in Nat
          /\ run.m # Absent => run.m.uid \in Nat
      BY DEF TypeOK, Server
    <3>4. uids' <= uids'
      BY <3>1 DEF TypeOK
    <3> QED  BY <2>1, <3>1, <3>2, <3>3, <3>4
  <2>3. CASE server # Absent
    <3>1. uids' = uids /\ server \in Server
      BY <1>3, <2>3 DEF UserServer, TypeOK
    <3>2. server' = Absent \/ server'.uid = server.uid
      BY <1>3, <2>3, <3>1 DEF UserServer, SetServer, Server
    <3> QED  BY <2>1, <2>3, <3>1, <3>2
  <2> QED  BY <2>2, <2>3
<1>4. ASSUME NEW k \in Kinds, UserChild(k)
      PROVE  UidsBounded'
  <2>1. \E c \in Child \cup {Absent} : SetChild(k, c) /\ (HasOwner(c) => c.owner <= uids)
    <3>1. \A s \in Specs : NewChild(Foreign, s) \in Child /\ NewChild(Foreign, s).owner = Foreign
      BY ChildType DEF NewChild
    <3>2. ASSUME child[k] # Absent
          PROVE  /\ child[k] \in Child
                 /\ \A s \in Specs : /\ Respec(k, child[k], s) \in Child
                                     /\ Respec(k, child[k], s).owner = child[k].owner
                 /\ [child[k] EXCEPT !.deleting = TRUE] \in Child
                 /\ [child[k] EXCEPT !.deleting = TRUE].owner = child[k].owner
                 /\ \A o \in {"progressing", "failed"} :
                       /\ [child[k] EXCEPT !.rollout = o] \in Child
                       /\ [child[k] EXCEPT !.rollout = o].owner = child[k].owner
      <4>1. child[k] \in Child
        BY <3>2 DEF TypeOK
      <4>2. \A s \in Specs : /\ Respec(k, child[k], s) \in Child
                             /\ Respec(k, child[k], s).owner = child[k].owner
        BY <4>1, ChildType DEF Respec, Child
      <4> QED  BY <4>1, <4>2 DEF Child
    <3>3. CASE \E s \in Specs : SetChild(k, NewChild(Foreign, s))
      BY <3>1, <3>3, ControllerAssumption
    <3>4. CASE child[k] # Absent /\ \E s \in Specs : SetChild(k, Respec(k, child[k], s))
      BY <3>2, <3>4
    <3>5. CASE child[k] # Absent /\ SetChild(k, [child[k] EXCEPT !.deleting = TRUE])
      BY <3>2, <3>5
    <3>6. CASE SetChild(k, Absent)
      BY <3>6
    <3>7. CASE child[k] # Absent /\ \E o \in {"progressing", "failed"} :
                 SetChild(k, [child[k] EXCEPT !.rollout = o])
      BY <3>2, <3>7
    <3> QED  BY <1>4, <3>3, <3>4, <3>5, <3>6, <3>7 DEF UserChild
  <2> QED  BY <1>1, <1>4, <2>1 DEF UserChild
<1>5. CASE RollOut
  <2>1. child["Deployment"] \in Child
    BY <1>5 DEF RollOut, Owned, TypeOK, Kinds
  <2>2. \E c \in Child : SetChild("Deployment", c) /\ c.owner = child["Deployment"].owner
    <3> DEFINE d == child["Deployment"]
               seen == [d EXCEPT !.observedGeneration = d.generation, !.rollout = "progressing"]
               out == [d EXCEPT !.rollout = "complete"]
    <3>1. seen \in Child /\ seen.owner = d.owner /\ out \in Child /\ out.owner = d.owner
      BY <2>1 DEF Child
    <3>2. SetChild("Deployment", seen) \/ SetChild("Deployment", out)
      BY <1>5 DEF RollOut
    <3> QED  BY <3>1, <3>2
  <2> QED  BY <1>1, <1>5, <2>1, <2>2, ControllerAssumption DEF RollOut, Kinds
<1>6. ASSUME NEW k \in Kinds, Collect(k)
      PROVE  UidsBounded'
  BY <1>1, <1>6 DEF Collect
<1>7. CASE SyncServer \/ \E k \in Kinds : SyncChild(k)
  BY <1>7 DEF SyncServer, SyncChild, TypeOK
<1>8. CASE Restart
  BY <1>8 DEF Restart, NoRun
<1>9. CASE Begin
  BY <1>2, <1>9 DEF Begin, NoRun
<1>10. CASE \E k \in Kinds : InSync(k) \/ WriteFails(k)
  <2>1. run'.m = run.m
    BY <1>10 DEF InSync, WriteFails, After, Abandon, TypeOK
  <2> QED  BY <1>2, <1>10, <2>1 DEF InSync, WriteFails
<1>11. ASSUME NEW k \in Kinds, Write(k)
      PROVE  UidsBounded'
  <2>1. run'.m = run.m /\ run.m \in Server
    BY <1>11 DEF Write, After, Abandon, TypeOK, Kinds
  <2>2. run.m # Absent /\ run.m.uid \in Nat /\ run.m.spec \in Specs
    BY <2>1, ControllerAssumption DEF Server
  <2>3. Desired(k) \in Child /\ (Desired(k).owner \in Nat => Desired(k).owner <= uids)
    <3>1. CASE cChild[k] = Absent
      BY <2>2, <3>1, ChildType DEF Desired, NewChild
    <3>2. CASE cChild[k] # Absent
      <4>1. cChild[k] \in Child
        BY <3>2 DEF TypeOK
      <4>2. Respec(k, cChild[k], run.m.spec).owner = cChild[k].owner
        BY <4>1 DEF Respec, Child
      <4> QED  BY <2>2, <3>2, <4>1, <4>2, ChildType DEF Desired
    <3> QED  BY <3>1, <3>2
  <2> QED  BY <1>1, <1>11, <2>1, <2>3 DEF Write
<1>12. CASE SkipStatus \/ PatchFails
  BY <1>2, <1>12 DEF SkipStatus, PatchFails, Return, NoRun
<1>13. CASE PatchStatus
  <2>1. run.m \in Server
    BY <1>13 DEF PatchStatus, TypeOK
  <2>2. server'.uid = run.m.uid /\ run.m # Absent /\ run'.m = Absent
    BY <1>13, <2>1, ControllerAssumption DEF PatchStatus, SetServer, Server, Return, NoRun
  <2> QED  BY <1>13, <2>2 DEF PatchStatus
<1>14. CASE UNCHANGED vars
  BY <1>14 DEF vars
<1> QED  BY <1>3, <1>4, <1>5, <1>6, <1>7, <1>8, <1>9, <1>10, <1>11, <1>12, <1>13, <1>14
         DEF Next, Reconcile

\* What was earned stays earned as long as the MCPServer exists.
LEMMA EarnedGrows ==
    ASSUME NEW m \in Server, NEW n \in Server, m.generation <= n.generation,
           NEW e, NEW f, e \subseteq f, NEW spec, HasEarned(m, e, spec)
    PROVE  HasEarned(n, f, spec)
<1>1. m.generation \in Nat /\ n.generation \in Nat
  BY DEF Server
<1> QED  BY <1>1 DEF HasEarned

\* A Deployment that is rolled out under the present MCPServer has just earned.
LEMMA EarnedNow ==
    ASSUME NEW m \in Server, 1 <= m.generation, NEW c, RolledOut(m, c),
           NEW e, Earned(m, c) \subseteq e
    PROVE  HasEarned(m, e, c.spec)
<1>1. m.generation \in Nat /\ m # Absent
  BY ControllerAssumption DEF Server
<1>2. <<c.spec, m.generation>> \in e
  BY <1>1 DEF Earned, RolledOut
<1> QED  BY <1>1, <1>2 DEF HasEarned

\* A step that keeps the MCPServer, the Deployments and what may be said of them.
LEMMA EarnedKept ==
    ASSUME TypeOK, EarnedEverywhere,
           UNCHANGED server, earned \subseteq earned',
           \/ child'["Deployment"] = child["Deployment"]
           \/ Earned(server, child'["Deployment"]) \subseteq earned',
           cChild'["Deployment"] \in {cChild["Deployment"], child["Deployment"]},
           \/ run'.verdict # "Ready" \/ run'.m = Absent
           \/ run'.m = run.m /\ run'.verdict = run.verdict
    PROVE  EarnedEverywhere'
<1> SUFFICES ASSUME server # Absent
             PROVE  EarnedBy(server, child'["Deployment"], cChild'["Deployment"], run', earned')
  BY DEF EarnedEverywhere
<1>1. server \in Server /\ server.generation <= server.generation
  BY DEF TypeOK, Server
<1>2. EarnedBy(server, child["Deployment"], cChild["Deployment"], run, earned)
  BY DEF EarnedEverywhere
<1>3. \A spec : HasEarned(server, earned, spec) => HasEarned(server, earned', spec)
  BY <1>1, EarnedGrows
<1>4. RolledOut(server, child'["Deployment"])
        => HasEarned(server, earned', child'["Deployment"].spec)
  <2>1. CASE child'["Deployment"] = child["Deployment"]
    BY <1>2, <1>3, <2>1 DEF EarnedBy
  <2>2. CASE Earned(server, child'["Deployment"]) \subseteq earned'
    BY <1>1, <1>2, <2>2, EarnedNow DEF EarnedBy
  <2> QED  BY <2>1, <2>2
<1> QED  BY <1>2, <1>3, <1>4 DEF EarnedBy

\* The same when the MCPServer itself moves on: its generation may grow, and a
\* status that makes it ready has to be earned.
LEMMA EarnedOn ==
    ASSUME NEW m \in Server, NEW n \in Server, n.uid = m.uid,
           m.generation <= n.generation, n.observedGeneration <= n.generation,
           NEW d, NEW c, NEW x, NEW y, y = x \/ y.m = Absent,
           NEW e, NEW f, e \subseteq f, EarnedBy(m, d, c, x, e),
           n.verdict = "Ready" /\ n.observedGeneration = n.generation => HasEarned(n, f, n.spec)
    PROVE  EarnedBy(n, d, c, y, f)
<1>1. \A spec : HasEarned(m, e, spec) => HasEarned(n, f, spec)
  BY EarnedGrows
<1>2. 1 <= n.generation
  BY DEF EarnedBy, Server
<1>3. /\ RolledOut(n, d) => RolledOut(m, d)
      /\ RolledOut(n, c) => RolledOut(m, c)
  BY DEF RolledOut
<1> QED  BY <1>1, <1>2, <1>3 DEF EarnedBy

\* Only a complete rollout of an observed generation is judged Ready.
LEMMA ReadyIsRolledOut ==
    ASSUME NEW d \in Child, NEW changed \in BOOLEAN,
           DeploymentReadiness(d, changed) = "Ready"
    PROVE  ~changed /\ d.observedGeneration = d.generation /\ d.rollout = "complete"
<1>1. ~changed /\ d.observedGeneration = d.generation
  BY DEF DeploymentReadiness
<1>2. d.rollout \in {"progressing", "complete", "failed"}
  BY DEF Child
<1>3. [complete |-> "Ready", failed |-> "Failed", progressing |-> "Unavailable"][d.rollout] = "Ready"
  BY <1>1 DEF DeploymentReadiness
<1>4. CASE d.rollout = "progressing"  BY <1>3, <1>4
<1>5. CASE d.rollout = "failed"  BY <1>3, <1>5
<1> QED  BY <1>1, <1>2, <1>4, <1>5

\* Users create, edit and delete the MCPServer: a new one has earned nothing, and
\* nothing that is left of its namesakes speaks for it.
LEMMA UserEarned ==
    ASSUME TypeOK, TypeOK', UidsBounded, EarnedEverywhere, UserServer
    PROVE  EarnedEverywhere'
<1>1. UNCHANGED <<child, cServer, cChild, run>>
  BY DEF UserServer
<1>2. CASE server = Absent
  <2>1. PICK s \in Specs :
          server' = [uid |-> uids + 1, spec |-> s, generation |-> 1, deleting |-> FALSE,
                     verdict |-> "None", observedGeneration |-> 0]
    BY <1>2 DEF UserServer, SetServer
  <2>2. /\ server'.uid = uids + 1 /\ server'.generation = 1
        /\ server'.verdict = "None" /\ server'.observedGeneration = 0
    BY <2>1
  <2>3. /\ ~RolledOut(server', child["Deployment"])
        /\ ~RolledOut(server', cChild["Deployment"])
        /\ run.m # Absent => run.m.uid # server'.uid
    <3>1. uids \in Nat /\ uids + 1 \in Nat
      BY DEF TypeOK
    <3>2. \A x \in Nat : x <= uids => x # uids + 1
      BY <3>1
    <3>3. run.m # Absent => run.m.uid \in Nat
      BY DEF TypeOK, Server
    <3> QED  BY <2>2, <3>1, <3>2, <3>3 DEF RolledOut, UidsBounded, HasOwner, Kinds
  <2> QED  BY <1>1, <2>2, <2>3 DEF EarnedEverywhere, EarnedBy
<1>3. CASE server # Absent /\ server' # Absent
  <2>1. server \in Server /\ server' \in Server /\ earned \subseteq earned'
    BY <1>3 DEF TypeOK, UserServer, SetServer
  <2>2. EarnedBy(server, child["Deployment"], cChild["Deployment"], run, earned)
    BY <1>3 DEF EarnedEverywhere
  <2>3. CASE \E s \in Specs : server' = [server EXCEPT !.spec = s, !.generation = @ + 1]
    <3>1. /\ server'.uid = server.uid /\ server'.generation = server.generation + 1
          /\ server'.observedGeneration = server.observedGeneration
      BY <2>1, <2>3 DEF Server
    <3>2. /\ server.generation <= server'.generation
          /\ server'.observedGeneration < server'.generation
      BY <2>1, <2>2, <3>1 DEF Server, EarnedBy
    <3>3. /\ server'.observedGeneration <= server'.generation
          /\ server'.observedGeneration # server'.generation
      BY <2>1, <3>2 DEF Server
    <3>4. EarnedBy(server', child["Deployment"], cChild["Deployment"], run, earned')
      BY <2>1, <2>2, <3>1, <3>2, <3>3, EarnedOn
    <3> QED  BY <1>1, <3>4 DEF EarnedEverywhere
  <2>4. CASE server' = [server EXCEPT !.deleting = TRUE]
    <3>1. /\ server'.uid = server.uid /\ server'.generation = server.generation
          /\ server'.observedGeneration = server.observedGeneration
          /\ server'.verdict = server.verdict /\ server'.spec = server.spec
      BY <2>1, <2>4 DEF Server
    <3>2. /\ server.generation <= server'.generation
          /\ server'.observedGeneration <= server'.generation
      BY <2>1, <2>2, <3>1 DEF Server, EarnedBy
    <3>3. server'.verdict = "Ready" /\ server'.observedGeneration = server'.generation
            => HasEarned(server', earned', server'.spec)
      BY <2>1, <2>2, <3>1, <3>2, EarnedGrows DEF EarnedBy
    <3>4. EarnedBy(server', child["Deployment"], cChild["Deployment"], run, earned')
      BY <2>1, <2>2, <3>1, <3>2, <3>3, EarnedOn
    <3> QED  BY <1>1, <3>4 DEF EarnedEverywhere
  <2> QED  BY <1>3, <2>3, <2>4 DEF UserServer, SetServer
<1>4. CASE server' = Absent
  BY <1>4 DEF EarnedEverywhere
<1> QED  BY <1>2, <1>3, <1>4

\* Reconcile: a verdict is formed from the cached Deployment, and becomes the
\* status of the very MCPServer it was formed for.
LEMMA ReconcileEarned ==
    ASSUME TypeOK, TypeOK', Coherent, EarnedEverywhere, Reconcile
    PROVE  EarnedEverywhere'
<1>1. CASE Begin
  <2>1. run'.verdict # "Ready"
    BY <1>1 DEF Begin, NoRun
  <2> QED  BY <1>1, <2>1, EarnedKept DEF Begin
<1>2. CASE InSync("Deployment")
  <2> DEFINE c == cChild["Deployment"]
  <2>1. /\ c \in Child /\ c # Absent /\ c.owner = run.m.uid /\ c.spec = run.m.spec
        /\ run' = [run EXCEPT !.pc = "Service", !.verdict = DeploymentReadiness(c, FALSE)]
        /\ UNCHANGED <<server, child, cChild, earned>>
    BY <1>2 DEF InSync, After, CheckOwnership, TypeOK, Kinds
  <2>2. run'.m = run.m /\ run'.verdict = DeploymentReadiness(c, FALSE)
    BY <2>1 DEF TypeOK
  <2>3. run'.verdict = "Ready" => c.observedGeneration = c.generation /\ c.rollout = "complete"
    BY <2>1, <2>2, ReadyIsRolledOut
  <2> SUFFICES ASSUME server # Absent
               PROVE  EarnedBy(server, child["Deployment"], c, run', earned)
    BY <2>1 DEF EarnedEverywhere
  <2>4. EarnedBy(server, child["Deployment"], c, run, earned)
    BY DEF EarnedEverywhere
  <2>5. run'.verdict = "Ready" /\ run'.m.uid = server.uid => HasEarned(server, earned, run'.m.spec)
    BY <2>1, <2>2, <2>3, <2>4 DEF EarnedBy, RolledOut
  <2> QED  BY <2>4, <2>5 DEF EarnedBy
<1>3. CASE InSync("Service")
  <2>1. run'.m = run.m /\ run'.verdict = run.verdict
    BY <1>3 DEF InSync, After, TypeOK
  <2> QED  BY <1>3, <2>1, EarnedKept DEF InSync
<1>4. ASSUME NEW k \in Kinds, Write(k)
      PROVE  EarnedEverywhere'
  <2>1. \/ run'.verdict # "Ready"
        \/ run'.m = run.m /\ run'.verdict = run.verdict
    BY <1>4 DEF Write, After, Abandon, DeploymentReadiness, TypeOK, Kinds
  <2>2. /\ earned \subseteq earned'
        /\ \/ child'["Deployment"] = child["Deployment"]
           \/ Earned(server, child'["Deployment"]) \subseteq earned'
    BY <1>4 DEF Write, SetChild, TypeOK, Kinds
  <2> QED  BY <1>4, <2>1, <2>2, EarnedKept DEF Write
<1>5. ASSUME NEW k \in Kinds, WriteFails(k)
      PROVE  EarnedEverywhere'
  <2>1. run'.verdict # "Ready"
    BY <1>5 DEF WriteFails, Abandon, TypeOK
  <2> QED  BY <1>5, <2>1, EarnedKept DEF WriteFails
<1>6. CASE SkipStatus \/ PatchFails
  <2>1. run'.m = Absent
    BY <1>6 DEF SkipStatus, PatchFails, Return, NoRun
  <2> QED  BY <1>6, <2>1, EarnedKept DEF SkipStatus, PatchFails
<1>7. CASE PatchStatus
  <2>1. run.m = server /\ server \in Server /\ server # Absent
    BY <1>7, ControllerAssumption DEF PatchStatus, Coherent, TypeOK
  <2>2. server' = [server EXCEPT !.verdict = run.verdict,
                                 !.observedGeneration = server.generation]
    BY <1>7, <2>1 DEF PatchStatus, SetServer
  <2>3. /\ server' \in Server /\ server'.uid = server.uid
        /\ server'.generation = server.generation
        /\ server'.observedGeneration = server.generation
        /\ server'.verdict = run.verdict /\ server'.spec = server.spec
    <3>1. run.verdict \in Verdicts
      BY DEF TypeOK
    <3> QED  BY <2>1, <2>2, <3>1 DEF Server
  <2>4. server' # Absent /\ earned \subseteq earned'
    BY <1>7, <2>1, <2>2, <2>3, ControllerAssumption DEF PatchStatus, SetServer
  <2>5. EarnedBy(server, child["Deployment"], cChild["Deployment"], run, earned)
    BY <2>1 DEF EarnedEverywhere
  <2>6. /\ server.generation <= server'.generation
        /\ server'.observedGeneration <= server'.generation
    BY <2>1, <2>3 DEF Server
  <2>7. server'.verdict = "Ready" => HasEarned(server', earned', server'.spec)
    <3>1. run.verdict = "Ready" => HasEarned(server, earned, server.spec)
      BY <2>1, <2>5 DEF EarnedBy
    <3> QED  BY <2>1, <2>3, <2>4, <2>6, <3>1, EarnedGrows
  <2>8. run'.m = Absent /\ UNCHANGED <<child, cChild>>
    BY <1>7 DEF PatchStatus, Return, NoRun
  <2>9. EarnedBy(server', child["Deployment"], cChild["Deployment"], run', earned')
    BY <2>1, <2>3, <2>4, <2>5, <2>6, <2>7, <2>8, EarnedOn
  <2> QED  BY <2>8, <2>9 DEF EarnedEverywhere
<1> QED  BY <1>1, <1>2, <1>3, <1>4, <1>5, <1>6, <1>7 DEF Reconcile, Kinds

\* Every step preserves EarnedEverywhere.
LEMMA NextEarned ==
    ASSUME TypeOK, TypeOK', Coherent, UidsBounded, EarnedEverywhere, [Next]_vars
    PROVE  EarnedEverywhere'
<1>1. ASSUME NEW k \in Kinds, NEW c, SetChild(k, c), UNCHANGED <<server, cChild, run>>
      PROVE  EarnedEverywhere'
  <2>1. /\ earned \subseteq earned'
        /\ \/ child'["Deployment"] = child["Deployment"]
           \/ Earned(server, child'["Deployment"]) \subseteq earned'
    BY <1>1 DEF SetChild, TypeOK, Kinds
  <2> QED  BY <1>1, <2>1, EarnedKept
<1>2. CASE UserServer
  BY <1>2, UserEarned
<1>3. CASE \E k \in Kinds : UserChild(k)
  BY <1>1, <1>3 DEF UserChild
<1>4. CASE RollOut
  BY <1>1, <1>4 DEF RollOut, Kinds
<1>5. CASE \E k \in Kinds : Collect(k)
  BY <1>1, <1>5 DEF Collect
<1>6. CASE SyncServer
  BY <1>6, EarnedKept DEF SyncServer
<1>7. ASSUME NEW k \in Kinds, SyncChild(k)
      PROVE  EarnedEverywhere'
  <2>1. cChild'["Deployment"] \in {cChild["Deployment"], child["Deployment"]}
    BY <1>7 DEF SyncChild, TypeOK, Kinds
  <2> QED  BY <1>7, <2>1, EarnedKept DEF SyncChild
<1>8. CASE Restart
  BY <1>8, EarnedKept DEF Restart, NoRun
<1>9. CASE Reconcile
  BY <1>9, ReconcileEarned
<1>10. CASE UNCHANGED vars
  BY <1>10, EarnedKept DEF vars
<1> QED  BY <1>2, <1>3, <1>4, <1>5, <1>6, <1>7, <1>8, <1>9, <1>10 DEF Next

\* deploymentReadiness, checkOwnership and updateStatus together, for every number
\* of specs, edits, crashes and errors: the readiness traffic is routed by was
\* earned by a Deployment of this very MCPServer with its present spec.
THEOREM ReadinessIsEarned == Spec => []ReadyWasEarned
<1> DEFINE Inv == TypeOK /\ Coherent /\ UidsBounded /\ EarnedEverywhere
<1>1. Init => Inv
  <2>1. Init => TypeOK /\ Coherent
    BY InitType DEF Init, Coherent
  <2>2. Init => UidsBounded /\ EarnedEverywhere
    BY DEF Init, UidsBounded, HasOwner, EarnedEverywhere, NoRun
  <2> QED  BY <2>1, <2>2
<1>2. Inv /\ [Next]_vars => Inv'
  BY NextType, NextCoherent, NextUids, NextEarned
<1>3. Inv => ReadyWasEarned
  BY DEF ReadyWasEarned, IsReady, Shared, EarnedEverywhere, EarnedBy, HasEarned
<1> QED  BY <1>1, <1>2, <1>3, PTL DEF Spec
=============================================================================
