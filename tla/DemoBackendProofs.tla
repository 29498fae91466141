--------------------------- MODULE DemoBackendProofs ---------------------------
(***************************************************************************)
(* The accounts of the demo client and of the runbook server agree: a call *)
(* that was started is executed at most once, and a call the client takes  *)
(* for a success is one the server has counted as a success.  Both sides   *)
(* are followed by one account per tool, over the calls under way as well. *)
(***************************************************************************)
EXTENDS DemoClientProofs

\* Calls that have been started and have not reached the server: workers, and 0
\* for Run.
Unsent(t) ==
    {w \in DOMAIN worker : worker[w].pc = "calling" /\ worker[w].answered = 0 /\ Phase.tool = t}
    \cup {w \in {0} : /\ t = ReadTool /\ Mode(client.flags) = "run" /\ client.pc = "calling"
                      /\ RunCall \notin DOMAIN exec}

\* Handlers that have not been counted.
Running(t) == {c \in DOMAIN exec : exec[c].tool = t /\ exec[c].pc # "replied"}

\* Replies with content on their way, and workers that have received one.
Replies(t) ==
    {c \in DOMAIN exec : exec[c].tool = t /\ exec[c].pc = "replied" /\ exec[c].result = "content"}

Received(t) ==
    {w \in DOMAIN worker : worker[w].pc = "returned" /\ worker[w].error = "" /\ Phase.tool = t}

CountedAll(t) == Counted(t, "success") + Counted(t, "error") + Counted(t, "cancelled")

\* Every handler entered, and every call that may still enter one, was started.
EnteredOnce(t) ==
    CountedAll(t) + Cardinality(Running(t)) + Cardinality(Unsent(t)) <= tally[t].started

\* Every success of the client, and every reply that may become one, was counted.
CountedFirst(t) ==
    tally[t].succeeded + Cardinality(Received(t)) + Cardinality(Replies(t))
        <= Counted(t, "success")

AgreeInv ==
    /\ IsFiniteSet(DOMAIN exec)
    /\ \A t \in Tools : EnteredOnce(t) /\ CountedFirst(t)

-----------------------------------------------------------------------------
(* Sets and counters.                                                      *)

\* All four sets are finite.
LEMMA SetsAreFinite ==
    ASSUME BenchTypeInv, IsFiniteSet(DOMAIN exec), NEW t
    PROVE  /\ IsFiniteSet(Running(t)) /\ Cardinality(Running(t)) \in Nat
           /\ IsFiniteSet(Unsent(t)) /\ Cardinality(Unsent(t)) \in Nat
           /\ IsFiniteSet(Replies(t)) /\ Cardinality(Replies(t)) \in Nat
           /\ IsFiniteSet(Received(t)) /\ Cardinality(Received(t)) \in Nat
<1>1. IsFiniteSet(DOMAIN worker)
  <2>1. PICK n \in 0..Limit.workers : DOMAIN worker = 1..n
    BY DEF BenchTypeInv
  <2>2. 1 \in Int /\ n \in Int
    BY <2>1, LimitAssumption
  <2>3. QED
    BY <2>1, <2>2, FS_Interval
<1>2. IsFiniteSet(DOMAIN worker \cup {0})
  BY <1>1, FS_AddElement
<1>3. Running(t) \subseteq DOMAIN exec /\ Replies(t) \subseteq DOMAIN exec
  BY DEF Running, Replies
<1>4. Unsent(t) \subseteq DOMAIN worker \cup {0} /\ Received(t) \subseteq DOMAIN worker
  BY DEF Unsent, Received
<1>5. IsFiniteSet(Running(t)) /\ IsFiniteSet(Replies(t))
  BY <1>3, FS_Subset
<1>6. IsFiniteSet(Unsent(t)) /\ IsFiniteSet(Received(t))
  BY <1>1, <1>2, <1>4, FS_Subset
<1>7. QED
  BY <1>5, <1>6, FS_CardinalityType

\* Less of a finite set.
LEMMA Fewer ==
    ASSUME NEW S, IsFiniteSet(S), NEW T, T \subseteq S
    PROVE  /\ IsFiniteSet(T) /\ Cardinality(T) \in Nat /\ Cardinality(S) \in Nat
           /\ Cardinality(T) <= Cardinality(S)
BY FS_Subset, FS_CardinalityType

\* At most one element more.
LEMMA OneMore ==
    ASSUME NEW S, IsFiniteSet(S), NEW x, NEW T, T \subseteq S \cup {x}
    PROVE  /\ IsFiniteSet(T) /\ Cardinality(T) \in Nat /\ Cardinality(S) \in Nat
           /\ Cardinality(T) <= Cardinality(S) + 1
<1>1. IsFiniteSet(S \cup {x}) /\ Cardinality(S) \in Nat
      /\ Cardinality(S \cup {x}) <= Cardinality(S) + 1
  <2>1. Cardinality(S) \in Nat
    BY FS_CardinalityType
  <2>2. /\ IsFiniteSet(S \cup {x})
        /\ Cardinality(S \cup {x}) = IF x \in S THEN Cardinality(S) ELSE Cardinality(S) + 1
    BY FS_AddElement
  <2>3. QED
    BY <2>1, <2>2
<1>2. QED
  BY <1>1, Fewer

\* One element less.
LEMMA OneLess ==
    ASSUME NEW S, IsFiniteSet(S), NEW x \in S, NEW T, T \subseteq S \ {x}
    PROVE  /\ IsFiniteSet(T) /\ Cardinality(T) \in Nat /\ Cardinality(S) \in Nat
           /\ Cardinality(T) + 1 <= Cardinality(S)
<1>1. IsFiniteSet(S \ {x}) /\ Cardinality(S) \in Nat
      /\ Cardinality(S \ {x}) = Cardinality(S) - 1
  BY FS_RemoveElement, FS_CardinalityType
<1>2. QED
  BY <1>1, Fewer

\* The counters of the metric are natural numbers.
LEMMA CountedType ==
    ASSUME BackendTypeInv, NEW t, NEW o
    PROVE  Counted(t, o) \in Nat
BY DEF BackendTypeInv, IsBag, Counted

\* A handler that has been counted.
LEMMA CountedOnce ==
    ASSUME BackendTypeInv, NEW c \in DOMAIN exec, NEW o, Observed(c, o), NEW t
    PROVE  /\ CountedAll(t)' = CountedAll(t) + (IF t = exec[c].tool THEN 1 ELSE 0)
           /\ Counted(t, "success")' =
                 Counted(t, "success") + (IF t = exec[c].tool /\ o = "success" THEN 1 ELSE 0)
<1>1. o \in {"success", "error", "cancelled"}
  BY DEF Observed, Outcomes
<1>2. PICK k : k = <<exec[c].tool, o>>
  OBVIOUS
<1>3. invocations' = invocations (+) SetToBag({k}) /\ IsBag(invocations)
  BY <1>2 DEF Observed, BackendTypeInv
<1>4. /\ DOMAIN invocations' = DOMAIN invocations \cup {k}
      /\ invocations'[k] = IF k \in DOMAIN invocations THEN invocations[k] + 1 ELSE 1
      /\ \A y \in DOMAIN invocations \ {k} : invocations'[y] = invocations[y]
  BY <1>3, BagAdd
<1>5. \A s : Counted(t, s) \in Nat
  BY CountedType
<1>6. ASSUME NEW s
      PROVE  Counted(t, s)' = Counted(t, s) + (IF <<t, s>> = k THEN 1 ELSE 0)
  BY <1>3, <1>4 DEF Counted, IsBag
<1>7. \A s : <<t, s>> = k <=> t = exec[c].tool /\ s = o
  BY <1>2
<1>8. \A s : Counted(t, s)' = Counted(t, s) + (IF t = exec[c].tool /\ s = o THEN 1 ELSE 0)
  BY <1>6, <1>7
<1>9. QED
  BY <1>1, <1>5, <1>8 DEF CountedAll
-----------------------------------------------------------------------------
(* How the sets of calls under way move.                                   *)

\* The numbers of the two accounts.
LEMMA Numbers ==
    ASSUME TypeInv, IsFiniteSet(DOMAIN exec), NEW t \in Tools
    PROVE  /\ CountedAll(t) \in Nat /\ Counted(t, "success") \in Nat
           /\ tally[t].started \in Nat /\ tally[t].succeeded \in Nat
           /\ IsFiniteSet(Running(t)) /\ Cardinality(Running(t)) \in Nat
           /\ IsFiniteSet(Unsent(t)) /\ Cardinality(Unsent(t)) \in Nat
           /\ IsFiniteSet(Replies(t)) /\ Cardinality(Replies(t)) \in Nat
           /\ IsFiniteSet(Received(t)) /\ Cardinality(Received(t)) \in Nat
<1>1. BenchTypeInv /\ BackendTypeInv
  BY DEF TypeInv
<1>2. \A o : Counted(t, o) \in Nat
  BY <1>1, CountedType
<1>3. CountedAll(t) \in Nat
  BY <1>2 DEF CountedAll
<1>4. tally[t].started \in Nat /\ tally[t].succeeded \in Nat
  BY <1>1 DEF BenchTypeInv
<1>5. QED
  BY <1>1, <1>2, <1>3, <1>4, SetsAreFinite

\* Nothing is entered or started: the first account still balances.
LEMMA QuietEntered ==
    ASSUME TypeInv, AgreeInv, NEW t \in Tools, invocations' = invocations,
           tally'[t].started = tally[t].started,
           Running(t)' \subseteq Running(t), Unsent(t)' \subseteq Unsent(t)
    PROVE  EnteredOnce(t)'
<1>1. IsFiniteSet(DOMAIN exec) /\ EnteredOnce(t)
  BY DEF AgreeInv
<1>2. CountedAll(t)' = CountedAll(t)
  BY DEF CountedAll, Counted
<1>3. /\ Cardinality(Running(t)') <= Cardinality(Running(t)) /\ Cardinality(Running(t)') \in Nat
      /\ Cardinality(Unsent(t)') <= Cardinality(Unsent(t)) /\ Cardinality(Unsent(t)') \in Nat
  BY <1>1, Numbers, Fewer
<1>4. QED
  BY <1>1, <1>2, <1>3, Numbers DEF EnteredOnce

\* Nothing succeeds: the second account still balances.
LEMMA QuietCounted ==
    ASSUME TypeInv, AgreeInv, NEW t \in Tools, invocations' = invocations,
           tally'[t].succeeded = tally[t].succeeded,
           Received(t)' \subseteq Received(t), Replies(t)' \subseteq Replies(t)
    PROVE  CountedFirst(t)'
<1>1. IsFiniteSet(DOMAIN exec) /\ CountedFirst(t)
  BY DEF AgreeInv
<1>2. Counted(t, "success")' = Counted(t, "success")
  BY DEF Counted
<1>3. /\ Cardinality(Received(t)') <= Cardinality(Received(t))
      /\ Cardinality(Received(t)') \in Nat
      /\ Cardinality(Replies(t)') <= Cardinality(Replies(t)) /\ Cardinality(Replies(t)') \in Nat
  BY <1>1, Numbers, Fewer
<1>4. QED
  BY <1>1, <1>2, <1>3, Numbers DEF CountedFirst

\* A worker moves: it alone may join or leave the sets of workers.
LEMMA WorkerMoves ==
    ASSUME BenchTypeInv, NEW w \in DOMAIN worker, NEW y, Set(w, y),
           UNCHANGED <<config, bench, client>>,
           RunCall \in DOMAIN exec => RunCall \in DOMAIN exec', NEW t
    PROVE  /\ Unsent(t)' \subseteq Unsent(t) \cup {w}
           /\ y.pc # "calling" \/ y.answered # 0 \/ Phase.tool # t =>
                 Unsent(t)' \subseteq Unsent(t) \ {w}
           /\ Received(t)' \subseteq Received(t) \cup {w}
           /\ y.pc # "returned" \/ y.error # "" \/ Phase.tool # t =>
                 Received(t)' \subseteq Received(t) \ {w}
<1>1. /\ DOMAIN worker' = DOMAIN worker /\ worker'[w] = y
      /\ \A v \in DOMAIN worker \ {w} : worker'[v] = worker[v]
  BY DEF Set
<1>2. w # 0
  BY LimitAssumption DEF BenchTypeInv
<1>3. Phase' = Phase
  BY DEF Phase
<1>4. PICK p : p = Phase.tool
  OBVIOUS
<1>5. /\ Unsent(t)' \subseteq Unsent(t) \cup {w}
      /\ y.pc # "calling" \/ y.answered # 0 \/ p # t =>
            Unsent(t)' \subseteq Unsent(t) \ {w}
  BY <1>1, <1>2, <1>3, <1>4 DEF Unsent, RunCall
<1>6. /\ Received(t)' \subseteq Received(t) \cup {w}
      /\ y.pc # "returned" \/ y.error # "" \/ p # t =>
            Received(t)' \subseteq Received(t) \ {w}
  BY <1>1, <1>3, <1>4 DEF Received
<1>7. QED
  BY <1>4, <1>5, <1>6

\* The call of a worker is none of Run's.
LEMMA NotRunCall ==
    ASSUME BenchTypeInv, NEW w \in DOMAIN worker
    PROVE  CallOf(w) # RunCall
<1>1. CallOf(w).kind \in Rounds
  BY WorkerOfCall DEF BenchTypeInv, Bench
<1>2. RunCall.kind \notin Rounds
  BY DEF RunCall, Rounds
<1>3. QED
  BY <1>1, <1>2
\* Hanging up removes a reply on its way, and closes an execution.
LEMMA HungUpFields ==
    ASSUME BackendTypeInv, NEW c
    PROVE  /\ DOMAIN HungUp(c) \subseteq DOMAIN exec
           /\ DOMAIN exec \ {c} \subseteq DOMAIN HungUp(c)
           /\ \A d \in DOMAIN HungUp(c) :
                 /\ HungUp(c)[d].tool = exec[d].tool /\ HungUp(c)[d].pc = exec[d].pc
                 /\ HungUp(c)[d].result = exec[d].result
<1>1. \A d \in DOMAIN exec : exec[d] \in Execution
  BY DEF BackendTypeInv
<1>2. /\ DOMAIN HungUp(c) \subseteq DOMAIN exec
      /\ DOMAIN exec \ {c} \subseteq DOMAIN HungUp(c)
      /\ \A d \in DOMAIN HungUp(c) :
            HungUp(c)[d] = exec[d] \/ HungUp(c)[d] = [exec[d] EXCEPT !.open = FALSE]
  BY ExecTypes
<1>3. \A e \in Execution : LET f == [e EXCEPT !.open = FALSE]
                            IN  f.tool = e.tool /\ f.pc = e.pc /\ f.result = e.result
  BY DEF Execution
<1>4. QED
  BY <1>1, <1>2, <1>3
-----------------------------------------------------------------------------
(* The steps.                                                              *)

\* Steps of a worker between its calls, and a callback.
LEMMA AgreeIdle ==
    ASSUME TypeInv, CallInv, AgreeInv, NEW w \in DOMAIN worker, UNCHANGED client,
           Setup(w) \/ StopCalls(w) \/ CloseSession(w)
    PROVE  AgreeInv'
<1>1. BenchTypeInv
  BY DEF TypeInv
<1>2. PICK y \in Worker : Set(w, y) /\ EndsRound(worker[w], y)
  BY <1>1, SetupEffect
<1>3. UNCHANGED <<config, bench, client, exec, invocations, tally>>
  BY DEF Setup, StopCalls, CloseSession, backendVars
<1>4. y.pc = "done"
  BY <1>2 DEF EndsRound
<1>5. ASSUME NEW t \in Tools PROVE EnteredOnce(t)' /\ CountedFirst(t)'
  <2>1. Unsent(t)' \subseteq Unsent(t) /\ Received(t)' \subseteq Received(t)
    BY <1>1, <1>2, <1>3, <1>4, WorkerMoves
  <2>2. Running(t)' \subseteq Running(t) /\ Replies(t)' \subseteq Replies(t)
    BY <1>3 DEF Running, Replies
  <2>3. QED
    BY <1>3, <2>1, <2>2, QuietEntered, QuietCounted
<1>6. QED
  BY <1>3, <1>5 DEF AgreeInv

\* A call is started.
LEMMA AgreeStart ==
    ASSUME TypeInv, CallInv, AgreeInv, NEW w \in DOMAIN worker, UNCHANGED client, StartCall(w)
    PROVE  AgreeInv'
<1>1. BenchTypeInv /\ IsFiniteSet(DOMAIN exec) /\ Phase.tool \in Tools
  BY WorkerHasPhase DEF TypeInv, AgreeInv
<1>2. PICK y \in Worker : Set(w, y) /\ StartsCall(w, worker[w], y)
  BY <1>1, StartEffect
<1>3. UNCHANGED <<config, bench, client, exec, invocations>>
      /\ tally' = [tally EXCEPT ![Phase.tool].started = @ + 1]
  BY DEF StartCall, backendVars
<1>4. y.pc = "calling"
  BY <1>2 DEF StartsCall
<1>5. ASSUME NEW t \in Tools PROVE EnteredOnce(t)' /\ CountedFirst(t)'
  <2>1. /\ Unsent(t)' \subseteq Unsent(t) \cup {w}
        /\ t # Phase.tool => Unsent(t)' \subseteq Unsent(t)
        /\ Received(t)' \subseteq Received(t)
    BY <1>1, <1>2, <1>3, <1>4, WorkerMoves
  <2>2. Running(t)' = Running(t) /\ Replies(t)' = Replies(t)
    BY <1>3 DEF Running, Replies
  <2>3. /\ tally'[t].succeeded = tally[t].succeeded
        /\ tally'[t].started = tally[t].started + (IF t = Phase.tool THEN 1 ELSE 0)
    BY <1>1, <1>3, <1>5 DEF BenchTypeInv
  <2>4. CountedFirst(t)'
    BY <1>3, <2>1, <2>2, <2>3, QuietCounted
  <2>5. EnteredOnce(t)'
    <3>1. CASE t # Phase.tool
      <4>1. tally'[t].started = tally[t].started
        BY <1>1, <2>3, <3>1, Numbers
      <4>2. QED
        BY <1>3, <2>1, <2>2, <3>1, <4>1, QuietEntered
    <3>2. CASE t = Phase.tool
      <4>1. CountedAll(t)' = CountedAll(t)
        BY <1>3 DEF CountedAll, Counted
      <4>2. Cardinality(Unsent(t)') <= Cardinality(Unsent(t)) + 1
            /\ Cardinality(Unsent(t)') \in Nat
        BY <1>1, <2>1, Numbers, OneMore
      <4>3. EnteredOnce(t)
        BY DEF AgreeInv
      <4>4. tally'[t].started = tally[t].started + 1
        BY <2>3, <3>2
      <4>5. QED
        BY <1>1, <2>2, <4>1, <4>2, <4>3, <4>4, Numbers DEF EnteredOnce
    <3>3. QED
      BY <3>1, <3>2
  <2>6. QED
    BY <2>4, <2>5
<1>6. QED
  BY <1>1, <1>3, <1>5 DEF AgreeInv

\* A call reaches the server.
LEMMA AgreeAccept ==
    ASSUME TypeInv, CallInv, AgreeInv, NEW w \in DOMAIN worker, UNCHANGED client, Accept(w)
    PROVE  AgreeInv'
<1>1. BenchTypeInv /\ BackendTypeInv /\ IsFiniteSet(DOMAIN exec) /\ Phase.tool \in Tools
      /\ CallOf(w) \in Call
  BY WorkerHasPhase DEF TypeInv, AgreeInv
<1>2. PICK y \in Worker : Set(w, y) /\ IsAccepted(worker[w], y)
  BY <1>1, AcceptEffect
<1>3. UNCHANGED <<config, bench, client, invocations, tally>>
  BY DEF Accept
<1>4. y.pc = "calling" /\ y.answered = 200 /\ worker[w].pc = "calling"
      /\ worker[w].answered = 0
  BY <1>2 DEF IsAccepted, Accept
<1>5. PICK c, p : c = CallOf(w) /\ p = Phase.tool
  OBVIOUS
<1>6. exec' = Entered(c, p, TRUE) /\ c \notin DOMAIN exec /\ c \in Call /\ p \in Tools
  BY <1>1, <1>5 DEF Accept, Posted
<1>7. /\ DOMAIN exec' = DOMAIN exec \cup {c}
      /\ \A d \in DOMAIN exec \ {c} : exec'[d] = exec[d]
      /\ exec'[c] = [tool |-> p, known |-> TRUE, pc |-> "run", step |-> 0,
                     result |-> "none", open |-> TRUE]
  BY <1>1, <1>6, EnteredType
<1>8. exec'[c].tool = p /\ exec'[c].pc = "run"
  BY <1>7
<1>9. ASSUME NEW t \in Tools PROVE EnteredOnce(t)' /\ CountedFirst(t)'
  <2>1. Unsent(t)' \subseteq Unsent(t) \ {w} /\ Received(t)' \subseteq Received(t)
    <3>1. RunCall \in DOMAIN exec => RunCall \in DOMAIN exec'
      BY <1>7
    <3>2. y.answered # 0 /\ y.pc # "returned"
      BY <1>4
    <3>3. QED
      BY <1>1, <1>2, <1>3, <3>1, <3>2, WorkerMoves
  <2>2. /\ Running(t)' \subseteq Running(t) \cup {c}
        /\ t # p => Running(t)' \subseteq Running(t)
        /\ Replies(t)' \subseteq Replies(t)
    BY <1>6, <1>7, <1>8 DEF Running, Replies
  <2>3. CountedFirst(t)'
    BY <1>3, <2>1, <2>2, QuietCounted
  <2>4. EnteredOnce(t)'
    <3>1. CASE t # p
      BY <1>3, <2>1, <2>2, <3>1, QuietEntered
    <3>2. CASE t = p
      <4>1. w \in Unsent(t)
        BY <1>4, <1>5, <3>2 DEF Unsent
      <4>2. Cardinality(Unsent(t)') + 1 <= Cardinality(Unsent(t))
            /\ Cardinality(Unsent(t)') \in Nat
        BY <1>1, <2>1, <4>1, Numbers, OneLess
      <4>3. Cardinality(Running(t)') <= Cardinality(Running(t)) + 1
            /\ Cardinality(Running(t)') \in Nat
        BY <1>1, <2>2, Numbers, OneMore
      <4>4. EnteredOnce(t) /\ CountedAll(t)' = CountedAll(t)
        BY <1>3 DEF AgreeInv, CountedAll, Counted
      <4>5. QED
        BY <1>1, <1>3, <4>2, <4>3, <4>4, Numbers DEF EnteredOnce
    <3>3. QED
      BY <3>1, <3>2
  <2>5. QED
    BY <2>3, <2>4
<1>10. IsFiniteSet(DOMAIN exec')
  BY <1>1, <1>7, FS_AddElement
<1>11. QED
  BY <1>9, <1>10 DEF AgreeInv

\* A call is turned away, breaks off or is given up: its handler, if it was
\* entered, is counted all the same, and its reply is no success.
LEMMA AgreeGiveUp ==
    ASSUME TypeInv, CallInv, AgreeInv, NEW w \in DOMAIN worker, UNCHANGED client,
           GiveUp(w) \/ Reject(w) \/ Break(w)
    PROVE  AgreeInv'
<1>1. BenchTypeInv /\ BackendTypeInv /\ IsFiniteSet(DOMAIN exec)
  BY DEF TypeInv, AgreeInv
<1>2. PICK y \in Worker : Set(w, y) /\ Returns(worker[w], y) /\ y.error # ""
  BY <1>1, GiveUpEffect
<1>3. y.pc = "returned" /\ y.pc # "calling"
  BY <1>2 DEF Returns
<1>4. UNCHANGED <<config, bench, client, invocations, tally>>
  BY DEF GiveUp, Reject, Break, backendVars
<1>5. PICK c : c = CallOf(w)
  OBVIOUS
<1>6. exec' = exec \/ exec' = HungUp(c)
  BY <1>5 DEF GiveUp, Reject, Break, backendVars
<1>7. c # RunCall
  BY <1>1, <1>5, NotRunCall
<1>8. /\ DOMAIN exec' \subseteq DOMAIN exec
      /\ RunCall \in DOMAIN exec => RunCall \in DOMAIN exec'
      /\ \A d \in DOMAIN exec' : exec'[d].tool = exec[d].tool /\ exec'[d].pc = exec[d].pc
                                /\ exec'[d].result = exec[d].result
  <2>1. CASE exec' = exec
    BY <2>1
  <2>2. CASE exec' = HungUp(c)
    BY <1>1, <1>7, <2>2, HungUpFields
  <2>3. QED
    BY <1>6, <2>1, <2>2
<1>9. ASSUME NEW t \in Tools PROVE EnteredOnce(t)' /\ CountedFirst(t)'
  <2>1. Unsent(t)' \subseteq Unsent(t) /\ Received(t)' \subseteq Received(t)
    BY <1>1, <1>2, <1>3, <1>4, <1>8, WorkerMoves
  <2>2. Running(t)' \subseteq Running(t) /\ Replies(t)' \subseteq Replies(t)
    BY <1>8 DEF Running, Replies
  <2>3. QED
    BY <1>4, <2>1, <2>2, QuietEntered, QuietCounted
<1>10. IsFiniteSet(DOMAIN exec')
  BY <1>1, <1>8, FS_Subset
<1>11. QED
  BY <1>9, <1>10 DEF AgreeInv

\* A reply is received: it was counted when it left.
LEMMA AgreeReceive ==
    ASSUME TypeInv, CallInv, AgreeInv, NEW w \in DOMAIN worker, UNCHANGED client, Receive(w)
    PROVE  AgreeInv'
<1>1. BenchTypeInv /\ BackendTypeInv /\ IsFiniteSet(DOMAIN exec) /\ AwaitedInv
  BY DEF TypeInv, AgreeInv, CallInv
<1>2. PICK c : c = CallOf(w)
  OBVIOUS
<1>3. PICK y \in Worker : /\ Set(w, y) /\ Returns(worker[w], y)
                          /\ y.error = "" => exec[c].result = "content"
  BY <1>1, <1>2, ReceiveEffect
<1>4. y.pc = "returned" /\ y.pc # "calling"
  BY <1>3 DEF Returns
<1>5. UNCHANGED <<config, bench, client, invocations, tally>>
  BY DEF Receive
<1>6. exec' = Without(c) /\ c \in DOMAIN exec /\ exec[c].pc = "replied"
  BY <1>2 DEF Receive
<1>7. c # RunCall /\ c.worker = w
  BY <1>1, <1>2, NotRunCall, WorkerOfCall
<1>8. exec[c].tool = Phase.tool
  BY <1>1, <1>6, <1>7 DEF AwaitedInv, Awaited
<1>9. /\ DOMAIN exec' = DOMAIN exec \ {c}
      /\ \A d \in DOMAIN exec' : exec'[d] = exec[d]
  BY <1>1, <1>6, ExecTypes, SMTT(30)
<1>10. ASSUME NEW t \in Tools PROVE EnteredOnce(t)' /\ CountedFirst(t)'
  <2>1. RunCall \in DOMAIN exec => RunCall \in DOMAIN exec'
    BY <1>7, <1>9
  <2>2. /\ Unsent(t)' \subseteq Unsent(t)
        /\ Received(t)' \subseteq Received(t) \cup {w}
        /\ y.error # "" \/ Phase.tool # t => Received(t)' \subseteq Received(t)
    BY <1>1, <1>3, <1>4, <1>5, <2>1, WorkerMoves
  <2>3. Running(t)' \subseteq Running(t) /\ Replies(t)' \subseteq Replies(t) \ {c}
    BY <1>9 DEF Running, Replies
  <2>4. EnteredOnce(t)'
    BY <1>5, <2>2, <2>3, QuietEntered
  <2>5. CASE y.error # "" \/ Phase.tool # t
    BY <1>5, <2>2, <2>3, <2>4, <2>5, QuietCounted
  <2>6. CASE y.error = "" /\ Phase.tool = t
    <3>1. c \in Replies(t)
      BY <1>3, <1>6, <1>8, <2>6 DEF Replies
    <3>2. Cardinality(Replies(t)') + 1 <= Cardinality(Replies(t))
          /\ Cardinality(Replies(t)') \in Nat
      BY <1>1, <2>3, <3>1, Numbers, OneLess
    <3>3. Cardinality(Received(t)') <= Cardinality(Received(t)) + 1
          /\ Cardinality(Received(t)') \in Nat
      BY <1>1, <2>2, Numbers, OneMore
    <3>4. CountedFirst(t) /\ Counted(t, "success")' = Counted(t, "success")
      BY <1>5 DEF AgreeInv, Counted
    <3>5. CountedFirst(t)'
      BY <1>1, <1>5, <3>2, <3>3, <3>4, Numbers DEF CountedFirst
    <3>6. QED
      BY <2>4, <3>5
  <2>7. QED
    BY <2>5, <2>6
<1>11. IsFiniteSet(DOMAIN exec')
  BY <1>1, <1>9, FS_Subset
<1>12. QED
  BY <1>10, <1>11 DEF AgreeInv

\* A call is judged: a success is one of a reply received.
LEMMA AgreeFinish ==
    ASSUME TypeInv, CallInv, AgreeInv, NEW w \in DOMAIN worker, UNCHANGED client, FinishCall(w)
    PROVE  AgreeInv'
<1>1. BenchTypeInv /\ IsFiniteSet(DOMAIN exec) /\ Phase.tool \in Tools
      /\ worker[w] \in Worker
  BY WorkerHasPhase DEF TypeInv, AgreeInv
<1>2. PICK y \in Worker : Set(w, y) /\ FinishesCall(worker[w], y)
  BY <1>1, FinishEffect
<1>3. y.pc = "ready" /\ y.pc # "calling" /\ y.pc # "returned" /\ worker[w].pc = "returned"
  BY <1>2 DEF FinishesCall
<1>4. UNCHANGED <<config, bench, client, exec, invocations>>
  BY DEF FinishCall, backendVars
<1>5. PICK p : p = Phase.tool
  OBVIOUS
<1>6. PICK good \in BOOLEAN :
         /\ tally' = [tally EXCEPT ![p].succeeded = IF good THEN @ + 1 ELSE @]
         /\ good => worker[w].error = ""
  <2>1. PICK buffered \in BOOLEAN :
           tally' = [tally EXCEPT ![p].succeeded =
                        IF Category(worker[w], buffered) = "" THEN @ + 1 ELSE @]
    BY <1>5 DEF FinishCall
  <2>2. worker[w].error # "" => Category(worker[w], buffered) # ""
    BY <1>1, CategoryType
  <2>3. PICK good : good = (Category(worker[w], buffered) = "")
    OBVIOUS
  <2>4. good \in BOOLEAN /\ (good => worker[w].error = "")
    BY <2>2, <2>3
  <2>5. QED
    BY <2>1, <2>3, <2>4
<1>7. ASSUME NEW t \in Tools PROVE EnteredOnce(t)' /\ CountedFirst(t)'
  <2>1. Unsent(t)' \subseteq Unsent(t) /\ Received(t)' \subseteq Received(t) \ {w}
    BY <1>1, <1>2, <1>3, <1>4, WorkerMoves
  <2>2. Running(t)' = Running(t) /\ Replies(t)' = Replies(t)
    BY <1>4 DEF Running, Replies
  <2>3. /\ tally'[t].started = tally[t].started
        /\ tally'[t].succeeded = IF t = p /\ good THEN tally[t].succeeded + 1
                                 ELSE tally[t].succeeded
    BY <1>1, <1>5, <1>6, <1>7 DEF BenchTypeInv
  <2>4. EnteredOnce(t)'
    BY <1>4, <2>1, <2>2, <2>3, QuietEntered
  <2>5. CASE ~(t = p /\ good)
    BY <1>4, <2>1, <2>2, <2>3, <2>4, <2>5, QuietCounted
  <2>6. CASE t = p /\ good
    <3>1. w \in Received(t)
      BY <1>3, <1>5, <1>6, <2>6 DEF Received
    <3>2. Cardinality(Received(t)') + 1 <= Cardinality(Received(t))
          /\ Cardinality(Received(t)') \in Nat
      BY <1>1, <2>1, <3>1, Numbers, OneLess
    <3>3. CountedFirst(t) /\ Counted(t, "success")' = Counted(t, "success")
      BY <1>4 DEF AgreeInv, Counted
    <3>4. CountedFirst(t)'
      BY <1>1, <2>2, <2>3, <2>6, <3>2, <3>3, Numbers DEF CountedFirst
    <3>5. QED
      BY <2>4, <3>4
  <2>7. QED
    BY <2>5, <2>6
<1>8. QED
  BY <1>1, <1>4, <1>7 DEF AgreeInv

\* A callback changes neither account.
LEMMA AgreeProgress ==
    ASSUME TypeInv, CallInv, AgreeInv, NEW c \in DOMAIN progress, Progress(c), UNCHANGED client
    PROVE  AgreeInv'
<1>1. BenchTypeInv /\ IsFiniteSet(DOMAIN exec)
  BY DEF TypeInv, AgreeInv
<1>2. UNCHANGED <<config, bench, client, exec, invocations, tally>>
  BY DEF Progress
<1>3. ASSUME NEW t \in Tools PROVE EnteredOnce(t)' /\ CountedFirst(t)'
  <2>1. Running(t)' \subseteq Running(t) /\ Replies(t)' \subseteq Replies(t)
    BY <1>2 DEF Running, Replies
  <2>2. Unsent(t)' \subseteq Unsent(t) /\ Received(t)' \subseteq Received(t)
    <3>1. CASE worker' = worker
      BY <1>2, <3>1 DEF Unsent, Received, Phase, RunCall
    <3>2. CASE /\ c.worker \in DOMAIN worker
               /\ \E y \in Worker : /\ Set(c.worker, y)
                                    /\ Counts(worker[c.worker], y, c = CallOf(c.worker))
      <4>1. PICK w : w = c.worker
        OBVIOUS
      <4>2. PICK y \in Worker : Set(w, y) /\ Counts(worker[w], y, c = CallOf(w))
        BY <3>2, <4>1
      <4>3. /\ y.pc = worker[w].pc /\ y.error = worker[w].error
            /\ y.answered = worker[w].answered
        BY <4>2 DEF Counts, SameStatus
      <4>4. /\ Unsent(t)' \subseteq Unsent(t) \cup {w}
            /\ y.pc # "calling" \/ y.answered # 0 \/ Phase.tool # t =>
                  Unsent(t)' \subseteq Unsent(t) \ {w}
            /\ Received(t)' \subseteq Received(t) \cup {w}
            /\ y.pc # "returned" \/ y.error # "" \/ Phase.tool # t =>
                  Received(t)' \subseteq Received(t) \ {w}
        BY <1>1, <1>2, <3>2, <4>1, <4>2, WorkerMoves
      <4>5. /\ y.pc = "calling" /\ y.answered = 0 /\ Phase.tool = t => w \in Unsent(t)
            /\ y.pc = "returned" /\ y.error = "" /\ Phase.tool = t => w \in Received(t)
        BY <3>2, <4>1, <4>3 DEF Unsent, Received
      <4>6. QED
        BY <4>4, <4>5
    <3>3. QED
      BY <1>1, <3>1, <3>2, ProgressEffect
  <2>3. QED
    BY <1>2, <2>1, <2>2, QuietEntered, QuietCounted
<1>4. QED
  BY <1>1, <1>2, <1>3 DEF AgreeInv

\* A handler runs on, or is counted: then a reply with content, if one leaves, is
\* counted as a success.
LEMMA AgreeBackend ==
    ASSUME TypeInv, CallInv, AgreeInv, NEW c \in DOMAIN exec, BackendStep(c),
           UNCHANGED <<client, benchmarkVars>>
    PROVE  AgreeInv'
<1>1. BackendTypeInv /\ BenchTypeInv /\ IsFiniteSet(DOMAIN exec) /\ RunInv
  BY DEF TypeInv, AgreeInv, CallInv
<1>2. UNCHANGED <<config, bench, worker, tally, client>>
  BY DEF benchmarkVars
<1>3. ASSUME RunCall \in DOMAIN exec => client.pc # "calling" \/ RunCall \in DOMAIN exec',
             NEW t
      PROVE  Unsent(t)' \subseteq Unsent(t) /\ Received(t)' \subseteq Received(t)
  BY <1>2, <1>3 DEF Unsent, Received, Phase, RunCall
<1>4. CASE Runs(c)
  <2>1. ASSUME NEW t \in Tools PROVE EnteredOnce(t)' /\ CountedFirst(t)'
    <3>1. Running(t)' \subseteq Running(t) /\ Replies(t)' \subseteq Replies(t)
      BY <1>4 DEF Runs, Running, Replies
    <3>2. Unsent(t)' \subseteq Unsent(t) /\ Received(t)' \subseteq Received(t)
      BY <1>3, <1>4 DEF Runs
    <3>3. invocations' = invocations
      BY <1>4 DEF Runs
    <3>4. QED
      BY <1>2, <3>1, <3>2, <3>3, QuietEntered, QuietCounted
  <2>2. IsFiniteSet(DOMAIN exec')
    BY <1>1, <1>4 DEF Runs
  <2>3. QED
    BY <2>1, <2>2 DEF AgreeInv
<1>5. ASSUME NEW o, Observed(c, o)
      PROVE  AgreeInv'
  <2>1. exec[c].pc = "returned" /\ DOMAIN exec' \subseteq DOMAIN exec
    BY <1>5 DEF Observed
  <2>2. RunCall \in DOMAIN exec => client.pc # "calling" \/ RunCall \in DOMAIN exec'
    BY <1>1, <1>5 DEF Observed, RunInv
  <2>3. ASSUME NEW t \in Tools PROVE EnteredOnce(t)' /\ CountedFirst(t)'
    <3>1. Unsent(t)' \subseteq Unsent(t) /\ Received(t)' \subseteq Received(t)
      BY <1>3, <2>2
    <3>2. Running(t)' \subseteq Running(t) \ {c}
      BY <1>5 DEF Observed, Running
    <3>3. /\ Replies(t)' \subseteq Replies(t) \cup {c}
          /\ t # exec[c].tool \/ o # "success" => Replies(t)' \subseteq Replies(t)
      <4>1. exec[c].open /\ exec[c].result = "content" => o = "success"
        BY <1>5 DEF Observed, Outcomes
      <4>2. QED
        BY <1>5, <4>1 DEF Observed, Replies
    <3>4. /\ CountedAll(t)' = CountedAll(t) + (IF t = exec[c].tool THEN 1 ELSE 0)
          /\ Counted(t, "success")' =
                Counted(t, "success") + (IF t = exec[c].tool /\ o = "success" THEN 1 ELSE 0)
      BY <1>1, <1>5, CountedOnce
    <3>5. EnteredOnce(t) /\ CountedFirst(t)
      BY DEF AgreeInv
    <3>6. /\ Cardinality(Unsent(t)') <= Cardinality(Unsent(t))
          /\ Cardinality(Unsent(t)') \in Nat
          /\ Cardinality(Received(t)') <= Cardinality(Received(t))
          /\ Cardinality(Received(t)') \in Nat
      BY <1>1, <3>1, Numbers, Fewer
    <3>7. EnteredOnce(t)'
      <4>1. CASE t = exec[c].tool
        <5>1. c \in Running(t)
          BY <2>1, <4>1 DEF Running
        <5>2. /\ Cardinality(Running(t)') + 1 <= Cardinality(Running(t))
              /\ Cardinality(Running(t)') \in Nat
          BY <1>1, <3>2, <5>1, Numbers, OneLess
        <5>3. CountedAll(t)' = CountedAll(t) + 1
          BY <3>4, <4>1
        <5>4. QED
          BY <1>1, <1>2, <3>5, <3>6, <5>2, <5>3, Numbers DEF EnteredOnce
      <4>2. CASE t # exec[c].tool
        <5>1. /\ Cardinality(Running(t)') <= Cardinality(Running(t))
              /\ Cardinality(Running(t)') \in Nat
          BY <1>1, <3>2, Numbers, Fewer
        <5>2. CountedAll(t)' = CountedAll(t)
          BY <1>1, <3>4, <4>2, Numbers
        <5>3. QED
          BY <1>1, <1>2, <3>5, <3>6, <5>1, <5>2, Numbers DEF EnteredOnce
      <4>3. QED
        BY <4>1, <4>2
    <3>8. CountedFirst(t)'
      <4>1. CASE t = exec[c].tool /\ o = "success"
        <5>1. /\ Cardinality(Replies(t)') <= Cardinality(Replies(t)) + 1
              /\ Cardinality(Replies(t)') \in Nat
          BY <1>1, <3>3, Numbers, OneMore
        <5>2. Counted(t, "success")' = Counted(t, "success") + 1
          BY <3>4, <4>1
        <5>3. QED
          BY <1>1, <1>2, <3>5, <3>6, <5>1, <5>2, Numbers DEF CountedFirst
      <4>2. CASE t # exec[c].tool \/ o # "success"
        <5>1. /\ Cardinality(Replies(t)') <= Cardinality(Replies(t))
              /\ Cardinality(Replies(t)') \in Nat
          BY <1>1, <3>3, <4>2, Numbers, Fewer
        <5>2. Counted(t, "success")' = Counted(t, "success")
          BY <1>1, <3>4, <4>2, Numbers
        <5>3. QED
          BY <1>1, <1>2, <3>5, <3>6, <5>1, <5>2, Numbers DEF CountedFirst
      <4>3. QED
        BY <4>1, <4>2
    <3>9. QED
      BY <3>7, <3>8
  <2>4. IsFiniteSet(DOMAIN exec')
    BY <1>1, <2>1, FS_Subset
  <2>5. QED
    BY <2>3, <2>4 DEF AgreeInv
<1>6. QED
  BY <1>1, <1>4, <1>5, BackendEffect

\* When the main goroutine moves, no worker has a call under way, before or after.
LEMMA AgreeMain ==
    ASSUME TypeInv, CallInv, AgreeInv, MainStep, UNCHANGED client
    PROVE  AgreeInv'
<1>1. OwnInv /\ IsFiniteSet(DOMAIN exec)
  BY DEF CallInv, AgreeInv
<1>2. UNCHANGED <<exec, invocations, tally, client>>
  BY DEF MainStep, Begin, EndRound, EndPhase, NextPhase, Report, backendVars
<1>3. ASSUME NEW w \in DOMAIN worker' PROVE worker'[w].pc \notin Calling
  <2>1. CASE \E n : worker' = NewWorkers(n)
    <3>1. PICK n : worker' = NewWorkers(n)
      BY <2>1
    <3>2. DOMAIN worker' = 1..n
      BY <3>1 DEF NewWorkers
    <3>3. w \in 1..n
      BY <1>3, <3>2
    <3>4. worker'[w] = NewWorker
      BY <3>1, <3>3 DEF NewWorkers
    <3>5. QED
      BY <3>4, NewWorkerFields DEF Calling
  <2>2. CASE EndRound
    <3>1. DOMAIN worker' = DOMAIN worker
      BY <2>2 DEF EndRound
    <3>2. worker[w] \in Worker
      BY <1>3, <3>1 DEF TypeInv, BenchTypeInv
    <3>3. worker'[w] = [worker[w] EXCEPT !.pc = "ready", !.call = 0, !.failed = FALSE]
      BY <1>3, <2>2, <3>1 DEF EndRound
    <3>4. worker'[w].pc = "ready"
      BY <3>2, <3>3 DEF Worker
    <3>5. QED
      BY <3>4 DEF Calling
  <2>3. CASE worker' = worker /\ bench.pc \notin {"warmup", "measured"}
    BY <1>1, <1>3, <2>3, NobodyCalls
  <2>4. QED
    BY <2>1, <2>2, <2>3 DEF MainStep, Begin, EndPhase, NextPhase, Report, StartPhase
<1>4. ASSUME NEW t \in Tools PROVE EnteredOnce(t)' /\ CountedFirst(t)'
  <2>1. Unsent(t)' \subseteq Unsent(t) /\ Received(t)' \subseteq Received(t)
    BY <1>2, <1>3 DEF Unsent, Received, Calling, RunCall
  <2>2. Running(t)' \subseteq Running(t) /\ Replies(t)' \subseteq Replies(t)
    BY <1>2 DEF Running, Replies
  <2>3. QED
    BY <1>2, <2>1, <2>2, QuietEntered, QuietCounted
<1>5. QED
  BY <1>1, <1>2, <1>4 DEF AgreeInv

\* The sets of workers are left alone by the other modes.
LEMMA ClientMoves ==
    ASSUME UNCHANGED <<config, bench, worker>>, NEW t
    PROVE  /\ Received(t)' = Received(t)
           /\ Unsent(t)' \subseteq Unsent(t) \cup {0}
           /\ client'.pc # "calling" \/ RunCall \in DOMAIN exec' \/ t # ReadTool =>
                 Unsent(t)' \subseteq Unsent(t)
           /\ UNCHANGED <<client, exec>> => Unsent(t)' \subseteq Unsent(t)
BY DEF Received, Unsent, Phase, RunCall

\* Run's call: started with ListTools answered, executed once, a success only when
\* its reply has been received.
LEMMA AgreeClient ==
    ASSUME TypeInv, CallInv, AgreeInv,
           ClientStep \/ Done \/ RunAccepted \/ RunReceives \/ RunCloses
    PROVE  AgreeInv'
<1>1. BenchTypeInv /\ BackendTypeInv /\ IsFiniteSet(DOMAIN exec) /\ RunInv
      /\ client \in Client
  BY DEF TypeInv, ClientTypeInv, AgreeInv, CallInv
<1>2. UNCHANGED <<config, bench, worker>>
  BY BenchIsKept
<1>3. invocations' = invocations
  BY DEF ClientStep, Fatal, Resolve, Dial, Judge, Get, Tick, Connect, ListTools, RunGivesUp,
     Done, RunAccepted, RunReceives, RunCloses, backendVars
<1>4. ReadTool \in Tools /\ RunCall \in Call
  BY DEF Tools, RunCall, Call
<1>5. ASSUME UNCHANGED <<exec, tally>>, client' = client \/ client'.pc # "calling"
      PROVE  AgreeInv'
  <2>1. ASSUME NEW t \in Tools PROVE EnteredOnce(t)' /\ CountedFirst(t)'
    <3>1. Unsent(t)' \subseteq Unsent(t) /\ Received(t)' \subseteq Received(t)
      BY <1>2, <1>5, ClientMoves
    <3>2. Running(t)' \subseteq Running(t) /\ Replies(t)' \subseteq Replies(t)
      BY <1>5 DEF Running, Replies
    <3>3. QED
      BY <1>3, <1>5, <3>1, <3>2, QuietEntered, QuietCounted
  <2>2. QED
    BY <1>1, <1>5, <2>1 DEF AgreeInv
<1>6. CASE Fatal \/ Resolve \/ Dial \/ Judge \/ Get \/ Tick \/ Connect \/ Done \/ RunCloses
  <2>1. UNCHANGED <<exec, tally>>
    BY <1>6 DEF Fatal, Resolve, Dial, Judge, Get, Tick, Connect, Done, RunCloses, backendVars
  <2>2. client' = client \/ client'.pc # "calling"
    BY <1>1, <1>6 DEF Fatal, Resolve, Dial, Judge, Get, Tick, Connect, Done, RunCloses, Exit,
       GoTo, Client
  <2>3. QED
    BY <1>5, <2>1, <2>2
<1>7. CASE ListTools
  <2>1. CASE RunFails /\ UNCHANGED tally
    <3>1. client'.pc # "calling" /\ exec' = exec
      BY <1>1, <1>7, <2>1 DEF RunFails, Client, ListTools, backendVars
    <3>2. QED
      BY <1>5, <2>1, <3>1
  <2>2. CASE tally' = [tally EXCEPT ![ReadTool].started = @ + 1]
    <3>1. exec' = exec
      BY <1>7 DEF ListTools, backendVars
    <3>2. ASSUME NEW t \in Tools PROVE EnteredOnce(t)' /\ CountedFirst(t)'
      <4>1. /\ Unsent(t)' \subseteq Unsent(t) \cup {0} /\ Received(t)' \subseteq Received(t)
            /\ t # ReadTool => Unsent(t)' \subseteq Unsent(t)
        BY <1>2, ClientMoves
      <4>2. Running(t)' = Running(t) /\ Replies(t)' = Replies(t)
        BY <3>1 DEF Running, Replies
      <4>3. /\ tally'[t].succeeded = tally[t].succeeded
            /\ tally'[t].started = IF t = ReadTool THEN tally[t].started + 1
                                   ELSE tally[t].started
        BY <1>1, <1>4, <2>2, <3>2 DEF BenchTypeInv
      <4>4. CountedFirst(t)'
        BY <1>3, <4>1, <4>2, <4>3, QuietCounted
      <4>5. EnteredOnce(t)'
        <5>1. CASE t # ReadTool
          BY <1>3, <4>1, <4>2, <4>3, <5>1, QuietEntered
        <5>2. CASE t = ReadTool
          <6>1. CountedAll(t)' = CountedAll(t) /\ EnteredOnce(t)
            BY <1>3 DEF CountedAll, Counted, AgreeInv
          <6>2. /\ Cardinality(Unsent(t)') <= Cardinality(Unsent(t)) + 1
                /\ Cardinality(Unsent(t)') \in Nat
            BY <1>1, <4>1, Numbers, OneMore
          <6>3. tally'[t].started = tally[t].started + 1
            BY <4>3, <5>2
          <6>4. QED
            BY <1>1, <4>2, <6>1, <6>2, <6>3, Numbers DEF EnteredOnce
        <5>3. QED
          BY <5>1, <5>2
      <4>6. QED
        BY <4>4, <4>5
    <3>3. QED
      BY <1>1, <3>1, <3>2 DEF AgreeInv
  <2>3. QED
    BY <1>7, <2>1, <2>2 DEF ListTools
<1>8. CASE RunAccepted
  <2>1. PICK known \in BOOLEAN : exec' = Entered(RunCall, ReadTool, known)
    BY <1>8 DEF RunAccepted
  <2>2. PICK c, p : c = RunCall /\ p = ReadTool
    OBVIOUS
  <2>3. c \in Call /\ p \in Tools /\ exec' = Entered(c, p, known)
    BY <1>4, <2>1, <2>2
  <2>4. /\ DOMAIN exec' = DOMAIN exec \cup {c}
        /\ \A d \in DOMAIN exec \ {c} : exec'[d] = exec[d]
        /\ exec'[c] = [tool |-> p, known |-> known, pc |-> "run", step |-> 0,
                       result |-> "none", open |-> TRUE]
    <3>1. BackendTypeInv /\ known \in BOOLEAN
      BY <1>1, <2>1
    <3>2. QED
      BY <2>3, <3>1, EnteredType
  <2>5. exec'[c].tool = p /\ exec'[c].pc = "run"
    BY <2>4
  <2>6. /\ c \notin DOMAIN exec /\ UNCHANGED <<client, tally>>
        /\ Mode(client.flags) = "run" /\ client.pc = "calling"
    BY <1>8, <2>2 DEF RunAccepted, ClientAt
  <2>7. ASSUME NEW t \in Tools PROVE EnteredOnce(t)' /\ CountedFirst(t)'
    <3>1. Unsent(t)' \subseteq Unsent(t) /\ Received(t)' \subseteq Received(t)
      BY <1>2, <2>2, <2>4, ClientMoves
    <3>2. /\ Running(t)' \subseteq Running(t) \cup {c}
          /\ t # p => Running(t)' \subseteq Running(t)
          /\ Replies(t)' \subseteq Replies(t)
      BY <2>4, <2>5, <2>6 DEF Running, Replies
    <3>3. CountedFirst(t)'
      BY <1>3, <2>6, <3>1, <3>2, QuietCounted
    <3>4. CASE t # p
      BY <1>3, <2>6, <3>1, <3>2, <3>3, <3>4, QuietEntered
    <3>5. CASE t = p
      <4>1. 0 \in Unsent(t)
        BY <2>2, <2>6, <3>5 DEF Unsent
      <4>2. 0 \notin Unsent(t)'
        <5>1. 0 \notin DOMAIN worker'
          BY <1>1, <1>2, LimitAssumption DEF BenchTypeInv
        <5>2. RunCall \in DOMAIN exec'
          BY <2>2, <2>4
        <5>3. QED
          BY <5>1, <5>2 DEF Unsent, RunCall
      <4>3. Unsent(t)' \subseteq Unsent(t) \ {0}
        BY <3>1, <4>2
      <4>4. /\ Cardinality(Unsent(t)') + 1 <= Cardinality(Unsent(t))
            /\ Cardinality(Unsent(t)') \in Nat
        BY <1>1, <4>1, <4>3, Numbers, OneLess
      <4>5. /\ Cardinality(Running(t)') <= Cardinality(Running(t)) + 1
            /\ Cardinality(Running(t)') \in Nat
        BY <1>1, <3>2, Numbers, OneMore
      <4>6. EnteredOnce(t) /\ CountedAll(t)' = CountedAll(t)
        BY <1>3 DEF AgreeInv, CountedAll, Counted
      <4>7. EnteredOnce(t)'
        BY <1>1, <2>6, <4>4, <4>5, <4>6, Numbers DEF EnteredOnce
      <4>8. QED
        BY <3>3, <4>7
    <3>6. QED
      BY <3>4, <3>5
  <2>8. IsFiniteSet(DOMAIN exec')
    BY <1>1, <2>4, FS_AddElement
  <2>9. QED
    BY <2>7, <2>8 DEF AgreeInv
<1>9. CASE RunGivesUp
  <2>1. exec' = HungUp(RunCall) /\ tally' = tally /\ client'.pc # "calling"
    BY <1>1, <1>9 DEF RunGivesUp, RunFails, Client
  <2>2. /\ DOMAIN exec' \subseteq DOMAIN exec
        /\ \A d \in DOMAIN exec' : exec'[d].tool = exec[d].tool /\ exec'[d].pc = exec[d].pc
                                  /\ exec'[d].result = exec[d].result
    BY <1>1, <2>1, HungUpFields
  <2>3. ASSUME NEW t \in Tools PROVE EnteredOnce(t)' /\ CountedFirst(t)'
    <3>1. Unsent(t)' \subseteq Unsent(t) /\ Received(t)' \subseteq Received(t)
      BY <1>2, <2>1, ClientMoves
    <3>2. Running(t)' \subseteq Running(t) /\ Replies(t)' \subseteq Replies(t)
      BY <2>2 DEF Running, Replies
    <3>3. QED
      BY <1>3, <2>1, <3>1, <3>2, QuietEntered, QuietCounted
  <2>4. QED
    BY <1>1, <2>2, <2>3, FS_Subset DEF AgreeInv
<1>10. CASE RunReceives
  <2>1. PICK c : c = RunCall
    OBVIOUS
  <2>2. /\ exec' = Without(c) /\ c \in DOMAIN exec /\ exec[c].pc = "replied"
        /\ exec[c].tool = ReadTool
    BY <1>1, <1>10, <2>1 DEF RunReceives, RunInv
  <2>3. client'.pc # "calling"
    BY <1>1, <1>10 DEF RunReceives, RunFails, GoTo, Client
  <2>4. PICK good \in BOOLEAN :
           /\ good => exec[c].result = "content"
           /\ tally' = IF good THEN [tally EXCEPT ![ReadTool].succeeded = @ + 1] ELSE tally
    BY <1>10, <2>1 DEF RunReceives
  <2>5. /\ DOMAIN exec' = DOMAIN exec \ {c}
        /\ \A d \in DOMAIN exec' : exec'[d] = exec[d]
    BY <1>1, <2>2, ExecTypes, ZenonT(30)
  <2>6. ASSUME NEW t \in Tools PROVE EnteredOnce(t)' /\ CountedFirst(t)'
    <3>1. Unsent(t)' \subseteq Unsent(t) /\ Received(t)' = Received(t)
      BY <1>2, <2>3, ClientMoves
    <3>2. Running(t)' \subseteq Running(t) /\ Replies(t)' \subseteq Replies(t) \ {c}
      BY <2>5 DEF Running, Replies
    <3>3. /\ tally'[t].started = tally[t].started
          /\ tally'[t].succeeded = IF t = ReadTool /\ good THEN tally[t].succeeded + 1
                                   ELSE tally[t].succeeded
      BY <1>1, <1>4, <2>4, <2>6 DEF BenchTypeInv
    <3>4. EnteredOnce(t)'
      BY <1>3, <3>1, <3>2, <3>3, QuietEntered
    <3>5. CASE ~(t = ReadTool /\ good)
      BY <1>3, <3>1, <3>2, <3>3, <3>4, <3>5, QuietCounted
    <3>6. CASE t = ReadTool /\ good
      <4>1. c \in Replies(t)
        BY <2>2, <2>4, <3>6 DEF Replies
      <4>2. /\ Cardinality(Replies(t)') + 1 <= Cardinality(Replies(t))
            /\ Cardinality(Replies(t)') \in Nat
        BY <1>1, <3>2, <4>1, Numbers, OneLess
      <4>3. CountedFirst(t) /\ Counted(t, "success")' = Counted(t, "success")
        BY <1>3 DEF AgreeInv, Counted
      <4>4. tally'[t].succeeded = tally[t].succeeded + 1
        BY <3>3, <3>6
      <4>5. CountedFirst(t)'
        BY <1>1, <3>1, <4>2, <4>3, <4>4, Numbers DEF CountedFirst
      <4>6. QED
        BY <3>4, <4>5
    <3>7. QED
      BY <3>5, <3>6
  <2>7. QED
    BY <1>1, <2>5, <2>6, FS_Subset DEF AgreeInv
<1>11. QED
  BY <1>6, <1>7, <1>8, <1>9, <1>10 DEF ClientStep

\* The deadline passes.
LEMMA AgreeExpire ==
    ASSUME TypeInv, CallInv, AgreeInv,
           UNCHANGED <<config, bench, worker, client, exec, invocations, tally>>
    PROVE  AgreeInv'
<1>1. ASSUME NEW t \in Tools PROVE EnteredOnce(t)' /\ CountedFirst(t)'
  <2>1. Unsent(t)' \subseteq Unsent(t) /\ Received(t)' \subseteq Received(t)
    BY ClientMoves
  <2>2. Running(t)' \subseteq Running(t) /\ Replies(t)' \subseteq Replies(t)
    BY DEF Running, Replies
  <2>3. QED
    BY <2>1, <2>2, QuietEntered, QuietCounted
<1>2. QED
  BY <1>1 DEF AgreeInv

\* Every step of client and server keeps the two accounts in balance.
LEMMA AgreeStep ==
    ASSUME TypeInv, CallInv, AgreeInv, [DemoNext]_demoVars
    PROVE  AgreeInv'
<1>1. CASE UNCHANGED demoVars
  BY <1>1, AgreeExpire DEF demoVars, benchmarkVars, backendVars
<1>2. CASE Expire /\ UNCHANGED client
  BY <1>2, AgreeExpire DEF Expire, backendVars
<1>3. ASSUME NEW w \in DOMAIN worker, UNCHANGED client,
             WorkerStep(w) \/ Accept(w) \/ Reject(w) \/ Break(w) \/ Receive(w)
      PROVE  AgreeInv'
  BY <1>3, AgreeIdle, AgreeStart, AgreeAccept, AgreeGiveUp, AgreeReceive, AgreeFinish
     DEF WorkerStep
<1>4. CASE DemoNext
  BY <1>2, <1>3, <1>4, AgreeClient, AgreeMain, AgreeProgress, AgreeBackend
     DEF DemoNext, Outside, BenchmarkMode
<1>5. QED
  BY <1>1, <1>4

\* Nothing is under way, started or counted at the start.
LEMMA AgreeInitially == DemoInit => AgreeInv
<1>1. SUFFICES ASSUME DemoInit PROVE AgreeInv
  OBVIOUS
<1>2. /\ exec = [c \in {} |-> 0] /\ invocations = EmptyBag /\ worker = NewWorkers(0)
      /\ tally = [t \in Tools |-> [started |-> 0, succeeded |-> 0]] /\ client.pc = "start"
  BY <1>1 DEF DemoInit, BenchmarkInit, BackendInit, ClientInit
<1>3. DOMAIN exec = {} /\ DOMAIN worker = {} /\ DOMAIN invocations = {}
  BY <1>2 DEF NewWorkers, EmptyBag, SetToBag
<1>4. IsFiniteSet({}) /\ Cardinality({}) = 0
  BY FS_EmptySet
<1>5. ASSUME NEW t \in Tools PROVE EnteredOnce(t) /\ CountedFirst(t)
  <2>1. Running(t) = {} /\ Unsent(t) = {} /\ Replies(t) = {} /\ Received(t) = {}
    BY <1>2, <1>3 DEF Running, Unsent, Replies, Received
  <2>2. \A o : Counted(t, o) = 0
    BY <1>3 DEF Counted
  <2>3. tally[t].started = 0 /\ tally[t].succeeded = 0
    BY <1>2
  <2>4. QED
    BY <1>4, <2>1, <2>2, <2>3 DEF EnteredOnce, CountedFirst, CountedAll
<1>6. QED
  BY <1>3, <1>4, <1>5 DEF AgreeInv

\* The accounts imply the agreement.
LEMMA AgreeImplies == ASSUME TypeInv, AgreeInv PROVE BackendAgrees
<1>1. IsFiniteSet(DOMAIN exec)
  BY DEF AgreeInv
<1>2. ASSUME NEW t \in Tools
      PROVE  Executions(t) <= tally[t].started /\ tally[t].succeeded <= Counted(t, "success")
  <2>1. EnteredOnce(t) /\ CountedFirst(t)
    BY DEF AgreeInv
  <2>2. Executions(t) = CountedAll(t) + Cardinality(Running(t))
    BY DEF Executions, CountedAll, Running
  <2>3. QED
    BY <1>1, <2>1, <2>2, Numbers DEF EnteredOnce, CountedFirst
<1>3. QED
  BY <1>2 DEF BackendAgrees

\* No call is executed twice, whatever breaks, and what the client takes for a
\* success the server has counted as one: for any number of workers, phases and
\* faults, and however the deadline falls.
THEOREM ClientAndBackendAgree == DemoSpec => []BackendAgrees
<1>1. DemoInit => AgreeInv
  BY AgreeInitially
<1>2. TypeInv /\ CallInv /\ AgreeInv /\ [DemoNext]_demoVars => AgreeInv'
  BY AgreeStep
<1>3. TypeInv /\ AgreeInv => BackendAgrees
  BY AgreeImplies
<1>4. QED
  BY <1>1, <1>2, <1>3, CallInvariance, PTL DEF DemoSpec
=============================================================================
