--------------------------- MODULE DemoClientProofs ---------------------------
(***************************************************************************)
(* Theorems about DemoClient: what a network probe that reports "blocked"  *)
(* has seen, whose progress and whose HTTP status a benchmark worker       *)
(* counts, and that client and backend agree on the calls made.            *)
(***************************************************************************)
EXTENDS DemoClient, BenchmarkReportProofs

-----------------------------------------------------------------------------
(* The modes other than the benchmark: the probe.                          *)

DialOutcome == {"connected", "refused", "timeout", "deadline"}

Client ==
    [flags : FlagSets,
     pc : {"start", "dial", "judge", "select", "list", "calling", "close"},
     failed : BOOLEAN, addresses : Nat, dials : Seq(DialOutcome)]

\* The first n dials have run into their own timeouts.
TimedOut(n) == \A i \in 1..n : client.dials[i] = "timeout"

\* What the loop of ProbeNetwork knows between its steps: the dials judged so far
\* were timeouts, and a dial that ended with the deadline ended after it.
ProbeInv ==
    Mode(client.flags) = "network" =>
        LET n == Len(client.dials)
        IN  /\ client.pc \in {"start", "dial", "judge"}
            /\ client.pc = "start" => n = 0
            /\ client.pc = "dial" => n < client.addresses
            /\ client.pc = "judge" =>
                  n \in 1..client.addresses /\ (client.dials[n] = "deadline" => expired)
            /\ client.flags.network = "blocked" =>
                  /\ client.pc = "dial" => TimedOut(n)
                  /\ client.pc = "judge" => TimedOut(n - 1)

IsolationInv ==
    /\ client \in Client
    /\ expired \in BOOLEAN
    /\ ProbeInv
    /\ IsolationIsEarned

\* What a step outside the modes does to the client's own variables.
BenchmarkFrame ==
    /\ UNCHANGED client
    /\ expired => expired'
    /\ expired' \in BOOLEAN
    /\ exit' # exit => Mode(client.flags) = "benchmark"

\* Only the steps of a mode other than the benchmark write the client's locals,
\* and the benchmark ends the program only in its own mode.
LEMMA OtherSteps ==
    ASSUME expired \in BOOLEAN, DemoNext
    PROVE  \/ Fatal \/ Resolve \/ Dial \/ Judge \/ Get \/ Tick \/ Connect \/ ListTools
           \/ RunGivesUp \/ Done \/ RunAccepted \/ RunReceives \/ RunCloses
           \/ BenchmarkFrame
<1>1. CASE BenchmarkMode /\ MainStep
  BY <1>1 DEF BenchmarkMode, MainStep, BenchmarkFrame, Begin, EndRound, EndPhase, NextPhase,
     Report
<1>2. CASE BenchmarkMode /\ \E w \in DOMAIN worker : WorkerStep(w)
  BY <1>2 DEF BenchmarkMode, WorkerStep, BenchmarkFrame, Setup, StartCall, StopCalls, GiveUp,
     FinishCall, CloseSession
<1>3. CASE Outside /\ UNCHANGED client
  BY <1>3 DEF Outside, BenchmarkFrame, Accept, Reject, Break, Receive, Progress, benchmarkVars
<1>4. CASE Expire /\ UNCHANGED client
  BY <1>4 DEF Expire, BenchmarkFrame
<1>5. QED
  BY <1>1, <1>2, <1>3, <1>4 DEF DemoNext, ClientStep

\* A mode that reports on the network asked for nothing else.
LEMMA ModeOfNetwork ==
    ASSUME NEW f, f.network = "blocked"
    PROVE  Mode(f) \in {"fatal", "network"}
BY DEF Mode

\* The loop of ProbeNetwork keeps what it knows, and every other step of the
\* program leaves it alone.
LEMMA IsolationStep ==
    ASSUME IsolationInv, [DemoNext]_demoVars
    PROVE  IsolationInv'
<1>1. CASE UNCHANGED demoVars
  BY <1>1 DEF demoVars, benchmarkVars, IsolationInv, ProbeInv, TimedOut, IsolationIsEarned
<1>2. CASE BenchmarkFrame
  <2>1. client' = client /\ expired' \in BOOLEAN /\ (expired => expired')
    BY <1>2 DEF BenchmarkFrame
  <2>2. ProbeInv'
    BY <2>1 DEF IsolationInv, ProbeInv, TimedOut
  <2>3. IsolationIsEarned'
    BY <1>2, <2>1, ModeOfNetwork DEF IsolationInv, IsolationIsEarned, BenchmarkFrame
  <2>4. QED
    BY <2>1, <2>2, <2>3 DEF IsolationInv
<1>3. CASE Resolve
  <2>1. Mode(client.flags) = "network" /\ client.pc = "start" /\ exit = "running"
        /\ expired' = expired
    BY <1>3 DEF Resolve, ClientAt, Kept
  <2>2. CASE Exit("error")
    BY <1>3, <2>1, <2>2 DEF Exit, IsolationInv, ProbeInv, TimedOut, IsolationIsEarned
  <2>3. ASSUME NEW n \in Addresses, n # 0, UNCHANGED exit,
               client' = [client EXCEPT !.pc = "dial", !.addresses = n]
        PROVE  IsolationInv'
    <3>1. n \in Nat /\ n > 0
      BY <2>3, AddressesAssumption
    <3>2. /\ client' \in Client
          /\ client'.flags = client.flags /\ client'.pc = "dial" /\ client'.addresses = n
          /\ client'.dials = client.dials
      BY <2>3, <3>1 DEF IsolationInv, Client
    <3>3. Len(client.dials) = 0
      BY <2>1 DEF IsolationInv, ProbeInv
    <3>4. ProbeInv'
      BY <3>1, <3>2, <3>3 DEF ProbeInv, TimedOut
    <3>5. QED
      BY <2>1, <2>3, <3>2, <3>4 DEF IsolationInv, IsolationIsEarned
  <2>4. QED
    BY <1>3, <2>2, <2>3 DEF Resolve
<1>4. CASE Dial
  <2>1. Mode(client.flags) = "network" /\ client.pc = "dial" /\ exit = "running"
        /\ expired' = expired /\ exit' = exit
    BY <1>4 DEF Dial, ClientAt, Kept
  <2>2. PICK d \in DialOutcome :
           /\ client' = [client EXCEPT !.pc = "judge", !.dials = Append(@, d)]
           /\ d = "deadline" => expired
    BY <1>4 DEF Dial, DialOutcome, IsolationInv
  <2>3. /\ client.dials \in Seq(DialOutcome)
        /\ Len(client.dials) < client.addresses /\ client.addresses \in Nat
    BY <2>1 DEF IsolationInv, ProbeInv, Client
  <2>4. /\ client' \in Client
        /\ client'.flags = client.flags /\ client'.pc = "judge"
        /\ client'.addresses = client.addresses
        /\ client'.dials = Append(client.dials, d)
    <3>1. PICK dials : dials = Append(client.dials, d)
      OBVIOUS
    <3>2. dials \in Seq(DialOutcome)
      BY <2>3, <3>1
    <3>3. client' = [client EXCEPT !.pc = "judge", !.dials = dials]
      BY <2>2, <3>1 DEF IsolationInv, Client
    <3>4. QED
      BY <3>1, <3>2, <3>3 DEF IsolationInv, Client
  <2>5. /\ Len(client'.dials) = Len(client.dials) + 1
        /\ client'.dials[Len(client.dials) + 1] = d
        /\ \A i \in 1..Len(client.dials) : client'.dials[i] = client.dials[i]
        /\ Len(client.dials) \in Nat
    BY <2>3, <2>4
  <2>6. ProbeInv'
    BY <2>1, <2>2, <2>3, <2>4, <2>5 DEF IsolationInv, ProbeInv, TimedOut
  <2>7. QED
    BY <2>1, <2>4, <2>6 DEF IsolationInv, IsolationIsEarned
<1>5. CASE Judge
  <2> DEFINE n == Len(client.dials)
             d == client.dials[n]
             expected == IF client.flags.network = "blocked" THEN Blocked(d)
                         ELSE d = "connected"
  <2>1. Mode(client.flags) = "network" /\ client.pc = "judge" /\ exit = "running"
        /\ expired' = expired
    BY <1>5 DEF Judge, ClientAt, Kept
  <2>2. /\ n \in 1..client.addresses /\ client.addresses \in Nat
        /\ d = "deadline" => expired
        /\ client.flags.network = "blocked" => TimedOut(n - 1)
        /\ client.dials \in Seq(DialOutcome) /\ n \in Nat
    BY <2>1 DEF IsolationInv, ProbeInv, Client
  <2>3. expected /\ client.flags.network = "blocked" => TimedOut(n)
    BY <2>2 DEF Blocked, TimedOut
  <2>4. CASE Exit("error")
    BY <2>1, <2>4 DEF Exit, IsolationInv, ProbeInv, TimedOut, IsolationIsEarned
  <2>5. CASE expected /\ n < client.addresses /\ GoTo("dial") /\ UNCHANGED exit
    <3>1. /\ client' \in Client
          /\ client'.flags = client.flags /\ client'.pc = "dial"
          /\ client'.addresses = client.addresses /\ client'.dials = client.dials
      BY <2>5 DEF GoTo, IsolationInv, Client
    <3>2. ProbeInv'
      BY <2>3, <2>5, <3>1 DEF ProbeInv, TimedOut
    <3>3. QED
      BY <2>1, <2>5, <3>1, <3>2 DEF IsolationInv, IsolationIsEarned
  <2>6. CASE expected /\ n = client.addresses /\ \E e \in {"ok", "error"} : Exit(e)
    <3>1. client' = client
      BY <2>6 DEF Exit
    <3>2. ProbeInv'
      BY <2>1, <3>1 DEF IsolationInv, ProbeInv, TimedOut
    <3>3. client.flags.network = "blocked" =>
             client.dials = [i \in 1..client.addresses |-> "timeout"]
      BY <2>2, <2>3, <2>6 DEF TimedOut
    <3>4. QED
      BY <2>1, <3>1, <3>2, <3>3 DEF IsolationInv, IsolationIsEarned
  <2>7. QED
    BY <1>5, <2>4, <2>5, <2>6 DEF Judge
<1>6. CASE Fatal \/ Get \/ Tick \/ Connect \/ ListTools \/ RunGivesUp \/ Done \/ RunAccepted
           \/ RunReceives \/ RunCloses
  <2>1. /\ Mode(client.flags) # "network" /\ exit = "running" /\ expired' = expired
        /\ \/ client' = client
           \/ \E p \in {"start", "select", "list", "calling", "close"} :
                 GoTo(p)
           \/ RunFails
    BY <1>6 DEF Fatal, Get, Tick, Connect, ListTools, RunGivesUp, Done, RunAccepted,
       RunReceives, RunCloses, ClientAt, Exit, Kept
  <2>2. client' \in Client /\ client'.flags = client.flags
    BY <2>1 DEF GoTo, RunFails, IsolationInv, Client
  <2>3. ProbeInv'
    BY <2>1, <2>2 DEF ProbeInv
  <2>4. exit' = "ok" => Mode(client.flags) # "fatal"
    BY <1>6, <2>1 DEF Fatal, Get, Tick, Connect, ListTools, RunGivesUp, Done, RunAccepted,
       RunReceives, RunCloses, ClientAt, Exit
  <2>5. IsolationIsEarned'
    BY <2>1, <2>2, <2>4, ModeOfNetwork DEF IsolationIsEarned
  <2>6. QED
    BY <2>1, <2>2, <2>3, <2>5 DEF IsolationInv
<1>7. QED
  BY <1>1, <1>2, <1>3, <1>4, <1>5, <1>6, OtherSteps DEF IsolationInv

\* Nothing has been dialled at the start.
LEMMA IsolationInitially == DemoInit => IsolationInv
BY DEF DemoInit, BenchmarkInit, ClientInit, IsolationInv, ProbeInv, TimedOut, Client,
   IsolationIsEarned

\* A probe that reports an address set as blocked has dialled every address and
\* has seen every dial run into its own timeout, however the deadline of the run
\* falls between a dial and its verdict.
THEOREM IsolationIsProved == DemoSpec => []IsolationIsEarned
<1>1. DemoInit => IsolationInv
  BY IsolationInitially
<1>2. IsolationInv /\ [DemoNext]_demoVars => IsolationInv'
  BY IsolationStep
<1>3. IsolationInv => IsolationIsEarned
  BY DEF IsolationInv
<1>4. QED
  BY <1>1, <1>2, <1>3, PTL DEF DemoSpec
-----------------------------------------------------------------------------
(* Types.                                                                  *)

Rounds == {"normalize", "setup", "warmup", "measured", "close", "aggregate", "next", "report"}

Config ==
    [endpoints : BOOLEAN, concurrency : Seq(Int), calls : Int, warmup : Int,
     repetitions : Int]

\* The results of aggregateMeasurement and benchmarkOverhead are left open.
Bench(b) ==
    b \in [pc : Rounds, phase : Nat, failed : BOOLEAN, successful : BOOLEAN,
           last : {b.last}, overhead : {b.overhead}]

Call == [phase : Nat, kind : Rounds \cup {"run"}, worker : Nat, call : Nat]

Errors == {"", "rejected", "transport", "deadline", "tool_error"}

\* A call's token, the status it may be answered with, and its categories.
Tokens == {NoToken} \cup ((Rounds \cup {"run"}) \X Nat \X Nat)

Answers == Statuses \cup {0, 200}

HttpCategories == {"http_401", "http_403", "http_429", "http_5xx", "http_other"}

Categories ==
    Errors \cup HttpCategories \cup {"stream_missing_progress", "stream_late_progress"}

Sample == [category : Categories, duration : CallTimes]

Worker ==
    [pc : {"ready", "calling", "returned", "done"}, session : BOOLEAN, call : Nat,
     token : Tokens, updates : Nat, status : Answers, error : Errors,
     samples : Seq(Sample), failed : BOOLEAN, own : Nat, answered : Answers]

\* The plan: not empty, and every phase has a tool and a number of workers.
Sound(c) ==
    /\ DOMAIN Plan(c) = 1..Len(Plan(c))
    /\ Len(Plan(c)) \in Nat \ {0}
    /\ \A i \in 1..Len(Plan(c)) :
          Plan(c)[i].tool \in Tools /\ Plan(c)[i].concurrency \in 1..Limit.workers

\* Where Benchmark is in its plan.
PhaseInv ==
    IF bench.pc = "normalize" THEN worker = NewWorkers(0)
    ELSE /\ Sound(config)
         /\ bench.phase \in 1..Len(Plan(config))
         /\ bench.pc = "next" => bench.phase < Len(Plan(config))

IsBag(b) == b = [x \in DOMAIN b |-> b[x]] /\ \A x \in DOMAIN b : b[x] \in Nat \ {0}

ClientTypeInv ==
    /\ client \in Client
    /\ exit \in {"running", "ok", "error", "ErrBenchmarkFailed"}
    /\ expired \in BOOLEAN
    /\ faults \in 0..MaxFaults

BenchTypeInv ==
    /\ config \in Config /\ Len(config.concurrency) > 0
    /\ Bench(bench)
    /\ \E n \in 0..Limit.workers : DOMAIN worker = 1..n
    /\ worker = [w \in DOMAIN worker |-> worker[w]]
    /\ \A w \in DOMAIN worker : worker[w] \in Worker
    /\ PhaseInv
    /\ tally \in [Tools -> [started : Nat, succeeded : Nat]]

BackendTypeInv ==
    /\ DOMAIN exec \subseteq Call
    /\ exec \in [DOMAIN exec -> Execution]
    /\ DOMAIN progress \subseteq Call
    /\ IsBag(progress)
    /\ IsBag(invocations)

TypeInv == ClientTypeInv /\ BenchTypeInv /\ BackendTypeInv

\* The types of the records give those of DemoTypeOK.
LEMMA TypeInvImplies == TypeInv => DemoTypeOK
BY DEF TypeInv, ClientTypeInv, BenchTypeInv, BackendTypeInv, DemoTypeOK, Client, Bench, Rounds,
   Worker, Answers, IsBag

\* An accepted configuration has a plan, of phases with 1..Limit.workers workers.
LEMMA AcceptedIsSound ==
    ASSUME NEW c \in Config, Len(c.concurrency) > 0, Accepts(c)
    PROVE  Sound(c)
<1> DEFINE n == Len(c.concurrency) * 4 * c.repetitions
<1>1. Accepted(c)
  BY DEF Config, Accepted
<1>2. n \in Nat /\ n > 0
  <2>1. PICK l \in Nat, r \in Nat : l = Len(c.concurrency) /\ r = c.repetitions /\ l > 0 /\ r > 0
    BY <1>1, AcceptedFields
  <2>2. l * r \in Nat /\ l * r > 0
    BY <2>1
  <2>3. l * 4 * r = 4 * (l * r)
    BY <2>1
  <2>4. QED
    BY <2>1, <2>2, <2>3
<1>3. DOMAIN Plan(c) = 1..n
  BY DEF Plan
<1>4. Plan(c) = [i \in 1..n |-> Plan(c)[i]]
  BY <1>3 DEF Plan
<1>5. Len(Plan(c)) = n
  BY <1>2, <1>4, LengthOf
<1>6. ASSUME NEW i \in 1..n
      PROVE  Plan(c)[i].tool \in Tools /\ Plan(c)[i].concurrency \in 1..Limit.workers
  <2>1. i \in DOMAIN Plan(c)
    BY <1>3
  <2>2. (Block(c, i) \div 2) + 1 \in DOMAIN c.concurrency
    BY <1>1, <2>1, PlaceInPlan
  <2>3. c.concurrency[(Block(c, i) \div 2) + 1] \in 1..Limit.workers
    BY <2>2 DEF Accepts
  <2>4. QED
    BY <2>1, <2>3, PlanAt DEF Tools
<1>7. QED
  BY <1>2, <1>3, <1>5, <1>6 DEF Sound

\* A worker exists only in a phase of the plan.
LEMMA WorkerHasPhase ==
    ASSUME BenchTypeInv, NEW w \in DOMAIN worker
    PROVE  /\ bench.pc # "normalize" /\ Sound(config)
           /\ bench.phase \in 1..Len(Plan(config))
           /\ Phase.tool \in Tools
           /\ CallOf(w) \in Call
           /\ worker[w] \in Worker
<1>1. bench.pc # "normalize"
  BY DEF BenchTypeInv, PhaseInv, NewWorkers
<1>2. w \in Nat /\ worker[w] \in Worker /\ Bench(bench)
  BY LimitAssumption DEF BenchTypeInv
<1>3. CallOf(w) \in Call
  BY <1>2 DEF CallOf, Call, Worker, Bench
<1>4. QED
  BY <1>1, <1>2, <1>3 DEF BenchTypeInv, PhaseInv, Sound, Phase

\* A step that replaces one worker keeps the benchmark well typed.
LEMMA OneWorker ==
    ASSUME BenchTypeInv, NEW w \in DOMAIN worker, NEW x \in Worker, Set(w, x),
           config' = config, bench' = bench,
           tally' \in [Tools -> [started : Nat, succeeded : Nat]]
    PROVE  /\ BenchTypeInv'
           /\ DOMAIN worker' = DOMAIN worker
           /\ worker'[w] = x
           /\ \A v \in DOMAIN worker \ {w} : worker'[v] = worker[v]
<1>1. /\ worker' = [worker EXCEPT ![w] = x]
      /\ DOMAIN worker' = DOMAIN worker /\ worker'[w] = x
      /\ \A v \in DOMAIN worker \ {w} : worker'[v] = worker[v]
      /\ worker' = [v \in DOMAIN worker' |-> worker'[v]]
  BY DEF Set
<1>2. \A v \in DOMAIN worker' : worker'[v] \in Worker
  BY <1>1 DEF BenchTypeInv
<1>3. PhaseInv'
  BY <1>1, WorkerHasPhase DEF BenchTypeInv, PhaseInv
<1>4. Bench(bench')
  BY DEF BenchTypeInv
<1>5. QED
  BY <1>1, <1>2, <1>3, <1>4 DEF BenchTypeInv

\* One more call of a tool is counted, or none.
LEMMA TallyType ==
    ASSUME BenchTypeInv, NEW t \in Tools
    PROVE  /\ [tally EXCEPT ![t].started = @ + 1]
                 \in [Tools -> [started : Nat, succeeded : Nat]]
           /\ [tally EXCEPT ![t].succeeded = @ + 1]
                 \in [Tools -> [started : Nat, succeeded : Nat]]
BY DEF BenchTypeInv

\* What the operations on executions leave is well typed.
LEMMA ExecTypes ==
    ASSUME BackendTypeInv, NEW c
    PROVE  /\ DOMAIN Without(c) = DOMAIN exec \ {c}
           /\ Without(c) \in [DOMAIN Without(c) -> Execution]
           /\ \A d \in DOMAIN exec \ {c} : Without(c)[d] = exec[d]
           /\ DOMAIN HungUp(c) \subseteq DOMAIN exec
           /\ HungUp(c) \in [DOMAIN HungUp(c) -> Execution]
           /\ \A d \in DOMAIN HungUp(c) :
                 IF d = c THEN HungUp(c)[d] = [exec[d] EXCEPT !.open = FALSE]
                               /\ exec[d].pc # "replied"
                 ELSE HungUp(c)[d] = exec[d]
           /\ \A d \in DOMAIN exec \ {c} : d \in DOMAIN HungUp(c)
           /\ c \in DOMAIN exec /\ exec[c].pc # "replied" => c \in DOMAIN HungUp(c)
<1>1. /\ DOMAIN Without(c) = DOMAIN exec \ {c}
      /\ Without(c) \in [DOMAIN Without(c) -> Execution]
      /\ \A d \in DOMAIN exec \ {c} : Without(c)[d] = exec[d]
  BY DEF Without, BackendTypeInv
<1>2. CASE c \notin DOMAIN exec
  BY <1>1, <1>2 DEF HungUp, BackendTypeInv
<1>3. CASE c \in DOMAIN exec /\ exec[c].pc = "replied"
  BY <1>1, <1>3 DEF HungUp
<1>4. CASE c \in DOMAIN exec /\ exec[c].pc # "replied"
  <2>1. PICK e : e = [exec[c] EXCEPT !.open = FALSE]
    OBVIOUS
  <2>2. e \in Execution
    BY <1>4, <2>1 DEF BackendTypeInv, Execution
  <2>3. HungUp(c) = [exec EXCEPT ![c] = e]
    BY <1>4, <2>1 DEF HungUp
  <2>4. QED
    BY <1>1, <1>4, <2>1, <2>2, <2>3 DEF BackendTypeInv
<1>5. QED
  BY <1>2, <1>3, <1>4

\* An execution begins.
LEMMA EnteredType ==
    ASSUME BackendTypeInv, NEW c \in Call, NEW t \in Tools, NEW known \in BOOLEAN
    PROVE  /\ DOMAIN Entered(c, t, known) = DOMAIN exec \cup {c}
           /\ Entered(c, t, known) \in [DOMAIN Entered(c, t, known) -> Execution]
           /\ \A d \in DOMAIN exec \ {c} : Entered(c, t, known)[d] = exec[d]
           /\ Entered(c, t, known)[c] =
                 [tool |-> t, known |-> known, pc |-> "run", step |-> 0, result |-> "none",
                  open |-> TRUE]
<1>1. PICK e : e = [tool |-> t, known |-> known, pc |-> "run", step |-> 0, result |-> "none",
                    open |-> TRUE]
  OBVIOUS
<1>2. e \in Execution
  BY <1>1 DEF Execution, Steps
<1>3. Entered(c, t, known) = [x \in DOMAIN exec \cup {c} |-> IF x # c THEN exec[x] ELSE e]
  BY <1>1 DEF Entered
<1>4. QED
  BY <1>1, <1>2, <1>3 DEF BackendTypeInv

\* A step that leaves the benchmark alone keeps it well typed.
LEMMA SameBench ==
    ASSUME BenchTypeInv, UNCHANGED <<config, bench, worker>>,
           tally' \in [Tools -> [started : Nat, succeeded : Nat]]
    PROVE  BenchTypeInv'
BY DEF BenchTypeInv, PhaseInv, Bench, Worker, NewWorkers, NewWorker

\* The ways a worker moves from x to y.
SameCall(x, y) ==
    y.call = x.call /\ y.token = x.token /\ y.updates = x.updates /\ y.own = x.own

SameStatus(x, y) == y.status = x.status /\ y.answered = x.answered

SameRecord(x, y) == y.samples = x.samples /\ (x.failed => y.failed)

EndsRound(x, y) ==
    /\ x.pc = "ready" /\ y.pc = "done" /\ y.error = x.error
    /\ SameCall(x, y) /\ SameStatus(x, y) /\ SameRecord(x, y)

StartsCall(w, x, y) ==
    /\ x.pc = "ready" /\ y.pc = "calling" /\ y.error = x.error /\ y.call = x.call
    /\ y.updates = 0 /\ y.own = 0 /\ y.status = 0 /\ y.answered = 0
    /\ y.token \in {NoToken, Token(CallOf(w))} /\ SameRecord(x, y)

IsAccepted(x, y) ==
    /\ x.pc = "calling" /\ y.pc = "calling" /\ y.error = x.error
    /\ SameCall(x, y) /\ y.status = 200 /\ y.answered = 200 /\ SameRecord(x, y)

Returns(x, y) ==
    /\ x.pc = "calling" /\ y.pc = "returned"
    /\ SameCall(x, y) /\ SameRecord(x, y)
    /\ SameStatus(x, y) \/ y.status = y.answered

FinishesCall(x, y) ==
    /\ x.pc = "returned" /\ y.pc = "ready" /\ y.error = ""
    /\ y.call = x.call + 1 /\ y.token = NoToken
    /\ y.updates = x.updates /\ y.own = x.own /\ SameStatus(x, y)

\* The token of a call.
LEMMA TokenType ==
    ASSUME NEW c \in Call
    PROVE  Token(c) \in Tokens /\ Token(c) # NoToken
BY DEF Token, Tokens, Call, NoToken

\* The verdict on a call is one of the categories, and no error is a success.
LEMMA CategoryType ==
    ASSUME NEW x \in Worker, NEW buffered \in BOOLEAN
    PROVE  /\ Category(x, buffered) \in Categories
           /\ x.error # "" => Category(x, buffered) # ""
<1>1. \A s : HttpCategory(s) \in HttpCategories
  BY DEF HttpCategory, HttpCategories
<1>2. x.error \in Errors
  BY DEF Worker
<1>3. /\ BenchmarkError(x.error, x.status) \in Categories
      /\ x.error # "" => BenchmarkError(x.error, x.status) # ""
  BY <1>1, <1>2 DEF BenchmarkError, Categories, Errors, HttpCategories
<1>4. QED
  BY <1>2, <1>3 DEF Category, Categories, Errors

\* A round without calls ends for a worker, or its calls are all made.
LEMMA SetupEffect ==
    ASSUME BenchTypeInv, NEW w \in DOMAIN worker, Setup(w) \/ StopCalls(w) \/ CloseSession(w)
    PROVE  \E y \in Worker : Set(w, y) /\ EndsRound(worker[w], y)
<1>1. worker[w] \in Worker
  BY WorkerHasPhase
<1>2. \E s, f \in BOOLEAN :
         /\ worker[w].pc = "ready" /\ (worker[w].failed => f)
         /\ Set(w, [worker[w] EXCEPT !.pc = "done", !.session = s, !.failed = f])
  <2>1. /\ [worker[w] EXCEPT !.pc = "done", !.session = TRUE] =
               [worker[w] EXCEPT !.pc = "done", !.session = TRUE, !.failed = worker[w].failed]
        /\ [worker[w] EXCEPT !.pc = "done"] =
               [worker[w] EXCEPT !.pc = "done", !.session = worker[w].session,
                                 !.failed = worker[w].failed]
        /\ [worker[w] EXCEPT !.pc = "done", !.failed = TRUE] =
               [worker[w] EXCEPT !.pc = "done", !.session = worker[w].session,
                                 !.failed = TRUE]
        /\ worker[w].session \in BOOLEAN /\ worker[w].failed \in BOOLEAN
    BY <1>1 DEF Worker
  <2>2. CASE Setup(w)
    BY <2>1, <2>2 DEF Setup
  <2>3. CASE StopCalls(w)
    BY <2>1, <2>3 DEF StopCalls
  <2>4. CASE CloseSession(w)
    BY <2>1, <2>4 DEF CloseSession
  <2>5. QED
    BY <2>2, <2>3, <2>4
<1>3. PICK s \in BOOLEAN, f \in BOOLEAN :
         /\ worker[w].pc = "ready" /\ (worker[w].failed => f)
         /\ Set(w, [worker[w] EXCEPT !.pc = "done", !.session = s, !.failed = f])
  BY <1>2
<1>4. PICK y : y = [worker[w] EXCEPT !.pc = "done", !.session = s, !.failed = f]
  OBVIOUS
<1>5. y \in Worker /\ EndsRound(worker[w], y)
  <2>1. y \in Worker
    BY <1>1, <1>4, ZenonT(90) DEF Worker
  <2>2. /\ y.pc = "done" /\ y.error = worker[w].error /\ y.call = worker[w].call
        /\ y.token = worker[w].token /\ y.updates = worker[w].updates
        /\ y.own = worker[w].own /\ y.status = worker[w].status
        /\ y.answered = worker[w].answered /\ y.samples = worker[w].samples /\ y.failed = f
    BY <1>1, <1>4 DEF Worker
  <2>3. QED
    BY <1>3, <2>1, <2>2 DEF EndsRound, SameCall, SameStatus, SameRecord
<1>6. QED
  BY <1>3, <1>4, <1>5

\* A call starts with a state of its own.
LEMMA StartEffect ==
    ASSUME BenchTypeInv, NEW w \in DOMAIN worker, StartCall(w)
    PROVE  \E y \in Worker : Set(w, y) /\ StartsCall(w, worker[w], y)
<1>1. worker[w] \in Worker
  BY WorkerHasPhase
<1>2. PICK t : t = IF Phase.tool = StreamTool THEN Token(CallOf(w)) ELSE NoToken
  OBVIOUS
<1>3. PICK y : y = [worker[w] EXCEPT !.pc = "calling", !.updates = 0, !.token = t,
                                     !.status = 0, !.own = 0, !.answered = 0]
  OBVIOUS
<1>4. y \in Worker /\ StartsCall(w, worker[w], y)
  <2>1. y \in Worker
    <3>1. t \in Tokens /\ 0 \in Answers /\ 0 \in Nat
      BY <1>2, WorkerHasPhase, TokenType DEF Tokens, Answers
    <3>2. QED
      BY <1>1, <1>3, <3>1, ZenonT(90) DEF Worker
  <2>2. /\ y.pc = "calling" /\ y.error = worker[w].error /\ y.call = worker[w].call
        /\ y.updates = 0 /\ y.own = 0 /\ y.status = 0 /\ y.answered = 0 /\ y.token = t
        /\ y.samples = worker[w].samples /\ y.failed = worker[w].failed
    BY <1>1, <1>3 DEF Worker
  <2>3. QED
    BY <1>2, <2>1, <2>2 DEF StartsCall, StartCall, SameRecord
<1>5. Set(w, y)
  BY <1>2, <1>3 DEF StartCall
<1>6. QED
  BY <1>4, <1>5

\* The POST is accepted; the worker stays inside CallTool.
LEMMA AcceptEffect ==
    ASSUME BenchTypeInv, NEW w \in DOMAIN worker, Accept(w)
    PROVE  \E y \in Worker : Set(w, y) /\ IsAccepted(worker[w], y)
<1>1. worker[w] \in Worker
  BY WorkerHasPhase
<1>2. PICK y : y = [worker[w] EXCEPT !.status = 200, !.answered = 200]
  OBVIOUS
<1>3. y \in Worker /\ IsAccepted(worker[w], y)
  <2>1. y \in Worker
    <3>1. PICK s \in Answers : s = 200
      BY DEF Answers
    <3>2. y = [worker[w] EXCEPT !.status = s, !.answered = s]
      BY <1>2, <3>1
    <3>3. QED
      BY <1>1, <3>2, ZenonT(90) DEF Worker
  <2>2. /\ y.pc = worker[w].pc /\ y.error = worker[w].error /\ y.call = worker[w].call
        /\ y.token = worker[w].token /\ y.updates = worker[w].updates
        /\ y.own = worker[w].own /\ y.status = 200 /\ y.answered = 200
        /\ y.samples = worker[w].samples /\ y.failed = worker[w].failed
    BY <1>1, <1>2 DEF Worker
  <2>3. QED
    BY <2>1, <2>2 DEF IsAccepted, SameCall, SameRecord, Accept, Posted
<1>4. QED
  BY <1>2, <1>3 DEF Accept

\* The POST is turned away: the worker is back with that status.
LEMMA RejectEffect ==
    ASSUME BenchTypeInv, NEW w \in DOMAIN worker, Reject(w)
    PROVE  \E y \in Worker : Set(w, y) /\ Returns(worker[w], y) /\ y.error # ""
<1>1. worker[w] \in Worker
  BY WorkerHasPhase
<1>2. PICK s \in Statuses :
         Set(w, [worker[w] EXCEPT !.pc = "returned", !.error = "rejected",
                                  !.status = s, !.answered = s])
  BY DEF Reject
<1>3. PICK y : y = [worker[w] EXCEPT !.pc = "returned", !.error = "rejected",
                                     !.status = s, !.answered = s]
  OBVIOUS
<1>4. y \in Worker
  <2>1. s \in Answers /\ "rejected" \in Errors
    BY DEF Answers, Errors
  <2>2. QED
    BY <1>1, <1>3, <2>1, ZenonT(90) DEF Worker
<1>5. Returns(worker[w], y) /\ y.error = "rejected"
  BY <1>1, <1>3 DEF Worker, Returns, SameCall, SameRecord, Reject, Posted
<1>6. QED
  BY <1>2, <1>3, <1>4, <1>5

\* The worker is back from CallTool with error e.
LEMMA ErrorEffect ==
    ASSUME BenchTypeInv, NEW w \in DOMAIN worker, worker[w].pc = "calling", NEW e \in Errors,
           Set(w, [worker[w] EXCEPT !.pc = "returned", !.error = e])
    PROVE  \E y \in Worker : Set(w, y) /\ Returns(worker[w], y) /\ y.error = e
<1>1. worker[w] \in Worker
  BY WorkerHasPhase
<1>2. PICK y : y = [worker[w] EXCEPT !.pc = "returned", !.error = e]
  OBVIOUS
<1>3. y \in Worker /\ Returns(worker[w], y) /\ y.error = e
  BY <1>1, <1>2 DEF Worker, Returns, SameCall, SameStatus, SameRecord
<1>4. QED
  BY <1>2, <1>3

\* A call that is turned away, breaks off or is given up returns an error.
LEMMA GiveUpEffect ==
    ASSUME BenchTypeInv, NEW w \in DOMAIN worker, GiveUp(w) \/ Reject(w) \/ Break(w)
    PROVE  \E y \in Worker : Set(w, y) /\ Returns(worker[w], y) /\ y.error # ""
<1>1. CASE GiveUp(w) \/ Break(w)
  <2>1. PICK e \in {"deadline", "transport"} :
           /\ Set(w, [worker[w] EXCEPT !.pc = "returned", !.error = e])
           /\ worker[w].pc = "calling"
    BY <1>1 DEF GiveUp, Break
  <2>2. e \in Errors /\ e # ""
    BY DEF Errors
  <2>3. QED
    BY <2>1, <2>2, ErrorEffect
<1>2. QED
  BY <1>1, RejectEffect

\* A reply returns no error only if it has content.
LEMMA ReceiveEffect ==
    ASSUME BenchTypeInv, NEW w \in DOMAIN worker, Receive(w)
    PROVE  \E y \in Worker : /\ Set(w, y) /\ Returns(worker[w], y)
                             /\ y.error = "" => exec[CallOf(w)].result = "content"
<1>1. PICK e : e = IF exec[CallOf(w)].result = "content" THEN "" ELSE "tool_error"
  OBVIOUS
<1>2. e \in Errors /\ (e = "" => exec[CallOf(w)].result = "content")
  BY <1>1 DEF Errors
<1>3. Set(w, [worker[w] EXCEPT !.pc = "returned", !.error = e]) /\ worker[w].pc = "calling"
  BY <1>1 DEF Receive
<1>4. QED
  BY <1>2, <1>3, ErrorEffect

\* However CallTool returns.
LEMMA ReturnEffect ==
    ASSUME BenchTypeInv, NEW w \in DOMAIN worker,
           GiveUp(w) \/ Reject(w) \/ Break(w) \/ Receive(w)
    PROVE  \E y \in Worker : Set(w, y) /\ Returns(worker[w], y)
BY GiveUpEffect, ReceiveEffect

\* The call is over, and its token no longer wanted.
LEMMA FinishEffect ==
    ASSUME BenchTypeInv, NEW w \in DOMAIN worker, FinishCall(w)
    PROVE  \E y \in Worker : Set(w, y) /\ FinishesCall(worker[w], y)
<1>1. worker[w] \in Worker
  BY WorkerHasPhase
<1>2. PICK f \in BOOLEAN, samples \in Seq(Sample) :
         /\ worker[w].pc = "returned"
         /\ Set(w, [worker[w] EXCEPT !.pc = "ready", !.call = @ + 1, !.token = NoToken,
                       !.error = "", !.failed = f, !.samples = samples])
  <2>1. worker[w].failed \in BOOLEAN
    BY <1>1 DEF Worker
  <2>2. PICK d \in CallTimes, buffered \in BOOLEAN :
           Set(w, [worker[w] EXCEPT
                    !.pc = "ready", !.call = @ + 1, !.token = NoToken, !.error = "",
                    !.failed = @ \/ (bench.pc = "warmup"
                                     /\ Category(worker[w], buffered) # ""),
                    !.samples = IF bench.pc = "warmup" THEN @
                                ELSE Append(@, [category |-> Category(worker[w], buffered),
                                                duration |-> d])])
    BY DEF FinishCall
  <2>3. PICK f : f = (worker[w].failed \/ (bench.pc = "warmup"
                                            /\ Category(worker[w], buffered) # ""))
    OBVIOUS
  <2>4. f \in BOOLEAN
    BY <2>1, <2>3
  <2>5. PICK samples : samples =
           IF bench.pc = "warmup" THEN worker[w].samples
           ELSE Append(worker[w].samples, [category |-> Category(worker[w], buffered),
                                           duration |-> d])
    OBVIOUS
  <2>6. Set(w, [worker[w] EXCEPT !.pc = "ready", !.call = @ + 1, !.token = NoToken,
                       !.error = "", !.failed = f, !.samples = samples])
    BY <2>2, <2>3, <2>5
  <2>7. samples \in Seq(Sample)
    <3>1. worker[w].samples \in Seq(Sample)
      BY <1>1 DEF Worker
    <3>2. [category |-> Category(worker[w], buffered), duration |-> d] \in Sample
      BY <1>1, CategoryType DEF Sample
    <3>3. QED
      BY <2>5, <3>1, <3>2
  <2>8. QED
    BY <2>4, <2>6, <2>7 DEF FinishCall
<1>3. PICK y : y = [worker[w] EXCEPT !.pc = "ready", !.call = @ + 1, !.token = NoToken,
                       !.error = "", !.failed = f, !.samples = samples]
  OBVIOUS
<1>4. y \in Worker /\ FinishesCall(worker[w], y)
  <2>1. y \in Worker
    <3>1. NoToken \in Tokens /\ "" \in Errors
      BY DEF Tokens, Errors
    <3>2. worker[w].call \in Nat
      BY <1>1 DEF Worker
    <3>3. worker[w].call + 1 \in Nat
      BY <3>2
    <3>4. QED
      BY <1>1, <1>2, <1>3, <3>1, <3>3, ZenonT(90) DEF Worker
  <2>2. /\ y.pc = "ready" /\ y.error = "" /\ y.call = worker[w].call + 1
        /\ y.token = NoToken /\ y.updates = worker[w].updates
        /\ y.own = worker[w].own /\ y.status = worker[w].status
        /\ y.answered = worker[w].answered
    BY <1>1, <1>3 DEF Worker
  <2>3. QED
    BY <1>2, <2>1, <2>2 DEF FinishesCall, SameStatus
<1>5. QED
  BY <1>2, <1>3, <1>4

\* The goroutines of the workers, and what answers them, keep the benchmark well
\* typed.
LEMMA WorkerTypeStep ==
    ASSUME BenchTypeInv, NEW w \in DOMAIN worker,
           WorkerStep(w) \/ Accept(w) \/ Reject(w) \/ Break(w) \/ Receive(w)
    PROVE  BenchTypeInv'
<1>1. \E y \in Worker : Set(w, y)
  BY SetupEffect, StartEffect, AcceptEffect, ReturnEffect, FinishEffect DEF WorkerStep
<1>2. config' = config /\ bench' = bench
  BY DEF WorkerStep, Setup, StartCall, StopCalls, GiveUp, FinishCall, CloseSession, Accept,
     Reject, Break, Receive
<1>3. tally' \in [Tools -> [started : Nat, succeeded : Nat]]
  <2>1. Phase.tool \in Tools
    BY WorkerHasPhase
  <2>2. CASE StartCall(w)
    BY <2>1, <2>2, TallyType DEF StartCall
  <2>3. CASE FinishCall(w)
    <3>1. \/ tally' = [tally EXCEPT ![Phase.tool].succeeded = @ + 1]
          \/ tally' = [tally EXCEPT ![Phase.tool].succeeded = @]
      BY <2>3 DEF FinishCall
    <3>2. [tally EXCEPT ![Phase.tool].succeeded = @] = tally
      BY <2>1 DEF BenchTypeInv
    <3>3. tally \in [Tools -> [started : Nat, succeeded : Nat]]
      BY DEF BenchTypeInv
    <3>4. [tally EXCEPT ![Phase.tool].succeeded = @ + 1]
             \in [Tools -> [started : Nat, succeeded : Nat]]
      BY <2>1, TallyType
    <3>5. QED
      BY <3>1, <3>2, <3>3, <3>4, ZenonT(90)
  <2>4. CASE ~StartCall(w) /\ ~FinishCall(w)
    <3>1. tally' = tally
      BY <2>4 DEF WorkerStep, Setup, StopCalls, GiveUp, CloseSession, Accept, Reject, Break,
         Receive
    <3>2. QED
      BY <3>1 DEF BenchTypeInv
  <2>5. QED
    BY <2>2, <2>3, <2>4
<1>4. QED
  BY <1>1, <1>2, <1>3, OneWorker

\* New workers for a phase of the plan.
LEMMA StartPhaseType ==
    ASSUME BenchTypeInv, Sound(config), NEW i \in 1..Len(Plan(config)), StartPhase(i),
           UNCHANGED <<config, tally>>
    PROVE  BenchTypeInv'
<1>1. PICK n : n = Plan(config)[i].concurrency
  OBVIOUS
<1>2. n \in 1..Limit.workers
  BY <1>1 DEF Sound
<1>3. NewWorker \in Worker
  <2>1. 0 \in Answers /\ NoToken \in Tokens /\ "" \in Errors /\ <<>> \in Seq(Sample)
        /\ 0 \in Nat
    BY DEF Answers, Tokens, Errors
  <2>2. QED
    BY <2>1 DEF NewWorker, Worker
<1>4. /\ DOMAIN worker' = 1..n /\ n \in 0..Limit.workers
      /\ worker' = [w \in DOMAIN worker' |-> worker'[w]]
      /\ \A w \in DOMAIN worker' : worker'[w] \in Worker
  BY <1>1, <1>2, <1>3, LimitAssumption, SMTT(30) DEF StartPhase, NewWorkers
<1>5. /\ Bench(bench') /\ bench'.pc = "setup" /\ bench'.phase = i
  <2>1. i \in Nat
    BY DEF Sound
  <2>2. PICK b : b = [bench EXCEPT !.pc = "setup", !.phase = i, !.failed = FALSE,
                                   !.last = NoMeasurement]
    OBVIOUS
  <2>3. b.pc = "setup" /\ b.phase = i
    BY <2>2 DEF BenchTypeInv, Bench
  <2>4. Bench(b)
    BY <2>1, <2>2, ZenonT(90) DEF BenchTypeInv, Bench, Rounds
  <2>5. bench' = b
    BY <2>2 DEF StartPhase
  <2>6. QED
    BY <2>3, <2>4, <2>5
<1>6. QED
  BY <1>4, <1>5 DEF BenchTypeInv, PhaseInv

\* The round that follows.
LEMMA AfterType ==
    ASSUME NEW round \in {"setup", "warmup", "measured", "close"}
    PROVE  After(round) \in {"close", "warmup", "measured", "aggregate"}
<1>1. PICK next : next = [setup |-> "warmup", warmup |-> "measured", measured |-> "close",
                          close |-> "aggregate"]
  OBVIOUS
<1>2. next.setup = "warmup" /\ next.warmup = "measured" /\ next.measured = "close"
      /\ next.close = "aggregate"
  BY <1>1
<1>3. next[round] \in {"close", "warmup", "measured", "aggregate"}
  BY <1>2
<1>4. After(round) = IF round = "setup" /\ \E w \in DOMAIN worker : worker[w].failed
                     THEN "close" ELSE next[round]
  BY <1>1 DEF After
<1>5. QED
  BY <1>3, <1>4

\* The main goroutine keeps the benchmark well typed and inside its plan.
LEMMA MainTypeStep ==
    ASSUME BenchTypeInv, MainStep
    PROVE  BenchTypeInv'
<1>1. CASE Begin
  <2>1. CASE Accepts(config)
    <3>1. Sound(config)
      BY <2>1, AcceptedIsSound DEF BenchTypeInv
    <3>2. 1 \in 1..Len(Plan(config)) /\ StartPhase(1) /\ UNCHANGED <<config, tally>>
      BY <1>1, <2>1, <3>1 DEF Begin, Sound
    <3>3. QED
      BY <3>1, <3>2, StartPhaseType
  <2>2. CASE ~Accepts(config)
    BY <1>1, <2>2, SameBench DEF Begin, BenchTypeInv
  <2>3. QED
    BY <2>1, <2>2
<1>2. CASE NextPhase
  <2>1. Sound(config) /\ bench.phase + 1 \in 1..Len(Plan(config))
    BY <1>2 DEF NextPhase, BenchTypeInv, PhaseInv, Sound
  <2>2. QED
    BY <1>2, <2>1, StartPhaseType DEF NextPhase
<1>3. CASE EndRound
  <2>1. PICK f : f = (bench.failed \/ \E w \in DOMAIN worker : worker[w].failed)
    OBVIOUS
  <2>2. f \in BOOLEAN
    BY <2>1 DEF BenchTypeInv, Bench
  <2>3. PICK p : p = After(bench.pc)
    OBVIOUS
  <2>4. p \in {"close", "warmup", "measured", "aggregate"}
    BY <1>3, <2>3, AfterType DEF EndRound
  <2>5. PICK b : b = [bench EXCEPT !.pc = p, !.failed = f]
    OBVIOUS
  <2>6. b.pc = p /\ b.phase = bench.phase /\ Bench(b)
    BY <2>2, <2>4, <2>5 DEF BenchTypeInv, Bench, Rounds
  <2>7. bench' = b
    BY <1>3, <2>1, <2>3, <2>5 DEF EndRound, BenchTypeInv, Bench
  <2>8. /\ DOMAIN worker' = DOMAIN worker
        /\ worker' = [w \in DOMAIN worker' |-> worker'[w]]
    BY <1>3 DEF EndRound
  <2>9. ASSUME NEW w \in DOMAIN worker'
        PROVE  worker'[w] \in Worker
    <3>1. PICK x : x = worker[w]
      OBVIOUS
    <3>2. x \in Worker
      BY <2>8, <3>1 DEF BenchTypeInv
    <3>3. PICK y : y = [x EXCEPT !.pc = "ready", !.call = 0, !.failed = FALSE]
      OBVIOUS
    <3>4. 0 \in Nat
      OBVIOUS
    <3>5. y \in Worker
      BY <3>2, <3>3, <3>4, ZenonT(90) DEF Worker
    <3>6. worker'[w] = y
      BY <1>3, <2>8, <3>1, <3>3 DEF EndRound
    <3>7. QED
      BY <3>5, <3>6
  <2>10. PhaseInv'
    BY <1>3, <2>4, <2>6, <2>7 DEF EndRound, BenchTypeInv, PhaseInv
  <2>11. QED
    BY <1>3, <2>6, <2>7, <2>8, <2>9, <2>10 DEF EndRound, BenchTypeInv
<1>4. CASE EndPhase
  <2>1. PICK m : m = Aggregate(Samples)
    OBVIOUS
  <2>2. PICK s : s = (bench.successful /\ PhaseSucceeded(m) /\ ~expired)
    OBVIOUS
  <2>3. s \in BOOLEAN
    BY <2>2
  <2>4. PICK p : p = IF expired \/ bench.phase = Len(Plan(config)) THEN "report" ELSE "next"
    OBVIOUS
  <2>5. PICK b : b = [bench EXCEPT !.last = m, !.successful = s, !.pc = p]
    OBVIOUS
  <2>6. bench' = b
    BY <1>4, <2>1, <2>2, <2>4, <2>5 DEF EndPhase, BenchTypeInv, Bench
  <2>7. b.pc = p /\ b.phase = bench.phase
    BY <2>5 DEF BenchTypeInv, Bench
  <2>8. Bench(b)
    <3>1. p \in Rounds
      BY <2>4 DEF Rounds
    <3>2. QED
      BY <2>3, <2>5, <3>1, ZenonT(90) DEF BenchTypeInv, Bench
  <2>9. PhaseInv'
    BY <1>4, <2>4, <2>6, <2>7 DEF EndPhase, BenchTypeInv, PhaseInv, Sound
  <2>10. QED
    BY <1>4, <2>6, <2>8, <2>9 DEF EndPhase, BenchTypeInv
<1>5. CASE Report
  <2>1. PICK o : o = IF bench.successful
                     THEN Overhead(SubSeq(Plan(config), 1, bench.phase)) ELSE {}
    OBVIOUS
  <2>2. PICK b : b = [bench EXCEPT !.overhead = o]
    OBVIOUS
  <2>3. bench' = b
    BY <1>5, <2>1, <2>2 DEF Report
  <2>4. b.pc = bench.pc /\ b.phase = bench.phase /\ Bench(b)
    BY <2>2 DEF BenchTypeInv, Bench
  <2>5. PhaseInv'
    BY <1>5, <2>3, <2>4 DEF Report, BenchTypeInv, PhaseInv
  <2>6. QED
    BY <1>5, <2>3, <2>4, <2>5 DEF Report, BenchTypeInv
<1>6. QED
  BY <1>1, <1>2, <1>3, <1>4, <1>5 DEF MainStep

\* One more copy in a bag.
LEMMA BagAdd ==
    ASSUME NEW b, IsBag(b), NEW x
    PROVE  /\ IsBag(b (+) SetToBag({x}))
           /\ DOMAIN (b (+) SetToBag({x})) = DOMAIN b \cup {x}
           /\ (b (+) SetToBag({x}))[x] = IF x \in DOMAIN b THEN b[x] + 1 ELSE 1
           /\ \A y \in DOMAIN b \ {x} : (b (+) SetToBag({x}))[y] = b[y]
<1>1. PICK r : r = b (+) SetToBag({x})
  OBVIOUS
<1>2. /\ DOMAIN r = DOMAIN b \cup {x}
      /\ r = [y \in DOMAIN r |-> r[y]]
  BY <1>1 DEF (+), SetToBag
<1>3. r[x] = IF x \in DOMAIN b THEN b[x] + 1 ELSE 1
  BY <1>1 DEF (+), SetToBag, IsBag
<1>4. \A y \in DOMAIN b \ {x} : r[y] = b[y]
  BY <1>1 DEF (+), SetToBag, IsBag
<1>5. \A y \in DOMAIN r : r[y] \in Nat \ {0}
  BY <1>2, <1>3, <1>4 DEF IsBag
<1>6. QED
  BY <1>1, <1>2, <1>3, <1>4, <1>5 DEF IsBag

\* One copy less.
LEMMA BagRemove ==
    ASSUME NEW b, IsBag(b), NEW x
    PROVE  /\ IsBag(b (-) SetToBag({x}))
           /\ DOMAIN (b (-) SetToBag({x})) \subseteq DOMAIN b
<1>1. PICK d : d = [e \in DOMAIN b |-> IF e \in DOMAIN SetToBag({x})
                                       THEN b[e] - SetToBag({x})[e] ELSE b[e]]
  OBVIOUS
<1>2. \A e \in DOMAIN b : d[e] \in Int
  BY <1>1 DEF SetToBag, IsBag
<1>3. b (-) SetToBag({x}) = [e \in {y \in DOMAIN d : d[y] > 0} |-> d[e]]
  BY <1>1 DEF (-)
<1>4. QED
  BY <1>1, <1>2, <1>3, SMTT(30) DEF IsBag

\* The server's steps keep its executions well typed.
LEMMA BackendStepType ==
    ASSUME BackendTypeInv, NEW c \in DOMAIN exec, BackendStep(c)
    PROVE  BackendTypeInv'
<1>1. c \in Call /\ exec[c] \in Execution /\ exec \in [DOMAIN exec -> Execution]
  BY DEF BackendTypeInv
<1>2. ASSUME NEW e \in Execution, exec' = [exec EXCEPT ![c] = e]
      PROVE  exec' \in [DOMAIN exec' -> Execution] /\ DOMAIN exec' = DOMAIN exec
  BY <1>1, <1>2
<1>3. ASSUME NEW r \in {"content", "error", "cancelled"}, HandlerReturns(c, r)
      PROVE  BackendTypeInv'
  <2>1. PICK e : e = [exec[c] EXCEPT !.pc = "returned", !.result = r]
    OBVIOUS
  <2>2. e \in Execution
    BY <1>1, <2>1 DEF Execution
  <2>3. exec' = [exec EXCEPT ![c] = e]
    BY <1>1, <1>3, <2>1 DEF HandlerReturns
  <2>4. QED
    BY <1>2, <1>3, <2>2, <2>3 DEF HandlerReturns, BackendTypeInv
<1>4. CASE NotifyProgress(c)
  <2>1. PICK e : e = [exec[c] EXCEPT !.step = @ + 1]
    OBVIOUS
  <2>2. e \in Execution
    BY <1>1, <1>4, <2>1 DEF Execution, NotifyProgress, Steps
  <2>3. exec' = [exec EXCEPT ![c] = e]
    BY <1>1, <1>4, <2>1 DEF NotifyProgress
  <2>4. IsBag(progress') /\ DOMAIN progress' \subseteq Call
    <3>1. IsBag(progress) /\ DOMAIN progress \subseteq Call
      BY DEF BackendTypeInv
    <3>2. /\ IsBag(progress (+) SetToBag({c}))
          /\ DOMAIN (progress (+) SetToBag({c})) = DOMAIN progress \cup {c}
      BY <3>1, BagAdd
    <3>3. progress' = progress (+) SetToBag({c}) \/ progress' = progress
      BY <1>4 DEF NotifyProgress
    <3>4. QED
      BY <1>1, <3>1, <3>2, <3>3
  <2>5. QED
    BY <1>2, <1>4, <2>2, <2>3, <2>4 DEF NotifyProgress, BackendTypeInv
<1>5. CASE Observe(c)
  <2>1. IsBag(invocations')
    <3>1. PICK o : invocations' = invocations (+) SetToBag({<<exec[c].tool, o>>})
      BY <1>5 DEF Observe
    <3>2. IsBag(invocations)
      BY DEF BackendTypeInv
    <3>3. IsBag(invocations (+) SetToBag({<<exec[c].tool, o>>}))
      BY <3>2, BagAdd
    <3>4. QED
      BY <3>1, <3>3
  <2>2. CASE exec[c].open
    <3>1. PICK e : e = [exec[c] EXCEPT !.pc = "replied"]
      OBVIOUS
    <3>2. e \in Execution
      BY <1>1, <3>1 DEF Execution
    <3>3. exec' = [exec EXCEPT ![c] = e]
      BY <1>1, <1>5, <2>2, <3>1 DEF Observe
    <3>4. QED
      BY <1>2, <1>5, <2>1, <3>2, <3>3 DEF Observe, BackendTypeInv
  <2>3. CASE ~exec[c].open
    BY <1>5, <2>1, <2>3, ExecTypes, ZenonT(30) DEF Observe, BackendTypeInv
  <2>4. QED
    BY <2>2, <2>3
<1>6. QED
  BY <1>3, <1>4, <1>5 DEF BackendStep, ReadRunbook, StreamEnds, StreamStops

\* Every step of the program keeps the server's variables well typed.
LEMMA BackendTypeStep ==
    ASSUME TypeInv, DemoNext
    PROVE  BackendTypeInv'
<1>1. BackendTypeInv /\ BenchTypeInv
  BY DEF TypeInv
<1>2. RunCall \in Call /\ ReadTool \in Tools
  BY DEF RunCall, Call, Tools
<1>3. CASE UNCHANGED backendVars
  BY <1>1, <1>3 DEF backendVars, BackendTypeInv, IsBag
<1>4. ASSUME NEW c \in Call, NEW t \in Tools, NEW known \in BOOLEAN,
             exec' = Entered(c, t, known), UNCHANGED <<progress, invocations>>
      PROVE  BackendTypeInv'
  <2>1. DOMAIN exec' = DOMAIN exec \cup {c} /\ exec' \in [DOMAIN exec' -> Execution]
    BY <1>1, <1>4, EnteredType
  <2>2. QED
    BY <1>1, <1>4, <2>1 DEF BackendTypeInv, IsBag
<1>5. ASSUME NEW c \in Call, exec' = Without(c) \/ exec' = HungUp(c),
             UNCHANGED <<progress, invocations>>
      PROVE  BackendTypeInv'
  <2>1. DOMAIN exec' \subseteq DOMAIN exec /\ exec' \in [DOMAIN exec' -> Execution]
    <3>1. CASE exec' = Without(c)
      BY <1>1, <3>1, ExecTypes
    <3>2. CASE exec' = HungUp(c)
      BY <1>1, <3>2, ExecTypes
    <3>3. QED
      BY <1>5, <3>1, <3>2
  <2>2. QED
    BY <1>1, <1>5, <2>1 DEF BackendTypeInv, IsBag
<1>6. CASE ClientStep \/ Done \/ RunAccepted \/ RunReceives \/ RunCloses
  BY <1>2, <1>3, <1>4, <1>5, <1>6 DEF ClientStep, Fatal, Resolve, Dial, Judge, Get, Tick,
     Connect, ListTools, RunGivesUp, Done, RunAccepted, RunReceives, RunCloses, backendVars
<1>7. ASSUME NEW w \in DOMAIN worker, WorkerStep(w) \/ Accept(w) \/ Reject(w) \/ Break(w)
             \/ Receive(w)
      PROVE  BackendTypeInv'
  <2>1. CallOf(w) \in Call /\ Phase.tool \in Tools
    BY <1>1, <1>7, WorkerHasPhase
  <2>2. CASE Accept(w)
    BY <1>4, <2>1, <2>2 DEF Accept
  <2>3. CASE GiveUp(w) \/ Break(w)
    BY <1>5, <2>1, <2>3 DEF GiveUp, Break
  <2>4. CASE Receive(w)
    BY <1>5, <2>1, <2>4 DEF Receive
  <2>5. QED
    BY <1>3, <1>7, <2>2, <2>3, <2>4 DEF WorkerStep, Setup, StartCall, StopCalls, FinishCall,
       CloseSession, Reject
<1>8. CASE MainStep
  <2>1. CASE EndRound \/ EndPhase \/ Report
    BY <1>3, <2>1 DEF EndRound, EndPhase, Report
  <2>2. CASE Begin \/ NextPhase
    <3>1. /\ progress' = EmptyBag \/ progress' = progress
          /\ exec' = exec /\ invocations' = invocations
      BY <2>2 DEF Begin, NextPhase, StartPhase
    <3>2. IsBag(EmptyBag) /\ DOMAIN EmptyBag = {}
      BY DEF EmptyBag, SetToBag, IsBag
    <3>3. QED
      BY <1>1, <3>1, <3>2 DEF BackendTypeInv, IsBag
  <2>3. QED
    BY <1>8, <2>1, <2>2 DEF MainStep
<1>9. ASSUME NEW c \in DOMAIN progress, Progress(c)
      PROVE  BackendTypeInv'
  <2>1. IsBag(progress') /\ DOMAIN progress' \subseteq DOMAIN progress
    BY <1>1, <1>9, BagRemove DEF Progress, BackendTypeInv
  <2>2. QED
    BY <1>1, <1>9, <2>1 DEF Progress, BackendTypeInv, IsBag
<1>10. CASE Expire
  BY <1>3, <1>10 DEF Expire
<1>11. QED
  BY <1>1, <1>6, <1>7, <1>8, <1>9, <1>10, BackendStepType DEF DemoNext, Outside

\* A callback is counted by the worker x, which becomes y; own: it is of the call
\* under way.
Counts(x, y, own) ==
    /\ y.pc = x.pc /\ y.call = x.call /\ y.token = x.token /\ y.error = x.error
    /\ SameStatus(x, y) /\ SameRecord(x, y)
    /\ y.updates = x.updates + 1
    /\ y.own = IF own THEN x.own + 1 ELSE x.own

\* A callback is counted if its token is the one wanted, and dropped if not.
LEMMA ProgressEffect ==
    ASSUME BenchTypeInv, NEW c, Progress(c)
    PROVE  \/ worker' = worker
           \/ /\ c.worker \in DOMAIN worker
              /\ worker[c.worker].token = Token(c)
              /\ \E y \in Worker : /\ Set(c.worker, y)
                                   /\ Counts(worker[c.worker], y, c = CallOf(c.worker))
<1>1. CASE worker[c.worker].token # Token(c)
  BY <1>1 DEF Progress
<1>2. CASE worker[c.worker].token = Token(c) /\ c.worker \notin DOMAIN worker
  BY <1>2 DEF Progress, Set, BenchTypeInv
<1>3. CASE worker[c.worker].token = Token(c) /\ c.worker \in DOMAIN worker
  <2>1. PICK x : x = worker[c.worker]
    OBVIOUS
  <2>2. x \in Worker
    BY <1>3, <2>1 DEF BenchTypeInv
  <2>3. x.updates \in Nat /\ x.own \in Nat
    BY <2>2 DEF Worker
  <2>4. PICK o : o = IF c = CallOf(c.worker) THEN x.own + 1 ELSE x.own
    OBVIOUS
  <2>5. o \in Nat /\ x.updates + 1 \in Nat
    BY <2>3, <2>4
  <2>6. PICK u : u = x.updates + 1
    OBVIOUS
  <2>7. PICK y : y = [x EXCEPT !.updates = u, !.own = o]
    OBVIOUS
  <2>8. y \in Worker
    BY <2>2, <2>5, <2>6, <2>7, ZenonT(90) DEF Worker
  <2>9. /\ y.pc = x.pc /\ y.call = x.call /\ y.token = x.token /\ y.error = x.error
        /\ y.status = x.status /\ y.answered = x.answered
        /\ y.updates = u /\ y.own = o /\ y.samples = x.samples /\ y.failed = x.failed
    BY <2>2, <2>7 DEF Worker
  <2>10. Counts(x, y, c = CallOf(c.worker))
    BY <2>4, <2>6, <2>9 DEF Counts, SameStatus, SameRecord
  <2>11. Set(c.worker, y)
    BY <1>3, <2>1, <2>2, <2>4, <2>6, <2>7 DEF Progress, Worker
  <2>12. QED
    BY <1>3, <2>1, <2>8, <2>10, <2>11
<1>4. QED
  BY <1>1, <1>2, <1>3

\* Every step of the program keeps the benchmark well typed.
LEMMA BenchTypeStep ==
    ASSUME TypeInv, DemoNext
    PROVE  BenchTypeInv'
<1>1. BenchTypeInv /\ tally \in [Tools -> [started : Nat, succeeded : Nat]]
  BY DEF TypeInv, BenchTypeInv
<1>2. CASE UNCHANGED benchmarkVars
  BY <1>1, <1>2, SameBench DEF benchmarkVars
<1>3. CASE ClientStep \/ Done \/ RunAccepted \/ RunReceives \/ RunCloses
  <2>1. UNCHANGED <<config, bench, worker>>
    BY <1>3 DEF ClientStep, Fatal, Resolve, Dial, Judge, Get, Tick, Connect, ListTools,
       RunGivesUp, Done, RunAccepted, RunReceives, RunCloses, Kept
  <2>2. \/ tally' = tally
        \/ tally' = [tally EXCEPT ![ReadTool].started = @ + 1]
        \/ tally' = [tally EXCEPT ![ReadTool].succeeded = @ + 1]
    BY <1>3 DEF ClientStep, Fatal, Resolve, Dial, Judge, Get, Tick, Connect, ListTools,
       RunGivesUp, Done, RunAccepted, RunReceives, RunCloses
  <2>3. ReadTool \in Tools
    BY DEF Tools
  <2>4. tally' \in [Tools -> [started : Nat, succeeded : Nat]]
    BY <1>1, <2>2, <2>3, TallyType
  <2>5. QED
    BY <1>1, <2>1, <2>4, SameBench
<1>4. ASSUME NEW c, Progress(c)
      PROVE  BenchTypeInv'
  <2>1. config' = config /\ bench' = bench /\ tally' = tally
    BY <1>4 DEF Progress
  <2>2. CASE worker' = worker
    BY <1>1, <2>1, <2>2, SameBench
  <2>3. CASE c.worker \in DOMAIN worker /\ \E y \in Worker : Set(c.worker, y)
    BY <1>1, <2>1, <2>3, OneWorker
  <2>4. QED
    BY <1>1, <1>4, <2>2, <2>3, ProgressEffect
<1>5. CASE Expire
  BY <1>1, <1>5, SameBench DEF Expire
<1>6. QED
  BY <1>1, <1>2, <1>3, <1>4, <1>5, WorkerTypeStep, MainTypeStep DEF DemoNext, Outside

\* Every step of the program keeps the client's own variables well typed.
LEMMA ClientTypeStep ==
    ASSUME TypeInv, IsolationInv', DemoNext
    PROVE  ClientTypeInv'
<1>1. ClientTypeInv
  BY DEF TypeInv
<1>2. exit' \in {"running", "ok", "error", "ErrBenchmarkFailed"}
  <2>1. CASE ClientStep \/ Done \/ RunAccepted \/ RunReceives \/ RunCloses
    BY <1>1, <2>1 DEF ClientStep, Fatal, Resolve, Dial, Judge, Get, Tick, Connect,
       ListTools, RunGivesUp, Done, RunAccepted, RunReceives, RunCloses, ClientTypeInv, Exit
  <2>2. CASE MainStep
    BY <1>1, <2>2 DEF MainStep, Begin, EndRound, EndPhase, NextPhase, Report, ClientTypeInv
  <2>3. CASE Expire \/ Outside \/ \E w \in DOMAIN worker : WorkerStep(w)
    BY <1>1, <2>3, ZenonT(30) DEF Expire, Outside, WorkerStep, Setup, StartCall, StopCalls, GiveUp,
       FinishCall, CloseSession, Accept, Reject, Break, Receive, Progress, benchmarkVars,
       ClientTypeInv
  <2>4. QED
    BY <2>1, <2>2, <2>3 DEF DemoNext
<1>3. faults' \in 0..MaxFaults
  <2>1. faults' = faults \/ Fault
    <3>1. CASE ClientStep \/ Done \/ RunAccepted \/ RunReceives \/ RunCloses
      BY <3>1 DEF ClientStep, Fatal, Resolve, Dial, Judge, Get, Tick, Connect,
         ListTools, RunGivesUp, Done, RunAccepted, RunReceives, RunCloses, ExchangeFails
    <3>2. CASE MainStep \/ Expire
      BY <3>2 DEF MainStep, Begin, EndRound, EndPhase, NextPhase, Report, Expire
    <3>3. CASE Outside \/ \E w \in DOMAIN worker : WorkerStep(w)
      BY <3>3 DEF Outside, WorkerStep, Setup, StartCall, StopCalls, GiveUp, FinishCall,
         CloseSession, Accept, Reject, Break, Receive, Progress, benchmarkVars, ExchangeFails
    <3>4. QED
      BY <3>1, <3>2, <3>3 DEF DemoNext
  <2>2. QED
    BY <1>1, <2>1, BenchmarkAssumption DEF ClientTypeInv, Fault
<1>4. QED
  BY <1>2, <1>3 DEF ClientTypeInv, IsolationInv

\* The program starts well typed.
LEMMA TypeInitially == ASSUME DemoInit PROVE TypeInv
<1>1. ClientTypeInv
  BY BenchmarkAssumption DEF DemoInit, BenchmarkInit, ClientInit, ClientTypeInv, Client
<1>2. config \in Config /\ Len(config.concurrency) > 0
  <2>1. PICK c \in Configs : config = Normalize(c)
    BY DEF DemoInit, BenchmarkInit
  <2>2. c \in Config
    BY <2>1, BenchmarkAssumption DEF Config
  <2>3. PICK l : l = OrDefault(c.concurrency, <<>>, Default.concurrency)
    OBVIOUS
  <2>4. l \in Seq(Int) \ {<<>>}
    BY <2>2, <2>3, LimitAssumption DEF Config, OrDefault
  <2>5. /\ OrDefault(c.calls, 0, Default.calls) \in Int
        /\ OrDefault(c.warmup, 0, Default.warmup) \in Int
        /\ OrDefault(c.repetitions, 0, Default.repetitions) \in Int
    BY <2>2, LimitAssumption DEF Config, OrDefault
  <2>6. c.endpoints \in BOOLEAN
    BY <2>2 DEF Config
  <2>7. Normalize(c) \in Config /\ Normalize(c).concurrency = l
    BY <2>3, <2>4, <2>5, <2>6 DEF Normalize, Config
  <2>8. Len(l) > 0
    BY <2>4
  <2>9. QED
    BY <2>1, <2>7, <2>8
<1>3. Bench(bench) /\ bench.pc = "normalize"
  BY DEF DemoInit, BenchmarkInit, Bench, Rounds
<1>4. /\ worker = NewWorkers(0) /\ DOMAIN worker = 1..0
      /\ worker = [w \in DOMAIN worker |-> worker[w]]
      /\ \A w \in DOMAIN worker : worker[w] \in Worker
  BY DEF DemoInit, BenchmarkInit, NewWorkers
<1>5. 0 \in 0..Limit.workers
  BY LimitAssumption
<1>6. tally \in [Tools -> [started : Nat, succeeded : Nat]]
  BY DEF DemoInit, BenchmarkInit
<1>7. BenchTypeInv
  BY <1>2, <1>3, <1>4, <1>5, <1>6 DEF BenchTypeInv, PhaseInv
<1>8. BackendTypeInv
  BY DEF DemoInit, BenchmarkInit, BackendInit, BackendTypeInv, IsBag, EmptyBag, SetToBag
<1>9. QED
  BY <1>1, <1>7, <1>8 DEF TypeInv

\* Every step keeps all variables well typed.
LEMMA TypeStep ==
    ASSUME TypeInv, IsolationInv, [DemoNext]_demoVars
    PROVE  TypeInv'
<1>1. CASE UNCHANGED demoVars
  <2>1. BenchTypeInv'
    BY <1>1, SameBench DEF demoVars, benchmarkVars, TypeInv, BenchTypeInv
  <2>2. ClientTypeInv' /\ BackendTypeInv'
    BY <1>1 DEF demoVars, benchmarkVars, backendVars, TypeInv, ClientTypeInv,
       BackendTypeInv, IsBag
  <2>3. QED
    BY <2>1, <2>2 DEF TypeInv
<1>2. CASE DemoNext
  BY <1>2, IsolationStep, ClientTypeStep, BenchTypeStep, BackendTypeStep DEF TypeInv
<1>3. QED
  BY <1>1, <1>2

\* The demo client's variables keep their types, for every configuration, every
\* number of workers and every plan of phases.
THEOREM DemoTypeCorrect == DemoSpec => []DemoTypeOK
<1>1. DemoInit => TypeInv /\ IsolationInv
  BY TypeInitially, IsolationInitially
<1>2. TypeInv /\ IsolationInv /\ [DemoNext]_demoVars => TypeInv' /\ IsolationInv'
  BY TypeStep, IsolationStep
<1>3. QED
  BY <1>1, <1>2, TypeInvImplies, PTL DEF DemoSpec
-----------------------------------------------------------------------------
(* Whose progress, whose status: the calls under way.                      *)

Calling == {"calling", "returned"}

\* The state of a worker is about the call it is making: callbacks counted are
\* its own, the status is the answer to its POST, and the token that callbacks
\* are compared with is the one of this very call, or none.
OwnWorker(w) ==
    LET x == worker[w]
    IN  /\ x.updates = x.own
        /\ x.status = x.answered
        /\ x.pc \in Calling => bench.pc \in {"warmup", "measured"}
        /\ x.token # NoToken => x.pc \in Calling /\ x.token = Token(CallOf(w))

OwnInv == \A w \in DOMAIN worker : OwnWorker(w)

\* Someone waits for the reply to c.
Awaited(c) ==
    \/ /\ c = RunCall /\ exec[c].tool = ReadTool
       /\ Mode(client.flags) = "run" /\ client.pc = "calling"
    \/ /\ c.worker \in DOMAIN worker /\ c = CallOf(c.worker)
       /\ worker[c.worker].pc = "calling" /\ exec[c].tool = Phase.tool

\* An execution whose caller has not hung up is awaited by that caller, so it
\* belongs to the current call of a current worker or to Run.
AwaitedInv ==
    \A c \in DOMAIN exec :
        /\ exec[c].pc = "replied" => exec[c].open
        /\ exec[c].open => Awaited(c)

\* Notifications on their way belong to a session of the current phase.
FlightInv ==
    \A c \in DOMAIN progress : c.phase = bench.phase /\ c.worker \in DOMAIN worker

\* The execution of Run's call.
RunInv ==
    RunCall \in DOMAIN exec =>
        /\ Mode(client.flags) = "run" /\ client.pc \in {"calling", "close"}
        /\ exec[RunCall].tool = ReadTool
        /\ client.pc = "calling" => exec[RunCall].open

CallInv == OwnInv /\ AwaitedInv /\ FlightInv /\ RunInv

\* An own status gives an own category.
LEMMA OwnImplies ==
    ASSUME BenchTypeInv, OwnInv
    PROVE  ProgressIsOwn /\ StatusIsOwn
<1>1. ProgressIsOwn
  BY DEF OwnInv, OwnWorker, ProgressIsOwn
<1>2. ASSUME NEW w \in DOMAIN worker, worker[w].error \notin {"", "tool_error"},
             NEW s, BenchmarkError(worker[w].error, worker[w].status) = HttpCategory(s)
      PROVE  BenchmarkError(worker[w].error, worker[w].status) =
                HttpCategory(worker[w].answered)
  <2>1. worker[w].error \in Errors /\ worker[w].status = worker[w].answered
    BY <1>2 DEF BenchTypeInv, OwnInv, OwnWorker, Worker
  <2>2. HttpCategory(s) \in HttpCategories
    BY DEF HttpCategory, HttpCategories
  <2>3. QED
    BY <1>2, <2>1, <2>2 DEF BenchmarkError, Errors, HttpCategories
<1>3. QED
  BY <1>1, <1>2 DEF StatusIsOwn

\* A move of one worker keeps every worker's state its own.
LEMMA OwnMove ==
    ASSUME BenchTypeInv, OwnInv, NEW w \in DOMAIN worker, NEW y \in Worker, Set(w, y),
           bench' = bench,
           \/ EndsRound(worker[w], y)
           \/ StartsCall(w, worker[w], y) /\ bench.pc \in {"warmup", "measured"}
           \/ IsAccepted(worker[w], y)
           \/ Returns(worker[w], y)
           \/ FinishesCall(worker[w], y)
           \/ Counts(worker[w], y, TRUE)
    PROVE  OwnInv'
<1>1. /\ DOMAIN worker' = DOMAIN worker /\ worker'[w] = y
      /\ \A v \in DOMAIN worker \ {w} : worker'[v] = worker[v]
  BY DEF Set
<1>2. ASSUME NEW v \in DOMAIN worker \ {w}
      PROVE  OwnWorker(v)'
  BY <1>1 DEF OwnInv, OwnWorker, CallOf, Token
<1>3. OwnWorker(w)'
  <2>1. PICK x : x = worker[w]
    OBVIOUS
  <2>2. x \in Worker
    BY <2>1 DEF BenchTypeInv
  <2>3. x.updates \in Nat /\ x.own \in Nat
    BY <2>2 DEF Worker
  <2>4. /\ x.updates = x.own /\ x.status = x.answered
        /\ x.pc \in Calling => bench.pc \in {"warmup", "measured"}
        /\ x.token # NoToken => x.pc \in Calling /\ x.token = Token(CallOf(w))
    BY <2>1 DEF OwnInv, OwnWorker
  <2>5. y.updates = y.own /\ y.status = y.answered
    BY <2>1, <2>3, <2>4 DEF EndsRound, StartsCall, IsAccepted, Returns, FinishesCall, Counts,
       SameCall, SameStatus
  <2>6. y.pc \in Calling => bench.pc \in {"warmup", "measured"}
    BY <2>1, <2>4 DEF EndsRound, StartsCall, IsAccepted, Returns, FinishesCall, Counts, Calling
  <2>7. y.token # NoToken => y.pc \in Calling /\ y.call = x.call
                             /\ y.token = Token(CallOf(w))
    BY <2>1, <2>4 DEF EndsRound, StartsCall, IsAccepted, Returns, FinishesCall, Counts,
       SameCall, Calling
  <2>8. y.call = x.call => CallOf(w)' = CallOf(w)
    BY <1>1, <2>1 DEF CallOf
  <2>9. y.call = x.call => Token(CallOf(w))' = Token(CallOf(w))
    BY <2>8 DEF Token
  <2>10. QED
    BY <1>1, <2>5, <2>6, <2>7, <2>9 DEF OwnWorker
<1>4. QED
  BY <1>1, <1>2, <1>3 DEF OwnInv

\* A callback that a worker counts is one of the call it is making.
LEMMA CallbackIsOwn ==
    ASSUME TypeInv, CallInv, NEW c \in DOMAIN progress,
           worker[c.worker].token = Token(c)
    PROVE  c = CallOf(c.worker)
<1>1. /\ c \in Call /\ c.phase = bench.phase /\ c.worker \in DOMAIN worker
  BY DEF TypeInv, BackendTypeInv, CallInv, FlightInv
<1>2. Token(c) # NoToken
  BY <1>1, TokenType
<1>3. Token(c) = Token(CallOf(c.worker))
  BY <1>1, <1>2 DEF CallInv, OwnInv, OwnWorker
<1>4. c.kind = bench.pc /\ c.call = worker[c.worker].call
  BY <1>3 DEF Token, CallOf
<1>5. c = [phase |-> c.phase, kind |-> c.kind, worker |-> c.worker, call |-> c.call]
  BY <1>1 DEF Call
<1>6. QED
  BY <1>1, <1>4, <1>5 DEF CallOf

\* What the steps that are not the benchmark's leave alone.
LEMMA BenchIsKept ==
    ASSUME ClientStep \/ Done \/ RunAccepted \/ RunReceives \/ RunCloses \/ Expire
           \/ \E c \in DOMAIN exec : BackendStep(c) /\ UNCHANGED benchmarkVars
    PROVE  UNCHANGED <<config, bench, worker>>
BY DEF ClientStep, Fatal, Resolve, Dial, Judge, Get, Tick, Connect, ListTools, RunGivesUp, Done,
   RunAccepted, RunReceives, RunCloses, Kept, Expire, benchmarkVars

\* A new worker is idle.
LEMMA NewWorkerFields ==
    /\ NewWorker.pc = "ready" /\ NewWorker.token = NoToken /\ NewWorker.error = ""
    /\ NewWorker.updates = NewWorker.own /\ NewWorker.status = NewWorker.answered
BY DEF NewWorker

\* Between rounds no worker is making a call.
LEMMA NobodyCalls ==
    ASSUME OwnInv, NEW w \in DOMAIN worker, bench.pc \notin {"warmup", "measured"}
    PROVE  worker[w].pc \notin Calling /\ worker[w].token = NoToken
BY DEF OwnInv, OwnWorker

\* Every step keeps the workers' states their own.
LEMMA OwnStep ==
    ASSUME TypeInv, CallInv, DemoNext
    PROVE  OwnInv'
<1>1. BenchTypeInv /\ OwnInv
  BY DEF TypeInv, CallInv
<1>2. CASE UNCHANGED <<bench, worker>>
  BY <1>1, <1>2 DEF OwnInv, OwnWorker, CallOf, Token
<1>3. ASSUME NEW w \in DOMAIN worker, WorkerStep(w) \/ Accept(w) \/ Reject(w) \/ Break(w)
             \/ Receive(w)
      PROVE  OwnInv'
  <2>1. bench' = bench
    BY <1>3 DEF WorkerStep, Setup, StartCall, StopCalls, GiveUp, FinishCall, CloseSession,
       Accept, Reject, Break, Receive
  <2>2. CASE Setup(w) \/ StopCalls(w) \/ CloseSession(w)
    BY <1>1, <2>1, <2>2, SetupEffect, OwnMove
  <2>3. CASE StartCall(w)
    <3>1. bench.pc \in {"warmup", "measured"}
      BY <2>3 DEF StartCall
    <3>2. QED
      BY <1>1, <2>1, <2>3, <3>1, StartEffect, OwnMove
  <2>4. CASE Accept(w)
    BY <1>1, <2>1, <2>4, AcceptEffect, OwnMove
  <2>5. CASE GiveUp(w) \/ Reject(w) \/ Break(w) \/ Receive(w)
    BY <1>1, <2>1, <2>5, ReturnEffect, OwnMove
  <2>6. CASE FinishCall(w)
    BY <1>1, <2>1, <2>6, FinishEffect, OwnMove
  <2>7. QED
    BY <1>3, <2>2, <2>3, <2>4, <2>5, <2>6 DEF WorkerStep
<1>4. ASSUME NEW c \in DOMAIN progress, Progress(c)
      PROVE  OwnInv'
  <2>1. bench' = bench
    BY <1>4 DEF Progress
  <2>2. CASE worker' = worker
    BY <1>2, <2>1, <2>2
  <2>3. CASE /\ c.worker \in DOMAIN worker
             /\ worker[c.worker].token = Token(c)
             /\ \E y \in Worker : /\ Set(c.worker, y)
                                  /\ Counts(worker[c.worker], y, c = CallOf(c.worker))
    <3>1. c = CallOf(c.worker)
      BY <2>3, CallbackIsOwn
    <3>2. PICK y \in Worker : Set(c.worker, y)
                              /\ Counts(worker[c.worker], y, c = CallOf(c.worker))
      BY <2>3
    <3>3. Counts(worker[c.worker], y, TRUE)
      BY <3>1, <3>2 DEF Counts
    <3>4. QED
      BY <1>1, <2>1, <2>3, <3>2, <3>3, OwnMove
  <2>4. QED
    BY <1>1, <1>4, <2>2, <2>3, ProgressEffect
<1>5. CASE MainStep
  <2>1. CASE EndRound
    <3>1. DOMAIN worker' = DOMAIN worker
      BY <2>1 DEF EndRound
    <3>2. ASSUME NEW w \in DOMAIN worker
          PROVE  OwnWorker(w)'
      <4>1. worker[w] \in Worker /\ worker[w].pc = "done"
        BY <1>1, <2>1 DEF BenchTypeInv, EndRound
      <4>2. worker'[w] = [worker[w] EXCEPT !.pc = "ready", !.call = 0, !.failed = FALSE]
        BY <2>1 DEF EndRound
      <4>3. /\ worker'[w].pc = "ready" /\ worker'[w].updates = worker[w].updates
            /\ worker'[w].own = worker[w].own /\ worker'[w].status = worker[w].status
            /\ worker'[w].answered = worker[w].answered
            /\ worker'[w].token = worker[w].token
        BY <4>1, <4>2 DEF Worker
      <4>4. QED
        BY <1>1, <4>1, <4>3 DEF OwnInv, OwnWorker, Calling
    <3>3. QED
      BY <3>1, <3>2 DEF OwnInv
  <2>2. CASE EndPhase \/ Report
    <3>1. worker' = worker /\ bench.pc \notin {"warmup", "measured"}
      BY <2>2 DEF EndPhase, Report
    <3>2. \A w \in DOMAIN worker : worker[w].pc \notin Calling /\ worker[w].token = NoToken
      BY <1>1, <3>1, NobodyCalls
    <3>3. QED
      BY <1>1, <3>1, <3>2 DEF OwnInv, OwnWorker
  <2>3. CASE \E n : worker' = NewWorkers(n)
    <3>1. ASSUME NEW w \in DOMAIN worker'
          PROVE  OwnWorker(w)'
      <4>1. worker'[w] = NewWorker
        <5>1. PICK n : worker' = NewWorkers(n)
          BY <2>3
        <5>2. DOMAIN worker' = 1..n
          BY <5>1 DEF NewWorkers
        <5>3. w \in 1..n
          BY <3>1, <5>2
        <5>4. QED
          BY <5>1, <5>3 DEF NewWorkers
      <4>2. /\ worker'[w].pc = "ready" /\ worker'[w].token = NoToken
            /\ worker'[w].updates = worker'[w].own
            /\ worker'[w].status = worker'[w].answered
        BY <4>1, NewWorkerFields
      <4>3. QED
        BY <4>2 DEF OwnWorker, Calling
    <3>2. QED
      BY <3>1 DEF OwnInv
  <2>4. CASE UNCHANGED <<bench, worker>>
    BY <1>2, <2>4
  <2>5. QED
    BY <1>5, <2>1, <2>2, <2>3, <2>4 DEF MainStep, Begin, NextPhase, StartPhase
<1>6. QED
  BY <1>2, <1>3, <1>4, <1>5, BenchIsKept DEF DemoNext, Outside

\* Every notification belongs to the current phase: it is only sent while its call
\* is awaited, and a new phase has new sessions.
LEMMA FlightStep ==
    ASSUME TypeInv, CallInv, DemoNext
    PROVE  FlightInv'
<1>1. BenchTypeInv /\ BackendTypeInv /\ FlightInv /\ AwaitedInv
  BY DEF TypeInv, CallInv
<1>2. ASSUME DOMAIN progress' \subseteq DOMAIN progress, bench'.phase = bench.phase,
             DOMAIN worker' = DOMAIN worker
      PROVE  FlightInv'
  BY <1>1, <1>2 DEF FlightInv
<1>3. CASE MainStep
  <2>1. CASE EndRound \/ EndPhase \/ Report
    <3>1. bench'.phase = bench.phase
      BY <1>1, <2>1 DEF EndRound, EndPhase, Report, BenchTypeInv, Bench
    <3>2. DOMAIN worker' = DOMAIN worker /\ progress' = progress
      BY <2>1 DEF EndRound, EndPhase, Report, backendVars
    <3>3. QED
      BY <1>2, <3>1, <3>2
  <2>2. CASE progress' = EmptyBag
    BY <2>2 DEF FlightInv, EmptyBag, SetToBag
  <2>3. CASE UNCHANGED <<bench, worker, progress>>
    BY <1>2, <2>3
  <2>4. QED
    BY <1>3, <2>1, <2>2, <2>3 DEF MainStep, Begin, NextPhase, StartPhase
<1>4. ASSUME NEW w \in DOMAIN worker, WorkerStep(w) \/ Accept(w) \/ Reject(w) \/ Break(w)
             \/ Receive(w)
      PROVE  FlightInv'
  <2>1. bench' = bench /\ progress' = progress /\ DOMAIN worker' = DOMAIN worker
    BY <1>4 DEF WorkerStep, Setup, StartCall, StopCalls, GiveUp, FinishCall, CloseSession,
       Accept, Reject, Break, Receive, Set, backendVars
  <2>2. QED
    BY <1>2, <2>1
<1>5. ASSUME NEW c \in DOMAIN progress, Progress(c)
      PROVE  FlightInv'
  <2>1. bench' = bench /\ DOMAIN worker' = DOMAIN worker
    BY <1>5 DEF Progress, Set
  <2>2. DOMAIN progress' \subseteq DOMAIN progress
    BY <1>1, <1>5, BagRemove DEF Progress, BackendTypeInv
  <2>3. QED
    BY <1>2, <2>1, <2>2
<1>6. ASSUME NEW c \in DOMAIN exec, BackendStep(c), UNCHANGED benchmarkVars
      PROVE  FlightInv'
  <2>1. bench' = bench /\ worker' = worker
    BY <1>6 DEF benchmarkVars
  <2>2. CASE progress' = progress
    BY <1>2, <2>1, <2>2
  <2>3. CASE NotifyProgress(c) /\ exec[c].open
    <3>1. c.phase = bench.phase /\ c.worker \in DOMAIN worker
      <4>1. exec[c].tool # ReadTool /\ Awaited(c)
        BY <1>1, <2>3 DEF NotifyProgress, AwaitedInv, ReadTool, StreamTool
      <4>2. c.worker \in DOMAIN worker /\ c = CallOf(c.worker)
        BY <4>1 DEF Awaited
      <4>3. CallOf(c.worker).phase = bench.phase
        BY DEF CallOf
      <4>4. QED
        BY <4>2, <4>3
    <3>2. DOMAIN progress' = DOMAIN progress \cup {c}
      <4>1. IsBag(progress)
        BY <1>1 DEF BackendTypeInv
      <4>2. progress' = progress (+) SetToBag({c})
        BY <2>3 DEF NotifyProgress
      <4>3. QED
        BY <4>1, <4>2, BagAdd
    <3>3. QED
      BY <1>1, <2>1, <3>1, <3>2 DEF FlightInv
  <2>4. QED
    BY <1>6, <2>2, <2>3 DEF BackendStep, ReadRunbook, NotifyProgress, StreamEnds, StreamStops,
       Observe, HandlerReturns
<1>7. CASE ClientStep \/ Done \/ RunAccepted \/ RunReceives \/ RunCloses \/ Expire
  <2>1. progress' = progress
    BY <1>7 DEF ClientStep, Fatal, Resolve, Dial, Judge, Get, Tick, Connect, ListTools,
       RunGivesUp, Done, RunAccepted, RunReceives, RunCloses, Expire, backendVars
  <2>2. QED
    BY <1>2, <1>7, <2>1, BenchIsKept
<1>8. QED
  BY <1>3, <1>4, <1>5, <1>6, <1>7 DEF DemoNext, Outside

\* A reply that is awaited still is, when the worker that moves is another one or
\* stays inside its call.
LEMMA AwaitedMove ==
    ASSUME NEW w \in DOMAIN worker, NEW y, Set(w, y), UNCHANGED <<config, bench, client>>,
           NEW c, Awaited(c), exec'[c].tool = exec[c].tool,
           c = CallOf(w) /\ worker[w].pc = "calling" =>
               y.pc = "calling" /\ y.call = worker[w].call
    PROVE  Awaited(c)'
<1>1. /\ DOMAIN worker' = DOMAIN worker /\ worker'[w] = y
      /\ \A v \in DOMAIN worker \ {w} : worker'[v] = worker[v]
  BY DEF Set
<1>2. CASE c = RunCall /\ exec[c].tool = ReadTool
           /\ Mode(client.flags) = "run" /\ client.pc = "calling"
  BY <1>2 DEF Awaited, RunCall
<1>3. CASE c.worker \in DOMAIN worker /\ c = CallOf(c.worker)
           /\ worker[c.worker].pc = "calling" /\ exec[c].tool = Phase.tool
  <2>1. worker'[c.worker].pc = "calling" /\ worker'[c.worker].call = worker[c.worker].call
    BY <1>1, <1>3
  <2>2. CallOf(c.worker)' = CallOf(c.worker)
    BY <2>1 DEF CallOf
  <2>3. Phase' = Phase
    BY DEF Phase
  <2>4. QED
    BY <1>1, <1>3, <2>1, <2>2, <2>3 DEF Awaited
<1>4. QED
  BY <1>2, <1>3 DEF Awaited

\* The worker of a call.
LEMMA WorkerOfCall == ASSUME NEW w PROVE CallOf(w).worker = w /\ CallOf(w).kind = bench.pc
BY DEF CallOf

\* The steps of a worker and its answers leave the other calls awaited.
LEMMA AwaitedWorkerStep ==
    ASSUME TypeInv, CallInv, NEW w \in DOMAIN worker, UNCHANGED client,
           WorkerStep(w) \/ Accept(w) \/ Reject(w) \/ Break(w) \/ Receive(w)
    PROVE  AwaitedInv'
<1>1. BenchTypeInv /\ BackendTypeInv /\ AwaitedInv
  BY DEF TypeInv, CallInv
<1>2. UNCHANGED <<config, bench, client>>
  BY DEF WorkerStep, Setup, StartCall, StopCalls, GiveUp, FinishCall, CloseSession, Accept,
     Reject, Break, Receive
<1>3. CASE Setup(w) \/ StopCalls(w) \/ CloseSession(w) \/ StartCall(w) \/ FinishCall(w)
  <2>1. PICK y \in Worker : Set(w, y)
    BY <1>1, <1>3, SetupEffect, StartEffect, FinishEffect
  <2>2. worker[w].pc # "calling" /\ exec' = exec
    BY <1>3 DEF Setup, StopCalls, CloseSession, StartCall, FinishCall, backendVars
  <2>3. QED
    BY <1>1, <1>2, <2>1, <2>2, AwaitedMove DEF AwaitedInv
<1>4. CASE Accept(w)
  <2>1. PICK y \in Worker : Set(w, y) /\ IsAccepted(worker[w], y)
    BY <1>1, <1>4, AcceptEffect
  <2>2. y.pc = "calling" /\ y.call = worker[w].call
    BY <2>1 DEF IsAccepted, SameCall
  <2>3. CallOf(w) \in Call /\ Phase.tool \in Tools
    BY <1>1, WorkerHasPhase
  <2>4. PICK c : c = CallOf(w)
    OBVIOUS
  <2>5. exec' = Entered(c, Phase.tool, TRUE)
    BY <1>4, <2>4 DEF Accept
  <2>6. /\ DOMAIN exec' = DOMAIN exec \cup {c}
        /\ \A d \in DOMAIN exec \ {c} : exec'[d] = exec[d]
        /\ exec'[c] = [tool |-> Phase.tool, known |-> TRUE, pc |-> "run", step |-> 0,
                       result |-> "none", open |-> TRUE]
    BY <1>1, <2>3, <2>4, <2>5, EnteredType
  <2>7. ASSUME NEW d \in DOMAIN exec \ {c}
        PROVE  /\ exec'[d].pc = "replied" => exec'[d].open
               /\ exec'[d].open => Awaited(d)'
    BY <1>1, <1>2, <2>1, <2>2, <2>6, <2>7, AwaitedMove DEF AwaitedInv
  <2>8. exec'[c].pc = "run" /\ exec'[c].tool = Phase.tool
    BY <2>6
  <2>9. Awaited(c)'
    <3>1. /\ DOMAIN worker' = DOMAIN worker /\ worker'[w] = y
      BY <2>1 DEF Set
    <3>2. CallOf(w)' = c
      BY <1>2, <2>2, <2>4, <3>1 DEF CallOf
    <3>3. c.worker = w
      BY <2>4, WorkerOfCall
    <3>4. Phase' = Phase
      BY <1>2 DEF Phase
    <3>5. QED
      BY <2>2, <2>8, <3>1, <3>2, <3>3, <3>4 DEF Awaited
  <2>10. QED
    BY <2>6, <2>7, <2>8, <2>9 DEF AwaitedInv
<1>5. CASE GiveUp(w) \/ Reject(w) \/ Break(w) \/ Receive(w)
  <2>1. PICK y \in Worker : Set(w, y)
    BY <1>1, <1>5, ReturnEffect
  <2>2. PICK c : c = CallOf(w)
    OBVIOUS
  <2>3. ASSUME NEW d \in DOMAIN exec \ {c}, exec'[d] = exec[d]
        PROVE  /\ exec'[d].pc = "replied" => exec'[d].open
               /\ exec'[d].open => Awaited(d)'
    BY <1>1, <1>2, <2>1, <2>2, <2>3, AwaitedMove DEF AwaitedInv
  <2>4. CASE Reject(w)
    <3>1. exec' = exec /\ c \notin DOMAIN exec
      BY <2>2, <2>4 DEF Reject, Posted, backendVars
    <3>2. QED
      BY <2>3, <3>1 DEF AwaitedInv
  <2>5. CASE Receive(w)
    <3>1. exec' = Without(c)
      BY <2>2, <2>5 DEF Receive
    <3>2. /\ DOMAIN exec' = DOMAIN exec \ {c}
          /\ \A d \in DOMAIN exec \ {c} : exec'[d] = exec[d]
      BY <1>1, <3>1, ExecTypes
    <3>3. QED
      BY <2>3, <3>2 DEF AwaitedInv
  <2>6. CASE GiveUp(w) \/ Break(w)
    <3>1. exec' = HungUp(c)
      BY <2>2, <2>6 DEF GiveUp, Break
    <3>2. /\ DOMAIN exec' \subseteq DOMAIN exec
          /\ \A d \in DOMAIN exec' \ {c} : exec'[d] = exec[d]
          /\ c \in DOMAIN exec' =>
                exec[c].pc # "replied" /\ exec'[c] = [exec[c] EXCEPT !.open = FALSE]
      BY <1>1, <3>1, ExecTypes
    <3>3. c \in DOMAIN exec' => exec'[c].pc # "replied" /\ ~exec'[c].open
      <4>1. c \in DOMAIN exec' => exec[c] \in Execution
        BY <1>1, <3>2 DEF BackendTypeInv
      <4>2. QED
        BY <3>2, <4>1 DEF Execution
    <3>4. QED
      BY <2>3, <3>2, <3>3 DEF AwaitedInv
  <2>7. QED
    BY <1>5, <2>4, <2>5, <2>6
<1>6. QED
  BY <1>3, <1>4, <1>5 DEF WorkerStep

\* A step of a handler that is running: nothing is counted yet.
Runs(c) ==
    /\ exec[c].pc = "run" /\ invocations' = invocations
    /\ DOMAIN exec' = DOMAIN exec
    /\ \A d \in DOMAIN exec \ {c} : exec'[d] = exec[d]
    /\ exec'[c].pc \in {"run", "returned"}
    /\ exec'[c].tool = exec[c].tool /\ exec'[c].open = exec[c].open

\* The handler that has returned is counted with outcome o.
Observed(c, o) ==
    /\ exec[c].pc = "returned" /\ o \in Outcomes(exec[c])
    /\ invocations' = invocations (+) SetToBag({<<exec[c].tool, o>>})
    /\ \A d \in DOMAIN exec \ {c} : exec'[d] = exec[d]
    /\ IF exec[c].open
       THEN /\ DOMAIN exec' = DOMAIN exec
            /\ exec'[c].pc = "replied" /\ exec'[c].result = exec[c].result
            /\ exec'[c].tool = exec[c].tool /\ exec'[c].open = exec[c].open
       ELSE DOMAIN exec' = DOMAIN exec \ {c}

\* A step of the server: a handler runs on, or is counted.
LEMMA BackendEffect ==
    ASSUME BackendTypeInv, NEW c \in DOMAIN exec, BackendStep(c)
    PROVE  Runs(c) \/ \E o : Observed(c, o)
<1>1. exec[c] \in Execution /\ exec \in [DOMAIN exec -> Execution]
  BY DEF BackendTypeInv
<1>2. ASSUME NEW r, HandlerReturns(c, r), exec[c].pc = "run"
      PROVE  Runs(c)
  <2>1. PICK e : e = [exec[c] EXCEPT !.pc = "returned", !.result = r]
    OBVIOUS
  <2>2. e.pc = "returned" /\ e.tool = exec[c].tool /\ e.open = exec[c].open
    BY <1>1, <2>1 DEF Execution
  <2>3. exec' = [exec EXCEPT ![c] = e] /\ invocations' = invocations
    BY <1>1, <1>2, <2>1 DEF HandlerReturns
  <2>4. QED
    BY <1>1, <1>2, <2>2, <2>3 DEF Runs
<1>3. CASE NotifyProgress(c)
  <2>1. PICK e : e = [exec[c] EXCEPT !.step = @ + 1]
    OBVIOUS
  <2>2. e.pc = exec[c].pc /\ e.tool = exec[c].tool /\ e.open = exec[c].open
    BY <1>1, <2>1 DEF Execution
  <2>3. exec' = [exec EXCEPT ![c] = e] /\ invocations' = invocations /\ exec[c].pc = "run"
    BY <1>1, <1>3, <2>1 DEF NotifyProgress
  <2>4. QED
    BY <1>1, <2>2, <2>3 DEF Runs
<1>4. CASE Observe(c)
  <2>1. PICK o \in Outcomes(exec[c]) :
           invocations' = invocations (+) SetToBag({<<exec[c].tool, o>>})
    BY <1>4 DEF Observe
  <2>2. CASE exec[c].open
    <3>1. PICK e : e = [exec[c] EXCEPT !.pc = "replied"]
      OBVIOUS
    <3>2. e.pc = "replied" /\ e.result = exec[c].result /\ e.tool = exec[c].tool
          /\ e.open = exec[c].open
      BY <1>1, <3>1 DEF Execution
    <3>3. exec' = [exec EXCEPT ![c] = e] /\ exec[c].pc = "returned"
      BY <1>1, <1>4, <2>2, <3>1 DEF Observe
    <3>4. Observed(c, o)
      BY <1>1, <2>1, <2>2, <3>2, <3>3 DEF Observed
    <3>5. QED
      BY <3>4
  <2>3. CASE ~exec[c].open
    <3>1. exec' = Without(c) /\ exec[c].pc = "returned"
      BY <1>4, <2>3 DEF Observe
    <3>2. Observed(c, o)
      BY <2>1, <2>3, <3>1, ExecTypes DEF Observed
    <3>3. QED
      BY <3>2
  <2>4. QED
    BY <2>2, <2>3
<1>5. QED
  BY <1>2, <1>3, <1>4 DEF BackendStep, ReadRunbook, StreamEnds, StreamStops

\* A step of the server leaves its callers waiting.
LEMMA AwaitedBackendStep ==
    ASSUME TypeInv, CallInv, NEW c \in DOMAIN exec, BackendStep(c),
           UNCHANGED <<client, benchmarkVars>>
    PROVE  AwaitedInv' /\ RunInv'
<1>1. BackendTypeInv /\ AwaitedInv /\ RunInv
  BY DEF TypeInv, CallInv
<1>2. ASSUME NEW d \in DOMAIN exec, exec'[d].tool = exec[d].tool, Awaited(d)
      PROVE  Awaited(d)'
  BY <1>2 DEF Awaited, CallOf, Phase, RunCall, benchmarkVars
<1>3. /\ DOMAIN exec' \subseteq DOMAIN exec
      /\ \A d \in DOMAIN exec' :
            /\ exec'[d].tool = exec[d].tool /\ exec'[d].open = exec[d].open
            /\ exec'[d].pc = "replied" => exec[d].pc = "replied" \/ exec[d].open
  BY <1>1, BackendEffect DEF Runs, Observed
<1>4. AwaitedInv'
  BY <1>1, <1>2, <1>3 DEF AwaitedInv
<1>5. RunInv'
  BY <1>1, <1>3 DEF RunInv, RunCall
<1>6. QED
  BY <1>4, <1>5

\* The execution of Run's call is touched by Run and the server alone.
LEMMA RunWorkerStep ==
    ASSUME TypeInv, CallInv, NEW w \in DOMAIN worker, UNCHANGED client,
           WorkerStep(w) \/ Accept(w) \/ Reject(w) \/ Break(w) \/ Receive(w)
    PROVE  RunInv'
<1>1. BenchTypeInv /\ BackendTypeInv /\ RunInv
  BY DEF TypeInv, CallInv
<1>2. PICK c : c = CallOf(w)
  OBVIOUS
<1>3. c # RunCall /\ c \in Call /\ Phase.tool \in Tools
  <2>1. c.kind \in Rounds /\ c \in Call /\ Phase.tool \in Tools
    BY <1>1, <1>2, WorkerOfCall, WorkerHasPhase DEF BenchTypeInv, Bench
  <2>2. RunCall.kind \notin Rounds
    BY DEF RunCall, Rounds
  <2>3. QED
    BY <2>1, <2>2
<1>4. ASSUME RunCall \in DOMAIN exec'
      PROVE  RunCall \in DOMAIN exec /\ exec'[RunCall] = exec[RunCall]
  <2>1. CASE Accept(w)
    <3>1. exec' = Entered(c, Phase.tool, TRUE)
      BY <1>2, <2>1 DEF Accept
    <3>2. /\ DOMAIN exec' = DOMAIN exec \cup {c}
          /\ \A d \in DOMAIN exec \ {c} : exec'[d] = exec[d]
      BY <1>1, <1>3, <3>1, EnteredType
    <3>3. QED
      BY <1>3, <1>4, <3>2
  <2>2. CASE GiveUp(w) \/ Break(w)
    <3>1. exec' = HungUp(c)
      BY <1>2, <2>2 DEF GiveUp, Break
    <3>2. QED
      BY <1>1, <1>3, <1>4, <3>1, ExecTypes
  <2>3. CASE Receive(w)
    <3>1. exec' = Without(c)
      BY <1>2, <2>3 DEF Receive
    <3>2. QED
      BY <1>1, <1>3, <1>4, <3>1, ExecTypes
  <2>4. QED
    BY <1>4, <2>1, <2>2, <2>3 DEF WorkerStep, Setup, StartCall, StopCalls, FinishCall,
       CloseSession, Reject, backendVars
<1>5. QED
  BY <1>1, <1>4 DEF RunInv, RunCall

\* A callback moves no worker out of its call.
LEMMA AwaitedProgress ==
    ASSUME TypeInv, CallInv, NEW c \in DOMAIN progress, Progress(c), UNCHANGED client
    PROVE  AwaitedInv' /\ RunInv'
<1>1. BenchTypeInv /\ AwaitedInv /\ RunInv
  BY DEF TypeInv, CallInv
<1>2. UNCHANGED <<config, bench, client, exec>>
  BY DEF Progress
<1>3. RunInv'
  BY <1>1, <1>2 DEF RunInv, RunCall
<1>4. ASSUME NEW d \in DOMAIN exec, Awaited(d)
      PROVE  Awaited(d)'
  <2>1. CASE worker' = worker
    BY <1>2, <1>4, <2>1 DEF Awaited, CallOf, Phase, RunCall
  <2>2. CASE /\ c.worker \in DOMAIN worker
             /\ \E y \in Worker : /\ Set(c.worker, y)
                                  /\ Counts(worker[c.worker], y, c = CallOf(c.worker))
    <3>1. PICK y \in Worker : /\ Set(c.worker, y)
                              /\ Counts(worker[c.worker], y, c = CallOf(c.worker))
      BY <2>2
    <3>2. y.pc = worker[c.worker].pc /\ y.call = worker[c.worker].call
      BY <3>1 DEF Counts
    <3>3. QED
      BY <1>2, <1>4, <2>2, <3>1, <3>2, AwaitedMove
  <2>3. QED
    BY <1>1, <2>1, <2>2, ProgressEffect
<1>5. AwaitedInv'
  BY <1>1, <1>2, <1>4 DEF AwaitedInv
<1>6. QED
  BY <1>3, <1>5

\* When the main goroutine moves, no worker is inside a call.
LEMMA AwaitedMain ==
    ASSUME TypeInv, CallInv, MainStep, UNCHANGED client
    PROVE  AwaitedInv' /\ RunInv'
<1>1. BenchTypeInv /\ OwnInv /\ AwaitedInv /\ RunInv
  BY DEF TypeInv, CallInv
<1>2. exec' = exec
  BY DEF MainStep, Begin, EndRound, EndPhase, NextPhase, Report, backendVars
<1>3. RunInv'
  BY <1>1, <1>2 DEF RunInv, RunCall
<1>4. \A w \in DOMAIN worker : worker[w].pc # "calling"
  BY <1>1, NobodyCalls DEF MainStep, Begin, EndRound, EndPhase, NextPhase, Report, Calling
<1>5. \A c \in DOMAIN exec : Awaited(c) => Awaited(c)'
  BY <1>2, <1>4 DEF Awaited, RunCall
<1>6. QED
  BY <1>1, <1>2, <1>3, <1>5 DEF AwaitedInv

\* The other modes of the client: Run waits for its call until it gives up or
\* receives the reply.
LEMMA AwaitedClient ==
    ASSUME TypeInv, CallInv,
           ClientStep \/ Done \/ RunAccepted \/ RunReceives \/ RunCloses
    PROVE  AwaitedInv' /\ RunInv'
<1>1. BenchTypeInv /\ BackendTypeInv /\ AwaitedInv /\ RunInv /\ client \in Client
  BY DEF TypeInv, CallInv, ClientTypeInv
<1>2. UNCHANGED <<config, bench, worker>>
  BY BenchIsKept
<1>3. ASSUME NEW d, d # RunCall, exec'[d].tool = exec[d].tool, Awaited(d)
      PROVE  Awaited(d)'
  BY <1>2, <1>3 DEF Awaited, CallOf, Phase, RunCall
<1>4. CASE RunAccepted
  <2>1. PICK known \in BOOLEAN : exec' = Entered(RunCall, ReadTool, known)
    BY <1>4 DEF RunAccepted
  <2>2. RunCall \in Call /\ ReadTool \in Tools
    BY DEF RunCall, Call, Tools
  <2>3. /\ DOMAIN exec' = DOMAIN exec \cup {RunCall}
        /\ \A d \in DOMAIN exec \ {RunCall} : exec'[d] = exec[d]
        /\ exec'[RunCall] =
              [tool |-> ReadTool, known |-> known, pc |-> "run", step |-> 0,
               result |-> "none", open |-> TRUE]
    <3>1. PICK c, t : c = RunCall /\ t = ReadTool
      OBVIOUS
    <3>2. c \in Call /\ t \in Tools /\ exec' = Entered(c, t, known)
      BY <2>1, <2>2, <3>1
    <3>3. /\ DOMAIN exec' = DOMAIN exec \cup {c}
          /\ \A d \in DOMAIN exec \ {c} : exec'[d] = exec[d]
          /\ exec'[c] = [tool |-> t, known |-> known, pc |-> "run", step |-> 0,
                         result |-> "none", open |-> TRUE]
      BY <1>1, <3>2, EnteredType
    <3>4. QED
      BY <3>1, <3>3
  <2>4. exec'[RunCall].tool = ReadTool /\ exec'[RunCall].pc = "run" /\ exec'[RunCall].open
    BY <2>3
  <2>5. client' = client /\ Mode(client.flags) = "run" /\ client.pc = "calling"
    BY <1>4 DEF RunAccepted, ClientAt
  <2>6. RunInv'
    BY <2>4, <2>5 DEF RunInv, RunCall
  <2>7. Awaited(RunCall)'
    BY <2>4, <2>5 DEF Awaited, RunCall
  <2>8. AwaitedInv'
    BY <1>1, <1>3, <2>3, <2>4, <2>7 DEF AwaitedInv, RunCall
  <2>9. QED
    BY <2>6, <2>8
<1>5. CASE RunGivesUp \/ RunReceives
  <2>1. exec' = HungUp(RunCall) \/ exec' = Without(RunCall)
    BY <1>5 DEF RunGivesUp, RunReceives
  <2>2. /\ DOMAIN exec' \subseteq DOMAIN exec
        /\ \A d \in DOMAIN exec' \ {RunCall} : exec'[d] = exec[d]
        /\ RunCall \in DOMAIN exec' =>
              /\ exec[RunCall].pc # "replied"
              /\ exec'[RunCall] = [exec[RunCall] EXCEPT !.open = FALSE]
    <3>1. CASE exec' = HungUp(RunCall)
      BY <1>1, <3>1, ExecTypes
    <3>2. CASE exec' = Without(RunCall)
      BY <1>1, <3>2, ExecTypes, ZenonT(30)
    <3>3. QED
      BY <2>1, <3>1, <3>2
  <2>3. RunCall \in DOMAIN exec' =>
           /\ exec'[RunCall].pc # "replied" /\ ~exec'[RunCall].open
           /\ exec'[RunCall].tool = exec[RunCall].tool
    <3>1. RunCall \in DOMAIN exec' => exec[RunCall] \in Execution
      BY <1>1, <2>2 DEF BackendTypeInv
    <3>2. QED
      BY <2>2, <3>1 DEF Execution
  <2>4. client'.flags = client.flags /\ client'.pc = "close" /\ Mode(client.flags) = "run"
    BY <1>1, <1>5 DEF RunGivesUp, RunReceives, RunFails, GoTo, ClientAt, Client
  <2>5. RunInv'
    BY <1>1, <2>2, <2>3, <2>4 DEF RunInv, RunCall
  <2>6. AwaitedInv'
    BY <1>1, <1>3, <2>2, <2>3 DEF AwaitedInv, RunCall
  <2>7. QED
    BY <2>5, <2>6
<1>6. CASE Fatal \/ Resolve \/ Dial \/ Judge \/ Get \/ Tick \/ Connect \/ ListTools
           \/ Done \/ RunCloses
  <2>1. exec' = exec
    BY <1>6 DEF Fatal, Resolve, Dial, Judge, Get, Tick, Connect, ListTools, Done, RunCloses,
       backendVars
  <2>2. \/ client' = client
        \/ Mode(client.flags) # "run" \/ client.pc \in {"start", "list"}
    BY <1>6 DEF Fatal, Resolve, Dial, Judge, Get, Tick, Connect, ListTools, Done, RunCloses,
       ClientAt, Exit
  <2>3. RunInv'
    BY <1>1, <2>1, <2>2 DEF RunInv, RunCall
  <2>4. \A d \in DOMAIN exec : exec[d].open => Awaited(d)'
    BY <1>1, <1>2, <2>1, <2>2 DEF AwaitedInv, Awaited, RunCall, CallOf, Phase
  <2>5. QED
    BY <1>1, <2>1, <2>3, <2>4 DEF AwaitedInv
<1>7. QED
  BY <1>4, <1>5, <1>6 DEF ClientStep

\* Every step keeps what is known of the calls under way.
LEMMA CallStep ==
    ASSUME TypeInv, CallInv, [DemoNext]_demoVars
    PROVE  CallInv'
<1>1. CASE UNCHANGED demoVars
  BY <1>1 DEF demoVars, benchmarkVars, backendVars, CallInv, OwnInv, OwnWorker, AwaitedInv,
     Awaited, FlightInv, RunInv, CallOf, Token, Phase, RunCall
<1>2. CASE DemoNext
  <2>1. AwaitedInv' /\ RunInv'
    <3>1. CASE Expire /\ UNCHANGED client
      BY <3>1 DEF Expire, backendVars, CallInv, AwaitedInv, Awaited, RunInv, CallOf, Phase,
         RunCall
    <3>2. QED
      BY <1>2, <3>1, AwaitedClient, AwaitedMain, AwaitedProgress, AwaitedWorkerStep,
         RunWorkerStep, AwaitedBackendStep DEF DemoNext, Outside, BenchmarkMode
  <2>2. QED
    BY <1>2, <2>1, OwnStep, FlightStep DEF CallInv
<1>3. QED
  BY <1>1, <1>2

\* The calls under way, in every state.
THEOREM CallInvariance == DemoSpec => [](TypeInv /\ IsolationInv /\ CallInv)
<1>1. DemoInit => TypeInv /\ IsolationInv /\ CallInv
  <2>1. DemoInit => CallInv
    BY DEF DemoInit, BenchmarkInit, BackendInit, NewWorkers, EmptyBag, SetToBag, CallInv,
       OwnInv, AwaitedInv, FlightInv, RunInv
  <2>2. QED
    BY <2>1, TypeInitially, IsolationInitially
<1>2. TypeInv /\ IsolationInv /\ CallInv /\ [DemoNext]_demoVars =>
         (TypeInv /\ IsolationInv /\ CallInv)'
  BY TypeStep, IsolationStep, CallStep
<1>3. QED
  BY <1>1, <1>2, PTL DEF DemoSpec

\* A worker of the benchmark counts the callbacks of the call it is making and no
\* others, although they are matched by a token alone and may come after their
\* call has returned, even during a later one.
THEOREM ProgressIsOfItsCall == DemoSpec => []ProgressIsOwn
<1>1. TypeInv /\ CallInv => ProgressIsOwn
  BY OwnImplies DEF TypeInv, CallInv
<1>2. QED
  BY <1>1, CallInvariance, PTL

\* A failed call is put into an HTTP category by the answer to its own POST.
THEOREM StatusIsOfItsCall == DemoSpec => []StatusIsOwn
<1>1. TypeInv /\ CallInv => StatusIsOwn
  BY OwnImplies DEF TypeInv, CallInv
<1>2. QED
  BY <1>1, CallInvariance, PTL
=============================================================================
