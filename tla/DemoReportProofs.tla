--------------------------- MODULE DemoReportProofs ---------------------------
(***************************************************************************)
(* What the benchmark reports is true.  The measurement of a phase is that *)
(* of its workers' samples, whose percentiles BenchmarkReportProofs knows. *)
(* A run that is reported successful has made each call of the plan once,  *)
(* and the server has served it: while nothing has gone wrong, the calls   *)
(* started and those succeeded are exactly the calls of the plan up to     *)
(* this point, as sets; and the accounts of DemoBackendProofs leave no     *)
(* room between what the client and what the server has counted.           *)
(***************************************************************************)
EXTENDS DemoBackendProofs
-----------------------------------------------------------------------------
(* What the benchmark reports: definitions.                                *)

\* The calls that configuration f asks for on tool t.
Asked(f, t) ==
    LET phases == {i \in DOMAIN Plan(f) : Plan(f)[i].tool = t}
    IN  PlannedCalls(f, phases, "warmup", f.warmup)
        \cup PlannedCalls(f, phases, "measured", f.calls)

\* How many calls of a kind a worker has made in the phase under way, if it has
\* made n in the round under way.
Quota(f, round, kind, n) ==
    IF round = kind THEN n
    ELSE IF round = "setup" \/ (round = "warmup" /\ kind = "measured") THEN 0
    ELSE IF kind = "warmup" THEN f.warmup ELSE f.calls

\* The calls on t that are made at the point b of the plan of f, n[w] by worker w
\* in the round under way.
Made(f, b, t, n) ==
    {c \in Asked(f, t) :
        \/ c.phase < b.phase
        \/ c.phase = b.phase /\ c.call < Quota(f, b.pc, c.kind, n[c.worker])}

\* The calls a worker has finished and started in this round.
Ended == [w \in DOMAIN worker |-> worker[w].call]
Begun == [w \in DOMAIN worker |->
            IF worker[w].pc \in Calling THEN worker[w].call + 1 ELSE worker[w].call]

\* The counts of the client are those of the calls of the plan up to this point.
Exact ==
    \A t \in Tools :
        /\ IsFiniteSet(Made(config, bench, t, Begun))
        /\ IsFiniteSet(Made(config, bench, t, Ended))
        /\ tally[t].started = Cardinality(Made(config, bench, t, Begun))
        /\ tally[t].succeeded = Cardinality(Made(config, bench, t, Ended))

\* No phase is under way.
Settled == bench.pc \in {"normalize", "next", "report"}

\* Nothing has gone wrong for a worker so far.
Good(x) == ~x.failed /\ \A i \in DOMAIN x.samples : x.samples[i].category = ""

\* Nothing has gone wrong in the phase under way.
Clean == ~bench.failed /\ ~expired /\ \A w \in DOMAIN worker : Good(worker[w])

\* Where the workers are in their round.
RoundInv ==
    /\ bench.pc = "normalize" => bench.phase = 0
    /\ ~Settled => DOMAIN worker = 1..Phase.concurrency
    /\ \A w \in DOMAIN worker :
          /\ worker[w].pc \in Calling => worker[w].call < Measure(bench.pc)
          /\ bench.pc \in {"warmup", "measured"} /\ worker[w].pc = "done" /\ ~expired =>
                worker[w].call = Measure(bench.pc)
          /\ bench.pc = "aggregate" => ~worker[w].failed

\* As long as nothing has gone wrong the counts are exact, and a phase that is
\* judged a success had nothing go wrong.
CleanInv ==
    Mode(client.flags) = "benchmark" =>
        /\ bench.successful /\ (Settled \/ Clean) => Exact
        /\ bench.pc = "report" /\ bench.successful => bench.phase = Len(Plan(config))
        /\ exit = "ok" => bench.pc = "report" /\ bench.successful

\* The one call of Run.
SingleInv ==
    /\ Mode(client.flags) # "benchmark" => bench.pc = "normalize"
    /\ Mode(client.flags) = "run" =>
          /\ tally[StreamTool].started = 0 /\ tally[StreamTool].succeeded = 0
          /\ client.pc \in {"start", "list"} =>
                tally[ReadTool].started = 0 /\ tally[ReadTool].succeeded = 0
          /\ client.pc = "calling" =>
                tally[ReadTool].started = 1 /\ tally[ReadTool].succeeded = 0
          /\ client.pc = "close" /\ ~client.failed =>
                tally[ReadTool].started = 1 /\ tally[ReadTool].succeeded = 1
          /\ exit = "ok" => client.pc = "close" /\ ~client.failed

\* The plan is that of an accepted configuration, and a measurement is that of
\* the samples the workers still have.
MeasurementInv ==
    /\ bench.pc # "normalize" => Accepts(config)
    /\ bench.pc \in {"next", "report"} => bench.last = Aggregate(Samples)

ReportInv == RoundInv /\ CleanInv /\ SingleInv
-----------------------------------------------------------------------------
(* The plan and the measurements.                                          *)

\* Workers act in a round, and in no other.
LEMMA WorkersAct ==
    ASSUME OwnInv, NEW w \in DOMAIN worker,
           WorkerStep(w) \/ Accept(w) \/ Reject(w) \/ Break(w) \/ Receive(w)
    PROVE  bench.pc \in {"setup", "warmup", "measured", "close"}
<1>1. bench.pc \notin {"warmup", "measured"} => worker[w].pc \notin Calling
  BY NobodyCalls
<1>2. QED
  BY <1>1 DEF WorkerStep, Setup, StartCall, StopCalls, GiveUp, FinishCall, CloseSession, Accept,
     Reject, Break, Receive, Posted, Calling

\* A callback that is counted is one of a call.
LEMMA CallbackActs ==
    ASSUME TypeInv, CallInv, NEW c \in DOMAIN progress, Progress(c), worker' # worker
    PROVE  bench.pc \in {"warmup", "measured"}
<1>1. BenchTypeInv /\ OwnInv /\ c \in Call
  BY DEF TypeInv, CallInv, BackendTypeInv
<1>2. c.worker \in DOMAIN worker /\ worker[c.worker].token = Token(c)
  BY <1>1, ProgressEffect
<1>3. worker[c.worker].token # NoToken
  BY <1>1, <1>2, TokenType
<1>4. QED
  BY <1>1, <1>2, <1>3, NobodyCalls

\* Once the rounds of a phase are over nothing writes to its workers.
LEMMA WorkersRest ==
    ASSUME TypeInv, CallInv, DemoNext, bench.pc \notin {"setup", "warmup", "measured", "close"}
    PROVE  worker' = worker \/ (BenchmarkMode /\ MainStep)
<1>1. OwnInv
  BY DEF CallInv
<1>2. QED
  BY <1>1, WorkersAct, CallbackActs, BenchIsKept DEF DemoNext, Outside

\* Only the main goroutine moves the benchmark along its plan.
LEMMA BenchMoves ==
    ASSUME [DemoNext]_demoVars
    PROVE  config' = config /\ (bench' = bench \/ (BenchmarkMode /\ MainStep))
<1>1. CASE UNCHANGED demoVars
  BY <1>1 DEF demoVars, benchmarkVars
<1>2. ASSUME NEW w, WorkerStep(w) \/ Accept(w) \/ Reject(w) \/ Break(w) \/ Receive(w)
      PROVE  config' = config /\ bench' = bench
  BY <1>2 DEF WorkerStep, Setup, StartCall, StopCalls, GiveUp, FinishCall, CloseSession, Accept,
     Reject, Break, Receive
<1>3. ASSUME NEW c, Progress(c) PROVE config' = config /\ bench' = bench
  BY <1>3 DEF Progress
<1>4. MainStep => config' = config
  BY DEF MainStep, Begin, EndRound, EndPhase, NextPhase, Report
<1>5. QED
  BY <1>1, <1>2, <1>3, <1>4, BenchIsKept DEF DemoNext, Outside

\* The samples are those of the workers.
LEMMA SameSamples == ASSUME worker' = worker PROVE Samples' = Samples
<1>1. Samples = Joined(worker) /\ Samples' = Joined(worker')
  BY DEF Samples, Joined, FoldFunction, FoldFunctionOnSet, MapThenFoldSet
<1>2. QED
  BY <1>1

\* A configuration in use has been accepted, and the measurement of a phase is
\* that of its workers' samples.
LEMMA MeasurementStep ==
    ASSUME TypeInv, CallInv, MeasurementInv, [DemoNext]_demoVars
    PROVE  MeasurementInv'
<1>1. BenchTypeInv /\ Bench(bench)
  BY DEF TypeInv, BenchTypeInv
<1>2. CASE UNCHANGED demoVars
  BY <1>2, SameSamples DEF demoVars, benchmarkVars, MeasurementInv
<1>3. CASE DemoNext /\ bench' = bench
  <2>1. config' = config
    BY <1>3, BenchMoves
  <2>2. CASE bench.pc \in {"next", "report"}
    <3>1. worker' = worker \/ MainStep
      BY <1>3, <2>2, WorkersRest
    <3>2. MainStep => worker' = worker
      <4>1. ASSUME NextPhase PROVE FALSE
        <5>1. bench'.pc = "setup"
          BY <1>1, <4>1 DEF NextPhase, StartPhase, Bench
        <5>2. QED
          BY <1>3, <2>2, <5>1
      <4>2. QED
        BY <2>2, <4>1 DEF MainStep, Begin, EndRound, EndPhase, Report
    <3>3. Samples' = Samples
      BY <3>1, <3>2, SameSamples
    <3>4. QED
      BY <1>3, <2>1, <3>3 DEF MeasurementInv
  <2>3. CASE bench.pc \notin {"next", "report"}
    BY <1>3, <2>1, <2>3 DEF MeasurementInv
  <2>4. QED
    BY <2>2, <2>3
<1>4. CASE MainStep
  <2>1. config' = config
    BY <1>4 DEF MainStep, Begin, EndRound, EndPhase, NextPhase, Report
  <2>2. CASE Begin
    <3>1. CASE Accepts(config)
      <4>1. bench'.pc = "setup"
        BY <1>1, <2>2, <3>1 DEF Begin, StartPhase, Bench
      <4>2. QED
        BY <2>1, <3>1, <4>1 DEF MeasurementInv
    <3>2. CASE ~Accepts(config)
      <4>1. bench' = bench /\ bench.pc = "normalize"
        BY <2>2, <3>2 DEF Begin
      <4>2. QED
        BY <4>1 DEF MeasurementInv
    <3>3. QED
      BY <3>1, <3>2
  <2>3. CASE EndRound
    <3>1. bench'.pc = After(bench.pc) /\ bench.pc \in {"setup", "warmup", "measured", "close"}
      BY <1>1, <2>3 DEF EndRound, Bench
    <3>2. bench'.pc \notin {"next", "report"}
      BY <3>1, AfterType
    <3>3. Accepts(config)
      BY <3>1 DEF MeasurementInv
    <3>4. QED
      BY <2>1, <3>2, <3>3 DEF MeasurementInv
  <2>4. CASE EndPhase
    <3>1. bench'.last = Aggregate(Samples)
      BY <1>1, <2>4 DEF EndPhase, Bench
    <3>2. Samples' = Samples /\ Accepts(config)
      BY <2>4, SameSamples DEF EndPhase, MeasurementInv
    <3>3. QED
      BY <2>1, <3>1, <3>2 DEF MeasurementInv
  <2>5. CASE NextPhase
    <3>1. bench'.pc = "setup" /\ Accepts(config)
      BY <1>1, <2>5 DEF NextPhase, StartPhase, Bench, MeasurementInv
    <3>2. QED
      BY <2>1, <3>1 DEF MeasurementInv
  <2>6. CASE Report
    <3>1. bench'.pc = bench.pc /\ bench'.last = bench.last
      BY <1>1, <2>6 DEF Report, Bench
    <3>2. Samples' = Samples
      BY <2>6, SameSamples DEF Report
    <3>3. QED
      BY <2>1, <3>1, <3>2 DEF MeasurementInv
  <2>7. QED
    BY <1>4, <2>2, <2>3, <2>4, <2>5, <2>6 DEF MainStep
<1>5. QED
  BY <1>2, <1>3, <1>4, BenchMoves

\* The plan and the measurements, in every state.
LEMMA MeasurementInvariance == DemoSpec => [](TypeInv /\ CallInv /\ MeasurementInv)
<1>1. DemoInit => MeasurementInv
  BY DEF DemoInit, BenchmarkInit, MeasurementInv
<1>2. TypeInv /\ CallInv /\ MeasurementInv /\ [DemoNext]_demoVars => MeasurementInv'
  BY MeasurementStep
<1>3. QED
  BY <1>1, <1>2, CallInvariance, PTL DEF DemoSpec

\* Every configuration normalizeBenchmark accepts, with any numbers of workers,
\* calls and repetitions, is one of at most Limit.total measured calls, and each
\* of its phases has exactly one counterpart at the other target.
THEOREM PlansAreSound == DemoSpec => []PlanIsSound
<1>1. ASSUME TypeInv, MeasurementInv PROVE PlanIsSound
  <2>1. SUFFICES ASSUME bench.pc = "setup"
                 PROVE  /\ Cardinality(PlannedCalls(config, DOMAIN Plan(config), "measured",
                                                    config.calls)) <= Limit.total
                        /\ \A i \in DOMAIN Plan(config) :
                              Cardinality({p \in Overhead(Plan(config)) : i \in {p[1], p[2]}}) = 1
    BY DEF PlanIsSound
  <2>2. Accepted(config)
    BY <1>1, <2>1 DEF TypeInv, BenchTypeInv, Config, MeasurementInv, Accepted
  <2>3. QED
    BY <2>2, CallsAreBounded, PairsAreUnique
<1>2. QED
  BY <1>1, MeasurementInvariance, PTL

\* The samples of a phase, joined worker by worker, have the samples of each.
LEMMA SamplesOfAll ==
    ASSUME BenchTypeInv
    PROVE  /\ Samples \in Seq(Sample)
           /\ \A w \in DOMAIN worker : Within(worker[w].samples, Samples)
<1>1. IsFiniteSet(DOMAIN worker)
  <2>1. PICK n \in 0..Limit.workers : DOMAIN worker = 1..n
    BY DEF BenchTypeInv
  <2>2. 1 \in Int /\ n \in Int
    BY <2>1, LimitAssumption
  <2>3. QED
    BY <2>1, <2>2, FS_Interval
<1>2. \A w \in DOMAIN worker : worker[w].samples \in Seq(Sample)
  BY DEF BenchTypeInv, Worker
<1>3. Samples = Joined(worker)
  BY DEF Samples, Joined
<1>4. QED
  BY <1>1, <1>2, <1>3, JoinedHasAll

\* The percentiles a measurement reports, of all calls and of the successful ones,
\* are nearest-rank percentiles of the samples of all workers, for any number of
\* samples, any durations and any order in which the workers end.
THEOREM PercentilesAreCorrect == DemoSpec => []PercentilesAreNearestRank
<1>1. ASSUME TypeInv, MeasurementInv PROVE PercentilesAreNearestRank
  <2>1. SUFFICES ASSUME bench.pc \in {"next", "report"},
                        NEW m \in {<<bench.last.completion, DOMAIN Samples>>,
                                   <<bench.last.success, Successes(Samples)>>}
                 PROVE  /\ m[1].samples = Cardinality(m[2])
                        /\ m[2] # {} =>
                              /\ IsPercentile(m[1].p50, 50, Samples, m[2])
                              /\ IsPercentile(m[1].p95, 95, Samples, m[2])
                              /\ IsPercentile(m[1].p99, 99, Samples, m[2])
    BY DEF PercentilesAreNearestRank
  <2>2. bench.last = Aggregate(Samples)
    BY <1>1, <2>1 DEF MeasurementInv
  <2>3. PICK samples : samples = Samples
    OBVIOUS
  <2>4. samples \in Seq(Sample) /\ \A x \in Sample : x.duration \in Nat
    BY <1>1, <2>3, SamplesOfAll, BenchmarkAssumption DEF TypeInv, Sample
  <2>5. Timed(samples, DOMAIN samples) /\ Timed(samples, Successes(samples))
    BY <2>4, AggregateIsRight
  <2>6. /\ bench.last.completion = LatencySummary(samples, DOMAIN samples)
        /\ bench.last.success = LatencySummary(samples, Successes(samples))
    BY <2>2, <2>3 DEF Aggregate
  <2>7. PICK s, I : s = m[1] /\ I = m[2]
    OBVIOUS
  <2>8. Timed(samples, I) /\ s = LatencySummary(samples, I)
    BY <2>1, <2>3, <2>5, <2>6, <2>7
  <2>9. QED
    BY <2>3, <2>7, <2>8, SummaryIsRight
<1>2. QED
  BY <1>1, MeasurementInvariance, PTL
-----------------------------------------------------------------------------
(* The calls of the plan that are made.                                    *)

\* How many calls of a kind every worker is asked for.
Full(f, kind) == IF kind = "warmup" THEN f.warmup ELSE f.calls

\* The calls that are asked for on t.
LEMMA AskedFields ==
    ASSUME NEW f, NEW t
    PROVE  /\ \A c \in Asked(f, t) :
                 /\ c.phase \in DOMAIN Plan(f) /\ Plan(f)[c.phase].tool = t
                 /\ c.kind \in {"warmup", "measured"}
                 /\ c.worker \in 1..Plan(f)[c.phase].concurrency
                 /\ c.call \in 0..(Full(f, c.kind) - 1)
                 /\ c = [phase |-> c.phase, kind |-> c.kind, worker |-> c.worker,
                         call |-> c.call]
           /\ \A i \in DOMAIN Plan(f), kind \in {"warmup", "measured"} :
                 \A w \in 1..Plan(f)[i].concurrency, k \in 0..(Full(f, kind) - 1) :
                    Plan(f)[i].tool = t =>
                       [phase |-> i, kind |-> kind, worker |-> w, call |-> k] \in Asked(f, t)
<1>1. PICK I : I = {i \in DOMAIN Plan(f) : Plan(f)[i].tool = t}
  OBVIOUS
<1>2. PICK W : W = PlannedCalls(f, I, "warmup", f.warmup)
  OBVIOUS
<1>3. PICK M : M = PlannedCalls(f, I, "measured", f.calls)
  OBVIOUS
<1>4. Asked(f, t) = W \cup M
  BY <1>1, <1>2, <1>3 DEF Asked
<1>5. Full(f, "warmup") = f.warmup /\ Full(f, "measured") = f.calls
  BY DEF Full
<1>6. /\ \A x \in W : /\ x.phase \in I /\ x.kind = "warmup"
                      /\ x.worker \in 1..Plan(f)[x.phase].concurrency
                      /\ x.call \in 0..(f.warmup - 1)
                      /\ x = [phase |-> x.phase, kind |-> "warmup", worker |-> x.worker,
                              call |-> x.call]
      /\ \A i \in I : \A w \in 1..Plan(f)[i].concurrency, k \in 0..(f.warmup - 1) :
            [phase |-> i, kind |-> "warmup", worker |-> w, call |-> k] \in W
  BY <1>2, PlannedCallFields
<1>7. /\ \A x \in M : /\ x.phase \in I /\ x.kind = "measured"
                      /\ x.worker \in 1..Plan(f)[x.phase].concurrency
                      /\ x.call \in 0..(f.calls - 1)
                      /\ x = [phase |-> x.phase, kind |-> "measured", worker |-> x.worker,
                              call |-> x.call]
      /\ \A i \in I : \A w \in 1..Plan(f)[i].concurrency, k \in 0..(f.calls - 1) :
            [phase |-> i, kind |-> "measured", worker |-> w, call |-> k] \in M
  BY <1>3, PlannedCallFields
<1>8. ASSUME NEW c \in W \cup M
      PROVE  /\ c.phase \in I /\ c.kind \in {"warmup", "measured"}
             /\ c.worker \in 1..Plan(f)[c.phase].concurrency
             /\ c.call \in 0..(Full(f, c.kind) - 1)
             /\ c = [phase |-> c.phase, kind |-> c.kind, worker |-> c.worker, call |-> c.call]
  <2>1. CASE c \in W
    BY <1>5, <1>6, <2>1, Zenon
  <2>2. CASE c \in M
    BY <1>5, <1>7, <2>2, Zenon
  <2>3. QED
    BY <2>1, <2>2
<1>9. ASSUME NEW i \in I, NEW kind \in {"warmup", "measured"},
             NEW w \in 1..Plan(f)[i].concurrency, NEW k \in 0..(Full(f, kind) - 1)
      PROVE  [phase |-> i, kind |-> kind, worker |-> w, call |-> k] \in W \cup M
  <2>1. CASE kind = "warmup"
    BY <1>5, <1>6, <2>1, Zenon
  <2>2. CASE kind = "measured"
    BY <1>5, <1>7, <2>2, Zenon
  <2>3. QED
    BY <2>1, <2>2
<1>10. /\ \A c \in Asked(f, t) : c \in W \cup M
       /\ \A i \in DOMAIN Plan(f) : Plan(f)[i].tool = t <=> i \in I
       /\ I \subseteq DOMAIN Plan(f)
  BY <1>1, <1>4
<1>11. QED
  BY <1>4, <1>8, <1>9, <1>10, Zenon

\* The calls made at two points of a plan are the same if every worker has made as
\* many of each kind.
LEMMA MadeSame ==
    ASSUME NEW f, NEW t, NEW b, NEW d, NEW n, NEW m, d.phase = b.phase,
           \A c \in Asked(f, t) : c.phase = b.phase =>
              (c.call < Quota(f, b.pc, c.kind, n[c.worker])
               <=> c.call < Quota(f, d.pc, c.kind, m[c.worker]))
    PROVE  Made(f, d, t, m) = Made(f, b, t, n)
BY DEF Made

\* At the point b of the plan of f worker w makes the next of the calls it is asked
\* for: n becomes m.
CallMore(f, b, w, n, m) ==
    /\ f.warmup \in Int /\ f.calls \in Int /\ b.phase \in DOMAIN Plan(f)
    /\ b.pc \in {"warmup", "measured"}
    /\ w \in 1..Plan(f)[b.phase].concurrency
    /\ n[w] \in Nat /\ n[w] < Full(f, b.pc) /\ m[w] = n[w] + 1
    /\ \A v \in 1..Plan(f)[b.phase].concurrency : v # w => m[v] = n[v]

\* One call more of one worker is one call more on the tool of the phase.
LEMMA MadeOneMore ==
    ASSUME NEW f, NEW b, NEW w, NEW n, NEW m, CallMore(f, b, w, n, m), NEW t
    PROVE  /\ Plan(f)[b.phase].tool # t => Made(f, b, t, m) = Made(f, b, t, n)
           /\ Plan(f)[b.phase].tool = t =>
                 \E c : Made(f, b, t, m) = Made(f, b, t, n) \cup {c} /\ c \notin Made(f, b, t, n)
<1> USE DEF CallMore
<1>0. PICK c : c = [phase |-> b.phase, kind |-> b.pc, worker |-> w, call |-> n[w]]
  OBVIOUS
<1>1. PICK A : A = Asked(f, t)
  OBVIOUS
<1>2. ASSUME NEW x \in A
      PROVE  /\ x.phase \in DOMAIN Plan(f) /\ Plan(f)[x.phase].tool = t
             /\ x.kind \in {"warmup", "measured"}
             /\ x.worker \in 1..Plan(f)[x.phase].concurrency
             /\ x.call \in Int
             /\ x = [phase |-> x.phase, kind |-> x.kind, worker |-> x.worker, call |-> x.call]
  BY <1>1, <1>2, AskedFields
<1>3. ASSUME NEW x \in A, x.phase = b.phase, ~(x.kind = b.pc /\ x.worker = w)
      PROVE  Quota(f, b.pc, x.kind, m[x.worker]) = Quota(f, b.pc, x.kind, n[x.worker])
  <2>1. CASE x.kind # b.pc
    BY <2>1 DEF Quota
  <2>2. CASE x.worker # w
    <3>1. x.worker \in 1..Plan(f)[b.phase].concurrency
      BY <1>2, <1>3
    <3>2. m[x.worker] = n[x.worker]
      BY <2>2, <3>1
    <3>3. QED
      BY <3>2
  <2>3. QED
    BY <1>3, <2>1, <2>2
<1>4. ASSUME NEW x \in A, x.phase = b.phase, x.kind = b.pc, x.worker = w
      PROVE  /\ Quota(f, b.pc, x.kind, m[x.worker]) = n[w] + 1
             /\ Quota(f, b.pc, x.kind, n[x.worker]) = n[w]
             /\ x.call = n[w] <=> x = c
             /\ x.call \in Int
  <2>1. /\ Quota(f, b.pc, x.kind, m[x.worker]) = n[w] + 1
        /\ Quota(f, b.pc, x.kind, n[x.worker]) = n[w]
    BY <1>4 DEF Quota
  <2>2. x = [phase |-> x.phase, kind |-> x.kind, worker |-> x.worker, call |-> x.call]
        /\ x.call \in Int
    BY <1>2, <1>4
  <2>3. c.call = n[w]
    BY <1>0
  <2>4. x.call = n[w] <=> x = c
    BY <1>0, <1>4, <2>2, <2>3
  <2>5. QED
    BY <2>1, <2>2, <2>4
<1>5. c.phase = b.phase /\ c.kind = b.pc /\ c.worker = w /\ c.call = n[w]
  BY <1>0
<1>6. Made(f, b, t, n) \subseteq A /\ Made(f, b, t, m) \subseteq A
  BY <1>1 DEF Made
<1>7. ASSUME NEW x \in A
      PROVE  x \in Made(f, b, t, m) <=> x \in Made(f, b, t, n) \/ x = c
  <2>1. CASE x.phase # b.phase
    BY <1>1, <1>5, <2>1 DEF Made
  <2>2. CASE x.phase = b.phase /\ ~(x.kind = b.pc /\ x.worker = w)
    BY <1>1, <1>3, <1>5, <2>2 DEF Made
  <2>3. CASE x.phase = b.phase /\ x.kind = b.pc /\ x.worker = w
    <3>1. PICK k \in Nat : k = n[w]
      OBVIOUS
    <3>2. PICK q, r : q = Quota(f, b.pc, x.kind, m[x.worker])
                      /\ r = Quota(f, b.pc, x.kind, n[x.worker])
      OBVIOUS
    <3>3. q = k + 1 /\ r = k /\ (x.call = k <=> x = c) /\ x.call \in Int
      BY <1>4, <2>3, <3>1, <3>2
    <3>4. x.call < q <=> x.call < r \/ x = c
      BY <3>3
    <3>5. b.phase < b.phase => FALSE
      BY <1>2, <2>3 DEF Plan
    <3>6. QED
      BY <1>1, <2>3, <3>2, <3>4, <3>5 DEF Made
  <2>4. QED
    BY <2>1, <2>2, <2>3
<1>8. Plan(f)[b.phase].tool = t => c \in A
  <2>1. n[w] \in 0..(Full(f, b.pc) - 1)
    BY DEF Full
  <2>2. QED
    BY <1>0, <1>1, <2>1, AskedFields
<1>9. c \notin Made(f, b, t, n)
  <2>1. b.phase \in Int
    BY DEF Plan
  <2>2. ~(c.phase < b.phase)
    BY <1>5, <2>1
  <2>3. Quota(f, b.pc, c.kind, n[c.worker]) = n[w]
    BY <1>5 DEF Quota
  <2>4. QED
    BY <1>5, <2>2, <2>3 DEF Made
<1>10. Plan(f)[b.phase].tool # t => c \notin A
  BY <1>2, <1>5
<1>11. QED
  BY <1>6, <1>7, <1>8, <1>9, <1>10
-----------------------------------------------------------------------------
(* The rounds of the workers.                                              *)

\* The variables of the rounds are left alone, the deadline apart.
LEMMA RoundSame ==
    ASSUME RoundInv, UNCHANGED <<config, bench, worker>>, expired => expired'
    PROVE  RoundInv'
BY DEF RoundInv, Settled, Phase, Measure, Good

\* A worker moves.
LEMMA RoundMove ==
    ASSUME RoundInv, NEW w \in DOMAIN worker, NEW y, Set(w, y),
           UNCHANGED <<config, bench, expired>>, bench.pc # "aggregate",
           y.pc \in Calling => y.call < Measure(bench.pc),
           bench.pc \in {"warmup", "measured"} /\ y.pc = "done" /\ ~expired =>
              y.call = Measure(bench.pc)
    PROVE  RoundInv'
<1>1. /\ DOMAIN worker' = DOMAIN worker /\ worker'[w] = y
      /\ \A v \in DOMAIN worker \ {w} : worker'[v] = worker[v]
  BY DEF Set
<1>2. Phase' = Phase /\ Settled' = Settled
  BY DEF Phase, Settled
<1>3. Measure(bench.pc)' = Measure(bench.pc)
  BY DEF Measure
<1>4. /\ ~Settled' => DOMAIN worker' = 1..Phase'.concurrency
      /\ bench'.pc = "normalize" => bench'.phase = 0
  BY <1>1, <1>2 DEF RoundInv
<1>5. ASSUME NEW v \in DOMAIN worker
      PROVE  /\ worker'[v].pc \in Calling => worker'[v].call < Measure(bench.pc)
             /\ bench.pc \in {"warmup", "measured"} /\ worker'[v].pc = "done" /\ ~expired =>
                   worker'[v].call = Measure(bench.pc)
  BY <1>1 DEF RoundInv
<1>6. QED
  BY <1>1, <1>3, <1>4, <1>5 DEF RoundInv

\* The goroutine of a worker, and what answers it.
LEMMA RoundWorker ==
    ASSUME TypeInv, CallInv, RoundInv, NEW w \in DOMAIN worker, UNCHANGED client,
           WorkerStep(w) \/ Accept(w) \/ Reject(w) \/ Break(w) \/ Receive(w)
    PROVE  RoundInv'
<1>1. BenchTypeInv /\ worker[w] \in Worker /\ OwnInv
  BY WorkerHasPhase DEF TypeInv, CallInv
<1>2. UNCHANGED <<config, bench, expired>>
  BY DEF WorkerStep, Setup, StartCall, StopCalls, GiveUp, FinishCall, CloseSession, Accept,
     Reject, Break, Receive
<1>3. bench.pc # "aggregate"
  BY <1>1, WorkersAct
<1>4. worker[w].pc \in Calling => worker[w].call < Measure(bench.pc)
  BY DEF RoundInv
<1>5. CASE Setup(w) \/ StopCalls(w) \/ CloseSession(w)
  <2>1. PICK y \in Worker : Set(w, y) /\ EndsRound(worker[w], y)
    BY <1>1, <1>5, SetupEffect
  <2>2. y.pc = "done" /\ y.call = worker[w].call
    BY <2>1 DEF EndsRound, SameCall
  <2>3. bench.pc \in {"warmup", "measured"} /\ ~expired => worker[w].call = Measure(bench.pc)
    BY <1>5 DEF Setup, StopCalls, CloseSession
  <2>4. QED
    BY <1>2, <1>3, <2>1, <2>2, <2>3, RoundMove DEF Calling
<1>6. CASE StartCall(w)
  <2>1. PICK y \in Worker : Set(w, y) /\ StartsCall(w, worker[w], y)
    BY <1>1, <1>6, StartEffect
  <2>2. y.pc = "calling" /\ y.call = worker[w].call
    BY <2>1 DEF StartsCall
  <2>3. worker[w].call < Measure(bench.pc)
    BY <1>6 DEF StartCall
  <2>4. QED
    BY <1>2, <1>3, <2>1, <2>2, <2>3, RoundMove
<1>7. CASE Accept(w)
  <2>1. PICK y \in Worker : Set(w, y) /\ IsAccepted(worker[w], y)
    BY <1>1, <1>7, AcceptEffect
  <2>2. y.pc = "calling" /\ worker[w].pc = "calling" /\ y.call = worker[w].call
    BY <2>1 DEF IsAccepted, SameCall
  <2>3. worker[w].call < Measure(bench.pc)
    BY <1>4, <2>2 DEF Calling
  <2>4. QED
    BY <1>2, <1>3, <2>1, <2>2, <2>3, RoundMove
<1>8. CASE GiveUp(w) \/ Reject(w) \/ Break(w) \/ Receive(w)
  <2>1. PICK y \in Worker : Set(w, y) /\ Returns(worker[w], y)
    BY <1>1, <1>8, ReturnEffect
  <2>2. y.pc = "returned" /\ worker[w].pc = "calling" /\ y.call = worker[w].call
    BY <2>1 DEF Returns, SameCall
  <2>3. worker[w].call < Measure(bench.pc)
    BY <1>4, <2>2 DEF Calling
  <2>4. QED
    BY <1>2, <1>3, <2>1, <2>2, <2>3, RoundMove
<1>9. CASE FinishCall(w)
  <2>1. PICK y \in Worker : Set(w, y) /\ FinishesCall(worker[w], y)
    BY <1>1, <1>9, FinishEffect
  <2>2. y.pc = "ready"
    BY <2>1 DEF FinishesCall
  <2>3. QED
    BY <1>2, <1>3, <2>1, <2>2, RoundMove DEF Calling
<1>10. QED
  BY <1>5, <1>6, <1>7, <1>8, <1>9 DEF WorkerStep

\* A callback.
LEMMA RoundProgress ==
    ASSUME TypeInv, CallInv, RoundInv, NEW c \in DOMAIN progress, Progress(c), UNCHANGED client
    PROVE  RoundInv'
<1>1. BenchTypeInv /\ OwnInv
  BY DEF TypeInv, CallInv
<1>2. UNCHANGED <<config, bench, expired>>
  BY DEF Progress
<1>3. CASE worker' = worker
  BY <1>2, <1>3, RoundSame
<1>4. CASE worker' # worker
  <2>1. PICK w \in DOMAIN worker : w = c.worker /\ worker[w].token = Token(c)
    BY <1>1, <1>4, ProgressEffect
  <2>2. PICK y \in Worker : Set(w, y) /\ Counts(worker[w], y, c = CallOf(w))
    BY <1>1, <1>4, <2>1, ProgressEffect
  <2>3. y.pc = worker[w].pc /\ y.call = worker[w].call
    BY <2>2 DEF Counts
  <2>4. bench.pc # "aggregate"
    BY <1>4, CallbackActs
  <2>5. /\ worker[w].pc \in Calling => worker[w].call < Measure(bench.pc)
        /\ bench.pc \in {"warmup", "measured"} /\ worker[w].pc = "done" /\ ~expired =>
              worker[w].call = Measure(bench.pc)
    BY DEF RoundInv
  <2>6. QED
    BY <1>2, <2>2, <2>3, <2>4, <2>5, RoundMove
<1>5. QED
  BY <1>3, <1>4

\* The workers of a new phase.
LEMMA RoundStarts ==
    ASSUME BenchTypeInv, Sound(config), NEW i \in 1..Len(Plan(config)), StartPhase(i),
           config' = config
    PROVE  /\ RoundInv' /\ bench'.pc = "setup" /\ bench'.phase = i
           /\ bench'.successful = bench.successful
           /\ DOMAIN worker' = 1..Plan(config)[i].concurrency
           /\ \A w \in DOMAIN worker' : worker'[w] = NewWorker
<1>1. bench'.pc = "setup" /\ bench'.phase = i /\ bench'.successful = bench.successful
  BY DEF StartPhase, BenchTypeInv, Bench
<1>2. PICK n : n = Plan(config)[i].concurrency
  OBVIOUS
<1>3. worker' = NewWorkers(n)
  BY <1>2 DEF StartPhase
<1>4. DOMAIN worker' = 1..n /\ \A w \in 1..n : worker'[w] = NewWorker
  BY <1>3 DEF NewWorkers
<1>5. Phase'.concurrency = n
  BY <1>1, <1>2 DEF Phase
<1>6. \A w \in DOMAIN worker' : worker'[w].pc = "ready"
  BY <1>4, NewWorkerFields
<1>7. RoundInv'
  BY <1>1, <1>4, <1>5, <1>6 DEF RoundInv, Calling
<1>8. QED
  BY <1>1, <1>2, <1>4, <1>7

\* What wg.Wait at the end of a round means for the workers.
LEMMA RoundEnds ==
    ASSUME BenchTypeInv, EndRound
    PROVE  /\ bench'.pc = After(bench.pc) /\ bench'.phase = bench.phase
           /\ bench'.successful = bench.successful
           /\ bench'.failed =
                 (bench.failed \/ \E w \in DOMAIN worker : worker[w].failed)
           /\ bench.pc \in {"setup", "warmup", "measured", "close"}
           /\ DOMAIN worker' = DOMAIN worker
           /\ \A w \in DOMAIN worker :
                 /\ worker[w].pc = "done"
                 /\ worker'[w].pc = "ready" /\ worker'[w].call = 0 /\ ~worker'[w].failed
                 /\ worker'[w].samples = worker[w].samples
<1>1. /\ bench'.pc = After(bench.pc) /\ bench'.phase = bench.phase
      /\ bench'.successful = bench.successful
      /\ bench'.failed = (bench.failed \/ \E w \in DOMAIN worker : worker[w].failed)
      /\ bench.pc \in {"setup", "warmup", "measured", "close"}
  <2>1. PICK f : f = (bench.failed \/ \E w \in DOMAIN worker : worker[w].failed)
    OBVIOUS
  <2>2. PICK r : r = After(bench.pc)
    OBVIOUS
  <2>3. bench' = [bench EXCEPT !.pc = r, !.failed = f]
    BY <2>1, <2>2 DEF EndRound, BenchTypeInv, Bench
  <2>4. /\ bench'.pc = r /\ bench'.phase = bench.phase
        /\ bench'.successful = bench.successful /\ bench'.failed = f
    BY <2>3 DEF BenchTypeInv, Bench
  <2>5. QED
    BY <2>1, <2>2, <2>4 DEF EndRound
<1>2. DOMAIN worker' = DOMAIN worker
  BY DEF EndRound
<1>3. ASSUME NEW w \in DOMAIN worker
      PROVE  /\ worker[w].pc = "done"
             /\ worker'[w].pc = "ready" /\ worker'[w].call = 0 /\ ~worker'[w].failed
             /\ worker'[w].samples = worker[w].samples
  <2>1. worker[w].pc = "done" /\ worker[w] \in Worker
    BY DEF EndRound, BenchTypeInv
  <2>2. worker'[w] = [worker[w] EXCEPT !.pc = "ready", !.call = 0, !.failed = FALSE]
    BY DEF EndRound
  <2>3. QED
    BY <2>1, <2>2 DEF Worker
<1>4. QED
  BY <1>1, <1>2, <1>3

\* The main goroutine.
LEMMA RoundMain ==
    ASSUME TypeInv, CallInv, RoundInv, MainStep, UNCHANGED client
    PROVE  RoundInv'
<1>1. BenchTypeInv /\ OwnInv /\ PhaseInv /\ Bench(bench)
  BY DEF TypeInv, BenchTypeInv, CallInv
<1>2. config' = config
  BY DEF MainStep, Begin, EndRound, EndPhase, NextPhase, Report
<1>3. CASE Begin
  <2>1. CASE Accepts(config)
    <3>1. Sound(config) /\ StartPhase(1)
      BY <1>1, <1>3, <2>1, AcceptedIsSound DEF Begin, BenchTypeInv
    <3>2. 1 \in 1..Len(Plan(config))
      BY <3>1 DEF Sound
    <3>3. QED
      BY <1>1, <1>2, <3>1, <3>2, RoundStarts
  <2>2. CASE ~Accepts(config)
    BY <1>2, <1>3, <2>2, RoundSame DEF Begin
  <2>3. QED
    BY <2>1, <2>2
<1>4. CASE EndRound
  <2>1. /\ bench'.pc = After(bench.pc) /\ bench'.phase = bench.phase
        /\ bench.pc \in {"setup", "warmup", "measured", "close"}
        /\ DOMAIN worker' = DOMAIN worker
        /\ \A w \in DOMAIN worker : worker'[w].pc = "ready" /\ ~worker'[w].failed
    BY <1>1, <1>4, RoundEnds
  <2>2. DOMAIN worker = 1..Phase.concurrency
    BY <2>1 DEF RoundInv, Settled
  <2>3. Phase' = Phase
    BY <1>2, <2>1 DEF Phase
  <2>4. bench'.pc # "normalize"
    BY <2>1, AfterType
  <2>5. QED
    BY <2>1, <2>2, <2>3, <2>4 DEF RoundInv, Calling
<1>5. CASE EndPhase
  <2>1. bench'.pc \in {"next", "report"} /\ worker' = worker /\ bench.pc = "aggregate"
    BY <1>1, <1>5 DEF EndPhase, Bench
  <2>2. \A w \in DOMAIN worker : worker[w].pc \notin Calling
    BY <1>1, <2>1, NobodyCalls
  <2>3. QED
    BY <2>1, <2>2 DEF RoundInv, Settled
<1>6. CASE NextPhase
  <2>1. Sound(config) /\ bench.phase \in 1..Len(Plan(config)) /\ bench.phase < Len(Plan(config))
    BY <1>1, <1>6 DEF NextPhase, PhaseInv
  <2>2. bench.phase + 1 \in 1..Len(Plan(config)) /\ StartPhase(bench.phase + 1)
    BY <1>6, <2>1 DEF NextPhase, Sound
  <2>3. QED
    BY <1>1, <1>2, <2>1, <2>2, RoundStarts
<1>7. CASE Report
  <2>1. bench'.pc = "report" /\ worker' = worker /\ bench.pc = "report"
    BY <1>1, <1>7 DEF Report, Bench
  <2>2. \A w \in DOMAIN worker : worker[w].pc \notin Calling
    BY <1>1, <2>1, NobodyCalls
  <2>3. QED
    BY <2>1, <2>2 DEF RoundInv, Settled
<1>8. QED
  BY <1>3, <1>4, <1>5, <1>6, <1>7 DEF MainStep

\* The steps that are not the benchmark's.
LEMMA ExpiredStays ==
    ASSUME ClientStep \/ Done \/ RunAccepted \/ RunReceives \/ RunCloses \/ Expire
           \/ \E c \in DOMAIN exec : BackendStep(c) /\ UNCHANGED benchmarkVars
    PROVE  expired => expired'
BY DEF ClientStep, Fatal, Resolve, Dial, Judge, Get, Tick, Connect, ListTools, RunGivesUp, Done,
   RunAccepted, RunReceives, RunCloses, Kept, Expire, benchmarkVars

\* Every step.
LEMMA RoundStep ==
    ASSUME TypeInv, CallInv, RoundInv, [DemoNext]_demoVars
    PROVE  RoundInv'
<1>1. CASE UNCHANGED demoVars
  BY <1>1, RoundSame DEF demoVars, benchmarkVars
<1>2. CASE ClientStep \/ Done \/ RunAccepted \/ RunReceives \/ RunCloses \/ Expire
           \/ \E c \in DOMAIN exec : BackendStep(c) /\ UNCHANGED benchmarkVars
  BY <1>2, BenchIsKept, ExpiredStays, RoundSame
<1>3. CASE DemoNext
  BY <1>2, <1>3, RoundWorker, RoundProgress, RoundMain DEF DemoNext, Outside, BenchmarkMode
<1>4. QED
  BY <1>1, <1>3
-----------------------------------------------------------------------------
(* The counts of the benchmark.                                            *)

\* The counts stand while the calls made do.
LEMMA ExactKept ==
    ASSUME Exact, UNCHANGED <<config, tally>>,
           \A t \in Tools : /\ Made(config, bench', t, Begun') = Made(config, bench, t, Begun)
                            /\ Made(config, bench', t, Ended') = Made(config, bench, t, Ended)
    PROVE  Exact'
BY DEF Exact

\* Nothing that is counted moves.
LEMMA ExactSame ==
    ASSUME Exact, UNCHANGED <<config, bench, worker, tally>>
    PROVE  Exact'
<1>1. Begun' = Begun /\ Ended' = Ended
  BY DEF Begun, Ended
<1>2. QED
  BY <1>1, ExactKept

\* A worker that neither starts nor finishes a call.
LEMMA ExactMove ==
    ASSUME Exact, NEW w \in DOMAIN worker, NEW y, Set(w, y), UNCHANGED <<config, bench, tally>>,
           y.call = worker[w].call, y.pc \in Calling <=> worker[w].pc \in Calling
    PROVE  Exact'
<1>1. /\ DOMAIN worker' = DOMAIN worker /\ worker'[w] = y
      /\ \A v \in DOMAIN worker \ {w} : worker'[v] = worker[v]
  BY DEF Set
<1>2. \A v \in DOMAIN worker : /\ worker'[v].call = worker[v].call
                               /\ worker'[v].pc \in Calling <=> worker[v].pc \in Calling
  BY <1>1
<1>3. Begun' = Begun
  BY <1>1, <1>2 DEF Begun
<1>4. Ended' = Ended
  BY <1>1, <1>2 DEF Ended
<1>5. QED
  BY <1>3, <1>4, ExactKept

\* What is known of the phase under way and of a worker in it.
LEMMA UnderWay ==
    ASSUME BenchTypeInv, RoundInv, ~Settled, NEW w \in DOMAIN worker
    PROVE  /\ config.warmup \in Int /\ config.calls \in Int
           /\ bench.phase \in DOMAIN Plan(config) /\ Phase = Plan(config)[bench.phase]
           /\ DOMAIN worker = 1..Plan(config)[bench.phase].concurrency
           /\ worker[w].call \in Nat /\ Phase.tool \in Tools
           /\ \A kind \in {"warmup", "measured"} : Measure(kind) = Full(config, kind)
<1>1. config.warmup \in Int /\ config.calls \in Int
  BY DEF BenchTypeInv, Config
<1>2. bench.phase \in DOMAIN Plan(config) /\ Phase.tool \in Tools
  BY WorkerHasPhase DEF Sound
<1>3. Phase = Plan(config)[bench.phase]
  BY DEF Phase
<1>4. DOMAIN worker = 1..Plan(config)[bench.phase].concurrency
  BY <1>3 DEF RoundInv
<1>5. worker[w].call \in Nat
  BY DEF BenchTypeInv, Worker
<1>6. \A kind \in {"warmup", "measured"} : Measure(kind) = Full(config, kind)
  BY DEF Measure, Full
<1>7. QED
  BY <1>1, <1>2, <1>3, <1>4, <1>5, <1>6

\* A worker makes one call more, of those it is asked for.
LEMMA OneCallMore ==
    ASSUME BenchTypeInv, RoundInv, NEW w \in DOMAIN worker,
           bench.pc \in {"warmup", "measured"}, worker[w].call < Measure(bench.pc),
           NEW n, NEW m, n[w] = worker[w].call, m[w] = worker[w].call + 1,
           \A v \in DOMAIN worker : v # w => m[v] = n[v]
    PROVE  CallMore(config, bench, w, n, m)
<1>1. /\ config.warmup \in Int /\ config.calls \in Int
      /\ bench.phase \in DOMAIN Plan(config)
      /\ DOMAIN worker = 1..Plan(config)[bench.phase].concurrency
      /\ worker[w].call \in Nat /\ Measure(bench.pc) = Full(config, bench.pc)
  BY UnderWay DEF Settled
<1>2. QED
  BY <1>1 DEF CallMore

\* One element more is one call more.
LEMMA CountOneMore ==
    ASSUME NEW S, IsFiniteSet(S), NEW T, \E c : c \notin S /\ T = S \cup {c}
    PROVE  IsFiniteSet(T) /\ Cardinality(T) = Cardinality(S) + 1
BY FS_AddElement

\* A call that is started is counted as started.
LEMMA ExactStart ==
    ASSUME BenchTypeInv, RoundInv, Exact, NEW w \in DOMAIN worker, StartCall(w)
    PROVE  Exact'
<1>1. PICK y \in Worker : Set(w, y) /\ StartsCall(w, worker[w], y)
  BY StartEffect
<1>2. /\ worker[w].pc = "ready" /\ y.pc = "calling" /\ y.call = worker[w].call
  BY <1>1 DEF StartsCall
<1>3. /\ DOMAIN worker' = DOMAIN worker /\ worker'[w] = y
      /\ \A v \in DOMAIN worker \ {w} : worker'[v] = worker[v]
  BY <1>1 DEF Set
<1>4. UNCHANGED <<config, bench>> /\ bench.pc \in {"warmup", "measured"}
      /\ worker[w].call < Measure(bench.pc)
      /\ tally' = [tally EXCEPT ![Phase.tool].started = @ + 1]
  BY DEF StartCall
<1>5. Phase.tool \in Tools /\ tally \in [Tools -> [started : Nat, succeeded : Nat]]
  BY WorkerHasPhase DEF BenchTypeInv
<1>6. Ended' = Ended
  <2>1. \A v \in DOMAIN worker : worker'[v].call = worker[v].call
    BY <1>2, <1>3
  <2>2. QED
    BY <1>3, <2>1 DEF Ended
<1>7. /\ Begun[w] = worker[w].call /\ Begun'[w] = Begun[w] + 1
      /\ \A v \in DOMAIN worker : v # w => Begun'[v] = Begun[v]
  BY <1>2, <1>3 DEF Begun, Calling
<1>8. PICK n, m : n = Begun /\ m = Begun'
  OBVIOUS
<1>9. ASSUME NEW t \in Tools
      PROVE  /\ Phase.tool # t => Made(config, bench, t, m) = Made(config, bench, t, n)
             /\ Phase.tool = t =>
                   \E c : /\ c \notin Made(config, bench, t, n)
                          /\ Made(config, bench, t, m) = Made(config, bench, t, n) \cup {c}
  <2>1. CallMore(config, bench, w, n, m)
    <3>1. /\ n[w] = worker[w].call /\ m[w] = worker[w].call + 1
          /\ \A v \in DOMAIN worker : v # w => m[v] = n[v]
      BY <1>7, <1>8
    <3>2. QED
      BY <1>4, <3>1, OneCallMore
  <2>2. QED
    BY <2>1, MadeOneMore, SMTT(30) DEF Phase
<1>10. ASSUME NEW t \in Tools
       PROVE  /\ IsFiniteSet(Made(config, bench, t, m))
              /\ tally'[t].started = Cardinality(Made(config, bench, t, m))
              /\ tally'[t].succeeded = tally[t].succeeded
  <2>1. /\ IsFiniteSet(Made(config, bench, t, n))
        /\ tally[t].started = Cardinality(Made(config, bench, t, n))
    BY <1>8 DEF Exact
  <2>2. CASE Phase.tool # t
    <3>1. tally'[t] = tally[t]
      BY <1>4, <1>5, <2>2
    <3>2. QED
      BY <1>9, <2>1, <2>2, <3>1
  <2>3. CASE Phase.tool = t
    <3>1. tally'[t].started = tally[t].started + 1 /\ tally'[t].succeeded = tally[t].succeeded
      BY <1>4, <1>5, <2>3
    <3>2. /\ IsFiniteSet(Made(config, bench, t, m))
          /\ Cardinality(Made(config, bench, t, m)) = Cardinality(Made(config, bench, t, n)) + 1
      BY <1>9, <2>1, <2>3, CountOneMore
    <3>3. QED
      BY <2>1, <3>1, <3>2
  <2>4. QED
    BY <2>2, <2>3
<1>11. QED
  BY <1>4, <1>6, <1>8, <1>10 DEF Exact

\* A worker that is still good after a call was good before, and the call succeeded.
LEMMA FinishGood ==
    ASSUME BenchTypeInv, NEW w \in DOMAIN worker, FinishCall(w), Good(worker'[w])
    PROVE  /\ Good(worker[w])
           /\ tally' = [tally EXCEPT ![Phase.tool].succeeded = @ + 1]
<1>1. worker[w] \in Worker
  BY WorkerHasPhase
<1>2. PICK d \in CallTimes, buffered \in BOOLEAN :
         /\ Set(w, [worker[w] EXCEPT
                    !.pc = "ready", !.call = @ + 1, !.token = NoToken, !.error = "",
                    !.failed = @ \/ (bench.pc = "warmup"
                                     /\ Category(worker[w], buffered) # ""),
                    !.samples = IF bench.pc = "warmup" THEN @
                                ELSE Append(@, [category |-> Category(worker[w], buffered),
                                                duration |-> d])])
         /\ tally' = [tally EXCEPT ![Phase.tool].succeeded =
                         IF Category(worker[w], buffered) = "" THEN @ + 1 ELSE @]
  BY DEF FinishCall
<1>3. PICK v : v = Category(worker[w], buffered)
  OBVIOUS
<1>4. PICK f : f = (worker[w].failed \/ (bench.pc = "warmup" /\ v # ""))
  OBVIOUS
<1>5. PICK s : s = IF bench.pc = "warmup" THEN worker[w].samples
                   ELSE Append(worker[w].samples, [category |-> v, duration |-> d])
  OBVIOUS
<1>6. Set(w, [worker[w] EXCEPT !.pc = "ready", !.call = @ + 1, !.token = NoToken,
                 !.error = "", !.failed = f, !.samples = s])
  BY <1>2, <1>3, <1>4, <1>5
<1>7. worker'[w] = [worker[w] EXCEPT !.pc = "ready", !.call = @ + 1, !.token = NoToken,
                       !.error = "", !.failed = f, !.samples = s]
  BY <1>6 DEF Set
<1>8. worker'[w].failed = f /\ worker'[w].samples = s
  BY <1>1, <1>7 DEF Worker
<1>9. ~f /\ \A i \in DOMAIN s : s[i].category = ""
  BY <1>8 DEF Good
<1>10. v = "" /\ \A i \in DOMAIN worker[w].samples : worker[w].samples[i].category = ""
  <2>1. CASE bench.pc = "warmup"
    BY <1>4, <1>5, <1>9, <2>1
  <2>2. CASE bench.pc # "warmup"
    <3>1. PICK x \in Seq(Sample) : x = worker[w].samples
      BY <1>1 DEF Worker
    <3>2. PICK e : e = [category |-> v, duration |-> d]
      OBVIOUS
    <3>3. s = Append(x, e)
      BY <1>5, <2>2, <3>1, <3>2
    <3>4. /\ DOMAIN s = 1..(Len(x) + 1) /\ Len(x) \in Nat /\ DOMAIN x = 1..Len(x)
          /\ s[Len(x) + 1] = e /\ \A i \in 1..Len(x) : s[i] = x[i]
      BY <3>1, <3>3
    <3>5. e.category = v
      BY <3>2
    <3>6. v = ""
      <4>1. Len(x) + 1 \in DOMAIN s
        BY <3>4
      <4>2. QED
        BY <1>9, <3>4, <3>5, <4>1
    <3>7. \A i \in DOMAIN x : x[i].category = ""
      <4>1. \A i \in DOMAIN x : i \in DOMAIN s /\ s[i] = x[i]
        BY <3>4
      <4>2. QED
        BY <1>9, <4>1
    <3>8. QED
      BY <3>1, <3>6, <3>7
  <2>3. QED
    BY <2>1, <2>2
<1>11. tally' = [tally EXCEPT ![Phase.tool].succeeded = @ + 1]
  BY <1>2, <1>3, <1>10
<1>12. QED
  BY <1>4, <1>9, <1>10, <1>11 DEF Good

\* A call that succeeded is counted as a success.
LEMMA ExactFinish ==
    ASSUME BenchTypeInv, OwnInv, RoundInv, Exact, NEW w \in DOMAIN worker, FinishCall(w),
           tally' = [tally EXCEPT ![Phase.tool].succeeded = @ + 1]
    PROVE  Exact'
<1>1. PICK y \in Worker : Set(w, y) /\ FinishesCall(worker[w], y)
  BY FinishEffect
<1>2. /\ worker[w].pc = "returned" /\ y.pc = "ready" /\ y.call = worker[w].call + 1
  BY <1>1 DEF FinishesCall
<1>3. /\ DOMAIN worker' = DOMAIN worker /\ worker'[w] = y
      /\ \A v \in DOMAIN worker \ {w} : worker'[v] = worker[v]
  BY <1>1 DEF Set
<1>4. UNCHANGED <<config, bench>>
  BY DEF FinishCall
<1>5. bench.pc \in {"warmup", "measured"} /\ worker[w].call < Measure(bench.pc)
  BY <1>2 DEF OwnInv, OwnWorker, RoundInv, Calling
<1>6. Phase.tool \in Tools /\ tally \in [Tools -> [started : Nat, succeeded : Nat]]
  BY WorkerHasPhase DEF BenchTypeInv
<1>7. Begun' = Begun
  <2>1. PICK new : new = [v \in DOMAIN worker |->
                      IF worker'[v].pc \in Calling THEN worker'[v].call + 1 ELSE worker'[v].call]
    OBVIOUS
  <2>2. Begun' = new
    BY <1>3, <2>1 DEF Begun
  <2>3. ASSUME NEW v \in DOMAIN worker PROVE new[v] = Begun[v]
    <3>1. CASE v = w
      BY <1>2, <1>3, <2>1, <3>1 DEF Begun, Calling
    <3>2. CASE v # w
      BY <1>3, <2>1, <3>2 DEF Begun
    <3>3. QED
      BY <3>1, <3>2
  <2>4. QED
    BY <2>1, <2>2, <2>3 DEF Begun
<1>8. /\ Ended[w] = worker[w].call /\ Ended'[w] = Ended[w] + 1
      /\ \A v \in DOMAIN worker : v # w => Ended'[v] = Ended[v]
  BY <1>2, <1>3 DEF Ended
<1>9. PICK n, m : n = Ended /\ m = Ended'
  OBVIOUS
<1>10. ASSUME NEW t \in Tools
       PROVE  /\ Phase.tool # t => Made(config, bench, t, m) = Made(config, bench, t, n)
              /\ Phase.tool = t =>
                    \E c : /\ c \notin Made(config, bench, t, n)
                           /\ Made(config, bench, t, m) = Made(config, bench, t, n) \cup {c}
  <2>1. CallMore(config, bench, w, n, m)
    <3>1. /\ n[w] = worker[w].call /\ m[w] = worker[w].call + 1
          /\ \A v \in DOMAIN worker : v # w => m[v] = n[v]
      BY <1>8, <1>9
    <3>2. QED
      BY <1>5, <3>1, OneCallMore
  <2>2. QED
    BY <2>1, MadeOneMore DEF Phase
<1>11. ASSUME NEW t \in Tools
       PROVE  /\ IsFiniteSet(Made(config, bench, t, m))
              /\ tally'[t].succeeded = Cardinality(Made(config, bench, t, m))
              /\ tally'[t].started = tally[t].started
  <2>1. /\ IsFiniteSet(Made(config, bench, t, n))
        /\ tally[t].succeeded = Cardinality(Made(config, bench, t, n))
    BY <1>9 DEF Exact
  <2>2. CASE Phase.tool # t
    <3>1. tally'[t] = tally[t]
      BY <1>6, <2>2
    <3>2. QED
      BY <1>10, <2>1, <2>2, <3>1
  <2>3. CASE Phase.tool = t
    <3>1. tally'[t].succeeded = tally[t].succeeded + 1 /\ tally'[t].started = tally[t].started
      BY <1>6, <2>3
    <3>2. /\ IsFiniteSet(Made(config, bench, t, m))
          /\ Cardinality(Made(config, bench, t, m)) = Cardinality(Made(config, bench, t, n)) + 1
      BY <1>10, <2>1, <2>3, CountOneMore
    <3>3. QED
      BY <2>1, <3>1, <3>2
  <2>4. QED
    BY <2>2, <2>3
<1>12. QED
  BY <1>4, <1>7, <1>9, <1>11 DEF Exact

\* A worker that has nothing wrong after a move had nothing wrong before.
LEMMA CleanBefore ==
    ASSUME NEW w \in DOMAIN worker, NEW y, Set(w, y), UNCHANGED <<bench, expired>>,
           Good(y) => Good(worker[w]), Clean'
    PROVE  Clean
<1>1. /\ DOMAIN worker' = DOMAIN worker /\ worker'[w] = y
      /\ \A v \in DOMAIN worker \ {w} : worker'[v] = worker[v]
  BY DEF Set
<1>2. ~bench.failed /\ ~expired /\ \A v \in DOMAIN worker' : Good(worker'[v])
  BY DEF Clean, Good
<1>3. \A v \in DOMAIN worker : Good(worker[v])
  BY <1>1, <1>2
<1>4. QED
  BY <1>2, <1>3 DEF Clean

\* A worker keeps what it has seen.
LEMMA GoodKept == ASSUME NEW x, NEW y, SameRecord(x, y), Good(y) PROVE Good(x)
BY DEF SameRecord, Good

\* The counts are exact after a step of a worker that leaves nothing wrong.
LEMMA ExactWorker ==
    ASSUME TypeInv, CallInv, RoundInv, Clean => Exact, Clean', NEW w \in DOMAIN worker,
           UNCHANGED client,
           WorkerStep(w) \/ Accept(w) \/ Reject(w) \/ Break(w) \/ Receive(w)
    PROVE  Exact'
<1>1. BenchTypeInv /\ worker[w] \in Worker /\ OwnInv
  BY WorkerHasPhase DEF TypeInv, CallInv
<1>2. UNCHANGED <<config, bench, expired>>
  BY DEF WorkerStep, Setup, StartCall, StopCalls, GiveUp, FinishCall, CloseSession, Accept,
     Reject, Break, Receive
<1>3. ASSUME NEW y, Set(w, y), SameRecord(worker[w], y) PROVE Exact
  <2>1. Good(y) => Good(worker[w])
    BY <1>3, GoodKept
  <2>2. QED
    BY <1>2, <1>3, <2>1, CleanBefore
<1>4. CASE Setup(w) \/ StopCalls(w) \/ CloseSession(w)
  <2>1. PICK y \in Worker : Set(w, y) /\ EndsRound(worker[w], y)
    BY <1>1, <1>4, SetupEffect
  <2>2. /\ y.call = worker[w].call /\ SameRecord(worker[w], y)
        /\ y.pc \notin Calling /\ worker[w].pc \notin Calling
    BY <2>1 DEF EndsRound, SameCall, Calling
  <2>3. tally' = tally
    BY <1>4 DEF Setup, StopCalls, CloseSession
  <2>4. Exact
    BY <1>3, <2>1, <2>2
  <2>5. QED
    BY <1>2, <2>1, <2>2, <2>3, <2>4, ExactMove
<1>5. CASE StartCall(w)
  <2>1. PICK y \in Worker : Set(w, y) /\ StartsCall(w, worker[w], y)
    BY <1>1, <1>5, StartEffect
  <2>2. Exact
    BY <1>3, <2>1 DEF StartsCall
  <2>3. QED
    BY <1>1, <1>5, <2>2, ExactStart
<1>6. CASE Accept(w)
  <2>1. PICK y \in Worker : Set(w, y) /\ IsAccepted(worker[w], y)
    BY <1>1, <1>6, AcceptEffect
  <2>2. /\ y.call = worker[w].call /\ SameRecord(worker[w], y)
        /\ y.pc \in Calling /\ worker[w].pc \in Calling
    BY <2>1 DEF IsAccepted, SameCall, Calling
  <2>3. tally' = tally
    BY <1>6 DEF Accept
  <2>4. Exact
    BY <1>3, <2>1, <2>2
  <2>5. QED
    BY <1>2, <2>1, <2>2, <2>3, <2>4, ExactMove
<1>7. CASE GiveUp(w) \/ Reject(w) \/ Break(w) \/ Receive(w)
  <2>1. PICK y \in Worker : Set(w, y) /\ Returns(worker[w], y)
    BY <1>1, <1>7, ReturnEffect
  <2>2. /\ y.call = worker[w].call /\ SameRecord(worker[w], y)
        /\ y.pc \in Calling /\ worker[w].pc \in Calling
    BY <2>1 DEF Returns, SameCall, Calling
  <2>3. tally' = tally
    BY <1>7 DEF GiveUp, Reject, Break, Receive
  <2>4. Exact
    BY <1>3, <2>1, <2>2
  <2>5. QED
    BY <1>2, <2>1, <2>2, <2>3, <2>4, ExactMove
<1>8. CASE FinishCall(w)
  <2>1. PICK y \in Worker : Set(w, y) /\ FinishesCall(worker[w], y)
    BY <1>1, <1>8, FinishEffect
  <2>2. worker'[w] = y /\ DOMAIN worker' = DOMAIN worker
    BY <2>1 DEF Set
  <2>3. Good(worker'[w])
    BY <2>2 DEF Clean, Good
  <2>4. Good(worker[w]) /\ tally' = [tally EXCEPT ![Phase.tool].succeeded = @ + 1]
    BY <1>1, <1>8, <2>3, FinishGood
  <2>5. Clean
    BY <1>2, <2>1, <2>4, CleanBefore
  <2>6. QED
    BY <1>1, <1>8, <2>4, <2>5, ExactFinish
<1>9. QED
  BY <1>4, <1>5, <1>6, <1>7, <1>8 DEF WorkerStep

\* The counts are exact after a callback.
LEMMA ExactProgress ==
    ASSUME TypeInv, Clean => Exact, Clean', NEW c, Progress(c)
    PROVE  Exact'
<1>1. BenchTypeInv /\ UNCHANGED <<config, bench, expired, tally>>
  BY DEF TypeInv, Progress
<1>2. CASE worker' = worker
  <2>1. Clean
    BY <1>1, <1>2 DEF Clean, Good
  <2>2. QED
    BY <1>1, <1>2, <2>1, ExactSame
<1>3. CASE worker' # worker
  <2>1. PICK w \in DOMAIN worker : w = c.worker
    BY <1>1, <1>3, ProgressEffect
  <2>2. PICK y \in Worker : Set(w, y) /\ Counts(worker[w], y, c = CallOf(w))
    BY <1>1, <1>3, <2>1, ProgressEffect
  <2>3. y.call = worker[w].call /\ y.pc = worker[w].pc /\ SameRecord(worker[w], y)
    BY <2>2 DEF Counts
  <2>4. Good(y) => Good(worker[w])
    BY <2>3, GoodKept
  <2>5. Clean
    BY <1>1, <2>2, <2>4, CleanBefore
  <2>6. QED
    BY <1>1, <2>2, <2>3, <2>5, ExactMove
<1>4. QED
  BY <1>2, <1>3

\* Between two phases, and before the first, all calls of the phases so far are
\* made and none of the next.
LEMMA MadeAtStart ==
    ASSUME NEW f, f.warmup \in Int, f.calls \in Int, NEW t, NEW b, NEW d, NEW n, NEW m,
           b.phase \in Nat, b.phase = 0 \/ b.pc = "next",
           d.phase = b.phase + 1, d.pc = "setup"
    PROVE  Made(f, d, t, m) = Made(f, b, t, n)
<1>1. ASSUME NEW c \in Asked(f, t)
      PROVE  /\ c.phase \in Nat \ {0} /\ c.kind \in {"warmup", "measured"}
             /\ c.call \in Int /\ c.call >= 0 /\ c.call < Full(f, c.kind)
  <2>1. /\ c.phase \in DOMAIN Plan(f) /\ c.kind \in {"warmup", "measured"}
        /\ c.call \in 0..(Full(f, c.kind) - 1)
    BY AskedFields
  <2>2. Full(f, c.kind) \in Int
    BY DEF Full
  <2>3. QED
    BY <2>1, <2>2 DEF Plan
<1>2. ASSUME NEW c \in Asked(f, t)
      PROVE  c \in Made(f, d, t, m) <=> c.phase <= b.phase
  <2>1. Quota(f, d.pc, c.kind, m[c.worker]) = 0
    BY <1>1 DEF Quota
  <2>2. QED
    BY <1>1, <2>1 DEF Made
<1>3. ASSUME NEW c \in Asked(f, t)
      PROVE  c \in Made(f, b, t, n) <=> c.phase <= b.phase
  <2>1. CASE b.phase = 0
    BY <1>1, <2>1 DEF Made
  <2>2. CASE b.pc = "next"
    <3>1. Quota(f, b.pc, c.kind, n[c.worker]) = Full(f, c.kind)
      BY <1>1, <2>2 DEF Quota, Full
    <3>2. QED
      BY <1>1, <3>1 DEF Made
  <2>3. QED
    BY <2>1, <2>2
<1>4. Made(f, d, t, m) \subseteq Asked(f, t) /\ Made(f, b, t, n) \subseteq Asked(f, t)
  BY DEF Made
<1>5. QED
  BY <1>2, <1>3, <1>4

\* A round that is over is as good as the next one at its start.
LEMMA QuotaNext ==
    ASSUME NEW f, NEW round \in {"setup", "warmup", "measured", "close"}, NEW next,
           round = "setup" => next = "warmup", round = "warmup" => next = "measured",
           round = "measured" => next = "close", round = "close" => next = "aggregate",
           NEW kind \in {"warmup", "measured"}, NEW n,
           round \in {"warmup", "measured"} => n = Full(f, round)
    PROVE  Quota(f, next, kind, 0) = Quota(f, round, kind, n)
BY DEF Quota, Full

\* The round after one in which no worker failed.
LEMMA AfterIs ==
    ASSUME NEW round \in {"setup", "warmup", "measured", "close"},
           \A w \in DOMAIN worker : ~worker[w].failed
    PROVE  /\ round = "setup" => After(round) = "warmup"
           /\ round = "warmup" => After(round) = "measured"
           /\ round = "measured" => After(round) = "close"
           /\ round = "close" => After(round) = "aggregate"
<1>1. PICK next : next = [setup |-> "warmup", warmup |-> "measured", measured |-> "close",
                          close |-> "aggregate"]
  OBVIOUS
<1>2. next.setup = "warmup" /\ next.warmup = "measured" /\ next.measured = "close"
      /\ next.close = "aggregate"
  BY <1>1
<1>3. After(round) = next[round]
  BY <1>1 DEF After
<1>4. QED
  BY <1>2, <1>3

\* The counts are exact after a round.
LEMMA ExactRound ==
    ASSUME BenchTypeInv, RoundInv, Clean => Exact, Clean', EndRound
    PROVE  Exact'
<1>1. /\ bench'.pc = After(bench.pc) /\ bench'.phase = bench.phase
      /\ bench'.failed = (bench.failed \/ \E w \in DOMAIN worker : worker[w].failed)
      /\ bench.pc \in {"setup", "warmup", "measured", "close"}
      /\ DOMAIN worker' = DOMAIN worker
      /\ \A w \in DOMAIN worker :
            /\ worker[w].pc = "done"
            /\ worker'[w].pc = "ready" /\ worker'[w].call = 0 /\ ~worker'[w].failed
            /\ worker'[w].samples = worker[w].samples
  BY RoundEnds
<1>2. UNCHANGED <<config, expired, tally>>
  BY DEF EndRound
<1>3. /\ ~bench'.failed /\ ~expired
      /\ \A w \in DOMAIN worker' : Good(worker'[w])
  BY <1>2 DEF Clean, Good
<1>4. ~bench.failed /\ \A w \in DOMAIN worker : ~worker[w].failed
  BY <1>1, <1>3
<1>5. ASSUME NEW w \in DOMAIN worker PROVE Good(worker[w])
  <2>1. Good(worker'[w]) /\ worker'[w].samples = worker[w].samples /\ ~worker[w].failed
    BY <1>1, <1>3, <1>4
  <2>2. QED
    BY <2>1 DEF Good
<1>6. Exact
  BY <1>3, <1>4, <1>5 DEF Clean
<1>7. \A w \in DOMAIN worker : Begun[w] = worker[w].call /\ Ended[w] = worker[w].call
  BY <1>1 DEF Begun, Ended, Calling
<1>8. \A w \in DOMAIN worker : Begun'[w] = 0 /\ Ended'[w] = 0
  BY <1>1 DEF Begun, Ended, Calling
<1>9. /\ bench.pc = "setup" => bench'.pc = "warmup"
      /\ bench.pc = "warmup" => bench'.pc = "measured"
      /\ bench.pc = "measured" => bench'.pc = "close"
      /\ bench.pc = "close" => bench'.pc = "aggregate"
  BY <1>1, <1>4, AfterIs
<1>10. \A w \in DOMAIN worker : bench.pc \in {"warmup", "measured"} =>
          worker[w].call = Full(config, bench.pc)
  BY <1>1, <1>3 DEF RoundInv, Measure, Full
<1>11. DOMAIN worker = 1..Plan(config)[bench.phase].concurrency
  BY <1>1 DEF RoundInv, Settled, Phase
<1>12. ASSUME NEW t \in Tools, NEW c \in Asked(config, t), c.phase = bench.phase
       PROVE  /\ Quota(config, bench'.pc, c.kind, 0)
                    = Quota(config, bench.pc, c.kind, worker[c.worker].call)
              /\ c.worker \in DOMAIN worker
  <2>1. c.kind \in {"warmup", "measured"} /\ c.worker \in DOMAIN worker
    BY <1>11, <1>12, AskedFields
  <2>2. PICK k : k = worker[c.worker].call
    OBVIOUS
  <2>3. bench.pc \in {"warmup", "measured"} => k = Full(config, bench.pc)
    BY <1>10, <2>1, <2>2
  <2>4. Quota(config, bench'.pc, c.kind, 0) = Quota(config, bench.pc, c.kind, k)
    BY <1>1, <1>9, <2>1, <2>3, QuotaNext
  <2>5. QED
    BY <2>1, <2>2, <2>4
<1>13. ASSUME NEW t \in Tools, NEW n, NEW m,
              \A w \in DOMAIN worker : n[w] = worker[w].call /\ m[w] = 0
       PROVE  Made(config, bench', t, m) = Made(config, bench, t, n)
  <2>1. ASSUME NEW c \in Asked(config, t), c.phase = bench.phase
        PROVE  Quota(config, bench'.pc, c.kind, m[c.worker])
                  = Quota(config, bench.pc, c.kind, n[c.worker])
    BY <1>12, <1>13, <2>1
  <2>2. PICK b, d : b = bench /\ d = bench'
    OBVIOUS
  <2>3. d.phase = b.phase
    BY <1>1, <2>2
  <2>4. \A c \in Asked(config, t) : c.phase = b.phase =>
           (c.call < Quota(config, b.pc, c.kind, n[c.worker])
            <=> c.call < Quota(config, d.pc, c.kind, m[c.worker]))
    BY <2>1, <2>2
  <2>5. QED
    BY <2>2, <2>3, <2>4, MadeSame
<1>14. PICK b, bb, e, ee : b = Begun /\ bb = Begun' /\ e = Ended /\ ee = Ended'
  OBVIOUS
<1>15. \A t \in Tools : /\ Made(config, bench', t, bb) = Made(config, bench, t, b)
                        /\ Made(config, bench', t, ee) = Made(config, bench, t, e)
  BY <1>7, <1>8, <1>13, <1>14
<1>16. QED
  BY <1>2, <1>6, <1>14, <1>15, ExactKept

\* The counts are exact after a phase that is judged a success: a phase without
\* errors in its samples and in its rounds had nothing go wrong.
LEMMA ExactPhase ==
    ASSUME BenchTypeInv, RoundInv, bench.successful /\ Clean => Exact, EndPhase,
           bench'.successful
    PROVE  Exact'
<1>1. PICK s : s = Samples
  OBVIOUS
<1>2. PICK ok : ok = (bench.successful /\ PhaseSucceeded(Aggregate(s)) /\ ~expired)
  OBVIOUS
<1>3. PICK pc : pc = IF expired \/ bench.phase = Len(Plan(config)) THEN "report" ELSE "next"
  OBVIOUS
<1>4. bench' = [bench EXCEPT !.last = Aggregate(s), !.successful = ok, !.pc = pc]
  BY <1>1, <1>2, <1>3 DEF EndPhase, BenchTypeInv, Bench
<1>5. /\ bench'.successful = ok /\ bench'.pc = pc /\ bench'.phase = bench.phase
  BY <1>4 DEF BenchTypeInv, Bench
<1>6. /\ bench.successful /\ ~expired /\ ~bench.failed /\ Aggregate(s).errors = 0
  BY <1>2, <1>5 DEF PhaseSucceeded
<1>7. UNCHANGED <<config, worker, tally>> /\ bench.pc = "aggregate"
  BY DEF EndPhase
<1>8. s \in Seq(Sample) /\ \A w \in DOMAIN worker : Within(worker[w].samples, s)
  BY <1>1, SamplesOfAll
<1>9. \A i \in DOMAIN s : s[i].category = ""
  <2>1. \A x \in Sample : x.duration \in Nat
    BY BenchmarkAssumption DEF Sample
  <2>2. QED
    BY <1>6, <1>8, <2>1, AggregateIsRight
<1>10. ASSUME NEW w \in DOMAIN worker PROVE Good(worker[w])
  <2>1. ~worker[w].failed
    BY <1>7 DEF RoundInv
  <2>2. PICK x : x = worker[w].samples
    OBVIOUS
  <2>3. Within(x, s)
    BY <1>8, <2>2
  <2>4. ASSUME NEW i \in DOMAIN x PROVE x[i].category = ""
    <3>1. PICK j \in DOMAIN s : s[j] = x[i]
      BY <2>3 DEF Within
    <3>2. s[j].category = ""
      BY <1>9
    <3>3. QED
      BY <3>1, <3>2
  <2>5. QED
    BY <2>1, <2>2, <2>4 DEF Good
<1>11. Exact
  BY <1>6, <1>10 DEF Clean
<1>12. Begun' = Begun /\ Ended' = Ended
  BY <1>7 DEF Begun, Ended
<1>13. ASSUME NEW t, NEW n PROVE Made(config, bench', t, n) = Made(config, bench, t, n)
  <2>1. PICK b, d : b = bench /\ d = bench'
    OBVIOUS
  <2>2. d.phase = b.phase /\ b.pc = "aggregate" /\ d.pc \in {"next", "report"}
    BY <1>3, <1>5, <1>7, <2>1
  <2>3. ASSUME NEW c \in Asked(config, t)
        PROVE  Quota(config, d.pc, c.kind, n[c.worker]) = Quota(config, b.pc, c.kind, n[c.worker])
    <3>1. c.kind \in {"warmup", "measured"}
      BY AskedFields
    <3>2. QED
      BY <2>2, <3>1 DEF Quota
  <2>4. QED
    BY <2>1, <2>2, <2>3, MadeSame
<1>14. QED
  BY <1>7, <1>11, <1>12, <1>13, ExactKept

\* The counts are exact at the start of a phase if they were before it.
LEMMA ExactStarts ==
    ASSUME BenchTypeInv, Exact, Sound(config), NEW i \in 1..Len(Plan(config)), StartPhase(i),
           UNCHANGED <<config, tally>>, i = bench.phase + 1, bench.phase = 0 \/ bench.pc = "next"
    PROVE  Exact'
<1>1. bench'.pc = "setup" /\ bench'.phase = i
  BY RoundStarts
<1>2. config.warmup \in Int /\ config.calls \in Int /\ bench.phase \in Nat
  BY DEF BenchTypeInv, Config, Bench
<1>3. PICK b, d : b = bench /\ d = bench'
  OBVIOUS
<1>4. ASSUME NEW t, NEW n, NEW m PROVE Made(config, d, t, m) = Made(config, b, t, n)
  <2>1. b.phase \in Nat /\ (b.phase = 0 \/ b.pc = "next") /\ d.phase = b.phase + 1
        /\ d.pc = "setup"
    BY <1>1, <1>2, <1>3
  <2>2. QED
    BY <1>2, <2>1, MadeAtStart
<1>5. QED
  BY <1>3, <1>4, ExactKept

\* The main goroutine.
LEMMA CleanMain ==
    ASSUME TypeInv, CallInv, RoundInv, CleanInv, BenchmarkMode, MainStep
    PROVE  CleanInv'
<1>1. BenchTypeInv /\ OwnInv /\ PhaseInv /\ Bench(bench)
  BY DEF TypeInv, BenchTypeInv, CallInv
<1>2. /\ Mode(client.flags) = "benchmark" /\ exit = "running" /\ client' = client
      /\ UNCHANGED <<config, tally>>
  BY DEF BenchmarkMode, MainStep, Begin, EndRound, EndPhase, NextPhase, Report
<1>3. /\ bench.successful /\ (Settled \/ Clean) => Exact
      /\ bench.pc = "report" /\ bench.successful => bench.phase = Len(Plan(config))
  BY <1>2 DEF CleanInv
<1>4. CASE Begin
  <2>1. CASE Accepts(config)
    <3>1. Sound(config) /\ StartPhase(1) /\ exit' = exit /\ bench.pc = "normalize"
      BY <1>1, <1>4, <2>1, AcceptedIsSound DEF Begin, BenchTypeInv
    <3>2. 1 \in 1..Len(Plan(config)) /\ bench.phase = 0
      BY <3>1 DEF Sound, RoundInv
    <3>3. bench'.pc = "setup" /\ bench'.successful = bench.successful
      BY <1>1, <1>2, <3>1, <3>2, RoundStarts
    <3>4. bench.successful => Exact
      BY <1>3, <3>1 DEF Settled
    <3>5. Exact => Exact'
      BY <1>1, <1>2, <3>1, <3>2, ExactStarts
    <3>6. QED
      BY <1>2, <3>1, <3>3, <3>4, <3>5 DEF CleanInv
  <2>2. CASE ~Accepts(config)
    <3>1. UNCHANGED <<bench, worker>> /\ exit' = "error" /\ bench.pc = "normalize"
      BY <1>4, <2>2 DEF Begin
    <3>2. bench.successful => Exact
      BY <1>3, <3>1 DEF Settled
    <3>3. Exact => Exact'
      BY <1>2, <3>1, ExactSame
    <3>4. QED
      BY <1>2, <3>1, <3>2, <3>3 DEF CleanInv
  <2>3. QED
    BY <2>1, <2>2
<1>5. CASE EndRound
  <2>1. /\ bench'.pc = After(bench.pc) /\ bench'.successful = bench.successful
        /\ bench.pc \in {"setup", "warmup", "measured", "close"}
    BY <1>1, <1>5, RoundEnds
  <2>2. bench'.pc \notin {"normalize", "next", "report"}
    BY <2>1, AfterType
  <2>3. bench.successful /\ Clean' => Exact'
    BY <1>1, <1>3, <1>5, ExactRound
  <2>4. exit' = exit
    BY <1>5 DEF EndRound
  <2>5. QED
    BY <1>2, <2>1, <2>2, <2>3, <2>4 DEF CleanInv, Settled
<1>6. CASE EndPhase
  <2>1. bench'.successful => Exact'
    BY <1>1, <1>3, <1>6, ExactPhase
  <2>2. /\ bench'.pc = IF expired \/ bench.phase = Len(Plan(config)) THEN "report" ELSE "next"
        /\ bench'.successful => ~expired
        /\ bench'.phase = bench.phase
    BY <1>1, <1>6 DEF EndPhase, Bench
  <2>3. exit' = exit
    BY <1>6 DEF EndPhase
  <2>4. QED
    BY <1>2, <2>1, <2>2, <2>3 DEF CleanInv
<1>7. CASE NextPhase
  <2>1. Sound(config) /\ bench.phase \in 1..Len(Plan(config)) /\ bench.phase < Len(Plan(config))
        /\ bench.pc = "next" /\ exit' = exit
    BY <1>1, <1>7 DEF NextPhase, PhaseInv
  <2>2. PICK i : i = bench.phase + 1
    OBVIOUS
  <2>3. i \in 1..Len(Plan(config)) /\ StartPhase(i)
    BY <1>7, <2>1, <2>2 DEF NextPhase, Sound
  <2>4. bench'.pc = "setup" /\ bench'.successful = bench.successful
    BY <1>1, <1>2, <2>1, <2>3, RoundStarts
  <2>5. bench.successful => Exact
    BY <1>3, <2>1 DEF Settled
  <2>6. Exact => Exact'
    BY <1>1, <1>2, <2>1, <2>2, <2>3, ExactStarts
  <2>7. QED
    BY <1>2, <2>1, <2>4, <2>5, <2>6 DEF CleanInv
<1>8. CASE Report
  <2>1. /\ bench'.pc = bench.pc /\ bench'.phase = bench.phase
        /\ bench'.successful = bench.successful /\ bench.pc = "report"
    BY <1>1, <1>8 DEF Report, Bench
  <2>2. worker' = worker /\ (exit' = "ok" => bench.successful)
    BY <1>8 DEF Report
  <2>3. bench.successful => Exact
    BY <1>3, <2>1 DEF Settled
  <2>4. Begun' = Begun /\ Ended' = Ended
    BY <2>2 DEF Begun, Ended
  <2>5. \A t, n : Made(config, bench', t, n) = Made(config, bench, t, n)
    BY <2>1 DEF Made
  <2>6. Exact => Exact'
    BY <1>2, <2>4, <2>5, ExactKept
  <2>7. QED
    BY <1>2, <1>3, <2>1, <2>2, <2>3, <2>6 DEF CleanInv
<1>9. QED
  BY <1>4, <1>5, <1>6, <1>7, <1>8 DEF MainStep

\* The command line is never written.
LEMMA FlagsStay ==
    ASSUME client \in Client, [DemoNext]_demoVars
    PROVE  client'.flags = client.flags
<1>1. \/ client' = client
      \/ \E n : client' = [client EXCEPT !.pc = "dial", !.addresses = n]
      \/ \E d : client' = [client EXCEPT !.pc = "judge", !.dials = Append(@, d)]
      \/ \E p : GoTo(p)
      \/ RunFails
  BY DEF DemoNext, demoVars, ClientStep, Fatal, Resolve, Dial, Judge, Get, Tick, Connect,
     ListTools, RunGivesUp, Done, RunAccepted, RunReceives, RunCloses, BenchmarkMode, Exit
<1>2. QED
  BY <1>1 DEF GoTo, RunFails, Client

\* The other steps leave a benchmark alone.
LEMMA CleanSame ==
    ASSUME CleanInv, UNCHANGED <<config, bench, worker, tally, exit>>, expired => expired',
           client'.flags = client.flags
    PROVE  CleanInv'
<1>1. Clean' => Clean
  BY DEF Clean, Good
<1>2. Exact => Exact'
  BY ExactSame
<1>3. QED
  BY <1>1, <1>2 DEF CleanInv, Settled

\* A step of a worker, of what answers it, or a callback.
LEMMA CleanActs ==
    ASSUME CleanInv, ~Settled, UNCHANGED <<config, bench, client, exit>>,
           (Clean => Exact) /\ Clean' => Exact'
    PROVE  CleanInv'
BY DEF CleanInv, Settled

\* The counts of a benchmark are exact as long as nothing has gone wrong.
LEMMA CleanStep ==
    ASSUME TypeInv, CallInv, RoundInv, CleanInv, [DemoNext]_demoVars
    PROVE  CleanInv'
<1>1. client \in Client /\ client'.flags = client.flags /\ OwnInv
  BY FlagsStay DEF TypeInv, ClientTypeInv, CallInv
<1>2. CASE UNCHANGED demoVars
  BY <1>1, <1>2, CleanSame DEF demoVars, benchmarkVars
<1>3. CASE ClientStep \/ Done \/ RunAccepted \/ RunReceives \/ RunCloses
  <2>1. Mode(client.flags) # "benchmark"
    BY <1>3 DEF ClientStep, Fatal, Resolve, Dial, Judge, Get, Tick, Connect, ListTools,
       RunGivesUp, Done, RunAccepted, RunReceives, RunCloses, ClientAt
  <2>2. QED
    BY <1>1, <2>1 DEF CleanInv
<1>4. CASE Expire \/ \E c \in DOMAIN exec : BackendStep(c) /\ UNCHANGED benchmarkVars
  <2>1. UNCHANGED <<config, bench, worker, tally, exit>> /\ (expired => expired')
    BY <1>4 DEF Expire, benchmarkVars
  <2>2. QED
    BY <1>1, <2>1, CleanSame
<1>5. ASSUME NEW w \in DOMAIN worker, UNCHANGED client,
             WorkerStep(w) \/ Accept(w) \/ Reject(w) \/ Break(w) \/ Receive(w)
      PROVE  CleanInv'
  <2>1. UNCHANGED <<config, bench, exit>>
    BY <1>5 DEF WorkerStep, Setup, StartCall, StopCalls, GiveUp, FinishCall, CloseSession,
       Accept, Reject, Break, Receive
  <2>2. ~Settled
    BY <1>1, <1>5, WorkersAct DEF Settled
  <2>3. (Clean => Exact) /\ Clean' => Exact'
    BY <1>5, ExactWorker
  <2>4. QED
    BY <1>5, <2>1, <2>2, <2>3, CleanActs
<1>6. ASSUME NEW c \in DOMAIN progress, Progress(c), UNCHANGED client
      PROVE  CleanInv'
  <2>1. UNCHANGED <<config, bench, exit, expired, tally>>
    BY <1>6 DEF Progress
  <2>2. CASE worker' = worker
    BY <1>1, <2>1, <2>2, CleanSame
  <2>3. CASE worker' # worker
    <3>1. ~Settled
      BY <1>6, <2>3, CallbackActs DEF Settled
    <3>2. (Clean => Exact) /\ Clean' => Exact'
      BY <1>6, ExactProgress
    <3>3. QED
      BY <1>6, <2>1, <3>1, <3>2, CleanActs
  <2>4. QED
    BY <2>2, <2>3
<1>7. QED
  BY <1>2, <1>3, <1>4, <1>5, <1>6, CleanMain DEF DemoNext, Outside, BenchmarkMode
-----------------------------------------------------------------------------
(* The one call of Run.                                                    *)

\* Nothing that Run counts moves.
LEMMA SingleSame ==
    ASSUME SingleInv, UNCHANGED <<client, tally, exit>>, bench' = bench
    PROVE  SingleInv'
BY DEF SingleInv

\* Outside its benchmark the client has no workers, and nobody answers them.
LEMMA NoWorkers ==
    ASSUME TypeInv, CallInv, bench.pc = "normalize"
    PROVE  DOMAIN worker = {} /\ DOMAIN progress = {}
<1>1. worker = NewWorkers(0)
  BY DEF TypeInv, BenchTypeInv, PhaseInv
<1>2. DOMAIN worker = {}
  BY <1>1 DEF NewWorkers
<1>3. QED
  BY <1>2 DEF CallInv, FlightInv

\* Run makes one call, and ends well only after it has succeeded.
LEMMA SingleStep ==
    ASSUME TypeInv, CallInv, SingleInv, [DemoNext]_demoVars
    PROVE  SingleInv'
<1>1. /\ client \in Client /\ client'.flags = client.flags
      /\ tally \in [Tools -> [started : Nat, succeeded : Nat]]
  BY FlagsStay DEF TypeInv, ClientTypeInv, BenchTypeInv
<1>2. ReadTool \in Tools /\ StreamTool \in Tools /\ ReadTool # StreamTool
  BY DEF Tools, ReadTool, StreamTool
<1>3. CASE UNCHANGED demoVars
  BY <1>3, SingleSame DEF demoVars, benchmarkVars
<1>4. CASE BenchmarkMode
  BY <1>4 DEF BenchmarkMode, SingleInv
<1>5. CASE Mode(client.flags) = "benchmark"
  BY <1>1, <1>5 DEF SingleInv
<1>6. CASE Mode(client.flags) # "benchmark" /\ DemoNext
  <2>1. bench' = bench /\ bench.pc = "normalize"
    BY <1>6, BenchMoves DEF SingleInv, BenchmarkMode
  <2>2. CASE Outside /\ UNCHANGED client
    <3>1. \E c \in DOMAIN exec : UNCHANGED benchmarkVars
      BY <2>1, <2>2, NoWorkers DEF Outside
    <3>2. QED
      BY <2>1, <2>2, <3>1, SingleSame DEF benchmarkVars
  <2>3. CASE Expire /\ UNCHANGED client
    BY <2>1, <2>3, SingleSame DEF Expire
  <2>4. CASE Mode(client.flags) # "run"
    BY <1>1, <2>1, <2>4 DEF SingleInv
  <2>5. CASE Connect
    <3>1. /\ client.pc = "start" /\ tally' = tally /\ exit = "running"
          /\ \/ client' = client /\ exit' = "error"
             \/ GoTo("list") /\ exit' = exit
      BY <2>5 DEF Connect, ClientAt, Exit
    <3>2. client'.pc \in {"start", "list"}
      BY <1>1, <3>1 DEF GoTo, Client
    <3>3. QED
      BY <1>1, <2>1, <3>1, <3>2 DEF SingleInv
  <2>6. CASE ListTools
    <3>1. client.pc = "list" /\ exit = "running" /\ exit' = exit /\ Mode(client.flags) = "run"
      BY <2>6 DEF ListTools, ClientAt
    <3>2. CASE RunFails /\ tally' = tally
      <4>1. client'.pc = "close" /\ client'.failed
        BY <1>1, <3>2 DEF RunFails, Client
      <4>2. QED
        BY <1>1, <2>1, <3>1, <3>2, <4>1 DEF SingleInv
    <3>3. CASE GoTo("calling") /\ tally' = [tally EXCEPT ![ReadTool].started = @ + 1]
      <4>1. client'.pc = "calling"
        BY <1>1, <3>3 DEF GoTo, Client
      <4>2. /\ tally'[ReadTool].started = tally[ReadTool].started + 1
            /\ tally'[ReadTool].succeeded = tally[ReadTool].succeeded
            /\ tally'[StreamTool] = tally[StreamTool]
        BY <1>1, <1>2, <3>3
      <4>3. /\ tally[ReadTool].started = 0 /\ tally[ReadTool].succeeded = 0
            /\ tally[StreamTool].started = 0 /\ tally[StreamTool].succeeded = 0
        BY <3>1 DEF SingleInv
      <4>4. QED
        BY <1>1, <2>1, <3>1, <4>1, <4>2, <4>3 DEF SingleInv
    <3>4. QED
      BY <2>6, <3>2, <3>3 DEF ListTools
  <2>7. CASE RunAccepted
    BY <2>1, <2>7, SingleSame DEF RunAccepted
  <2>8. CASE RunGivesUp
    <3>1. tally' = tally /\ exit = "running" /\ exit' = exit /\ RunFails
          /\ Mode(client.flags) = "run"
      BY <2>8 DEF RunGivesUp, ClientAt
    <3>2. client'.pc = "close" /\ client'.failed
      BY <1>1, <3>1 DEF RunFails, Client
    <3>3. QED
      BY <1>1, <2>1, <3>1, <3>2 DEF SingleInv
  <2>9. CASE RunReceives
    <3>1. client.pc = "calling" /\ exit = "running" /\ exit' = exit
          /\ Mode(client.flags) = "run"
      BY <2>9 DEF RunReceives, ClientAt
    <3>2. CASE RunFails /\ tally' = tally
      <4>1. client'.pc = "close" /\ client'.failed
        BY <1>1, <3>2 DEF RunFails, Client
      <4>2. QED
        BY <1>1, <2>1, <3>1, <3>2, <4>1 DEF SingleInv
    <3>3. CASE GoTo("close") /\ tally' = [tally EXCEPT ![ReadTool].succeeded = @ + 1]
      <4>1. client'.pc = "close"
        BY <1>1, <3>3 DEF GoTo, Client
      <4>2. /\ tally'[ReadTool].succeeded = tally[ReadTool].succeeded + 1
            /\ tally'[ReadTool].started = tally[ReadTool].started
            /\ tally'[StreamTool] = tally[StreamTool]
        BY <1>1, <1>2, <3>3
      <4>3. /\ tally[ReadTool].started = 1 /\ tally[ReadTool].succeeded = 0
            /\ tally[StreamTool].started = 0 /\ tally[StreamTool].succeeded = 0
        BY <3>1 DEF SingleInv
      <4>4. QED
        BY <1>1, <2>1, <3>1, <4>1, <4>2, <4>3 DEF SingleInv
    <3>4. QED
      BY <2>9, <3>2, <3>3 DEF RunReceives
  <2>10. CASE RunCloses
    <3>1. /\ client.pc = "close" /\ client' = client /\ tally' = tally
          /\ exit' = "ok" => ~client.failed
      BY <2>10 DEF RunCloses, ClientAt, Exit
    <3>2. QED
      BY <2>1, <3>1 DEF SingleInv
  <2>11. CASE Fatal \/ Resolve \/ Dial \/ Judge \/ Get \/ Tick \/ Done
    <3>1. Mode(client.flags) # "run"
      BY <2>11 DEF Fatal, Resolve, Dial, Judge, Get, Tick, Done, ClientAt
    <3>2. QED
      BY <2>4, <3>1
  <2>12. QED
    BY <1>4, <1>6, <2>2, <2>3, <2>5, <2>6, <2>7, <2>8, <2>9, <2>10, <2>11
       DEF DemoNext, ClientStep
<1>7. QED
  BY <1>3, <1>5, <1>6
-----------------------------------------------------------------------------
(* A success that is reported is one the server has served.                *)

\* Nothing has been made at the start.
LEMMA ReportInitially == DemoInit => ReportInv
<1>1. SUFFICES ASSUME DemoInit PROVE ReportInv
  OBVIOUS
<1>2. /\ bench = [pc |-> "normalize", phase |-> 0, failed |-> FALSE, successful |-> TRUE,
                  last |-> NoMeasurement, overhead |-> {}]
      /\ worker = NewWorkers(0) /\ exit = "running" /\ client.pc = "start"
      /\ tally = [t \in Tools |-> [started |-> 0, succeeded |-> 0]]
  BY <1>1 DEF DemoInit, BenchmarkInit, ClientInit
<1>3. bench.pc = "normalize" /\ bench.phase = 0 /\ DOMAIN worker = {}
  BY <1>2 DEF NewWorkers
<1>4. \A t \in Tools : tally[t].started = 0 /\ tally[t].succeeded = 0
  BY <1>2
<1>5. ReadTool \in Tools /\ StreamTool \in Tools
  BY DEF Tools
<1>6. ASSUME NEW t, NEW n PROVE Made(config, bench, t, n) = {}
  <2>1. \A c \in Asked(config, t) : c.phase \in DOMAIN Plan(config)
    BY AskedFields
  <2>2. \A c \in Asked(config, t) : c.phase \in Int /\ c.phase >= 1
    BY <2>1 DEF Plan
  <2>3. QED
    BY <1>3, <2>2 DEF Made
<1>7. Exact
  BY <1>4, <1>6, FS_EmptySet DEF Exact
<1>8. RoundInv
  BY <1>3 DEF RoundInv, Settled
<1>9. QED
  BY <1>2, <1>3, <1>4, <1>5, <1>7, <1>8 DEF ReportInv, CleanInv, SingleInv

\* At the end of the plan the calls made are the calls planned.
LEMMA MadeAtEnd ==
    ASSUME BenchTypeInv, bench.pc = "report", bench.phase = Len(Plan(config)), NEW t, NEW n
    PROVE  Made(config, bench, t, n) = Planned(t)
<1>1. DOMAIN Plan(config) = 1..Len(Plan(config)) /\ Len(Plan(config)) \in Nat
      /\ config.warmup \in Int /\ config.calls \in Int
  BY DEF BenchTypeInv, PhaseInv, Sound, Config
<1>2. Asked(config, t) = Planned(t)
  <2>1. PICK I : I = {i \in DOMAIN Plan(config) : Plan(config)[i].tool = t}
    OBVIOUS
  <2>2. Asked(config, t) = PlannedCalls(config, I, "warmup", config.warmup)
                           \cup PlannedCalls(config, I, "measured", config.calls)
    BY <2>1 DEF Asked
  <2>3. Planned(t) = UNION {PlannedCalls(config, I, kind, Measure(kind)) :
                                kind \in {"warmup", "measured"}}
    BY <2>1 DEF Planned
  <2>4. Measure("warmup") = config.warmup /\ Measure("measured") = config.calls
    BY DEF Measure
  <2>5. QED
    BY <2>2, <2>3, <2>4
<1>3. ASSUME NEW c \in Asked(config, t)
      PROVE  c.phase < bench.phase
             \/ (c.phase = bench.phase
                 /\ c.call < Quota(config, bench.pc, c.kind, n[c.worker]))
  <2>1. /\ c.phase \in 1..Len(Plan(config)) /\ c.kind \in {"warmup", "measured"}
        /\ c.call \in 0..(Full(config, c.kind) - 1)
    BY <1>1, AskedFields
  <2>2. Full(config, c.kind) \in Int
    BY <1>1 DEF Full
  <2>3. Quota(config, bench.pc, c.kind, n[c.worker]) = Full(config, c.kind)
    BY <2>1 DEF Quota, Full
  <2>4. QED
    BY <1>1, <2>1, <2>2, <2>3
<1>4. QED
  BY <1>2, <1>3 DEF Made

\* When all calls started have succeeded, the server has executed and counted just
\* these.
LEMMA ServedExactly ==
    ASSUME TypeInv, AgreeInv, NEW t \in Tools, tally[t].started = tally[t].succeeded
    PROVE  /\ Counted(t, "success") = tally[t].started
           /\ Executions(t) = tally[t].started
           /\ Running(t) = {}
<1>1. IsFiniteSet(DOMAIN exec) /\ EnteredOnce(t) /\ CountedFirst(t)
  BY DEF AgreeInv
<1>2. /\ Counted(t, "success") \in Nat /\ Counted(t, "error") \in Nat
      /\ Counted(t, "cancelled") \in Nat
  BY CountedType DEF TypeInv
<1>3. /\ tally[t].started \in Nat
      /\ IsFiniteSet(Running(t)) /\ Cardinality(Running(t)) \in Nat
      /\ Cardinality(Unsent(t)) \in Nat /\ Cardinality(Replies(t)) \in Nat
      /\ Cardinality(Received(t)) \in Nat
  BY <1>1, Numbers
<1>4. Executions(t) = CountedAll(t) + Cardinality(Running(t))
  BY DEF Executions, CountedAll, Running
<1>5. Counted(t, "success") = tally[t].started /\ Executions(t) = tally[t].started
      /\ Cardinality(Running(t)) = 0
  <2>1. PICK n \in Nat, s \in Nat, e \in Nat, c \in Nat, r \in Nat, u \in Nat, v \in Nat,
             p \in Nat :
           /\ n = tally[t].started /\ r = Cardinality(Running(t))
           /\ s = Counted(t, "success") /\ e = Counted(t, "error")
           /\ c = Counted(t, "cancelled") /\ u = Cardinality(Unsent(t))
           /\ v = Cardinality(Received(t)) /\ p = Cardinality(Replies(t))
    BY <1>2, <1>3
  <2>2. s + e + c + r + u <= n
    BY <1>1, <2>1 DEF EnteredOnce, CountedAll
  <2>3. n + v + p <= s
    BY <1>1, <2>1 DEF CountedFirst
  <2>4. s = n /\ e = 0 /\ c = 0 /\ r = 0
    BY <2>2, <2>3
  <2>5. CountedAll(t) = s + e + c
    BY <2>1 DEF CountedAll
  <2>6. Executions(t) = n
    BY <1>4, <2>1, <2>4, <2>5
  <2>7. QED
    BY <2>1, <2>4, <2>6
<1>6. QED
  BY <1>3, <1>5, FS_EmptySet

\* When no handler runs and nobody waits, nothing is left of any call.
LEMMA NothingLeft ==
    ASSUME TypeInv, CallInv, \A t \in Tools : Running(t) = {},
           bench.pc \notin {"warmup", "measured"},
           Mode(client.flags) # "run" \/ client.pc # "calling"
    PROVE  exec = [c \in {} |-> 0]
<1>1. OwnInv /\ AwaitedInv /\ exec \in [DOMAIN exec -> Execution]
  BY DEF CallInv, TypeInv, BackendTypeInv
<1>2. ASSUME NEW c \in DOMAIN exec PROVE FALSE
  <2>1. exec[c].tool \in Tools
    BY <1>1 DEF Execution
  <2>2. exec[c].pc = "replied"
    BY <2>1 DEF Running
  <2>3. Awaited(c)
    BY <1>1, <2>2 DEF AwaitedInv
  <2>4. c.worker \in DOMAIN worker /\ worker[c.worker].pc = "calling"
    BY <2>3 DEF Awaited
  <2>5. QED
    BY <1>1, <2>4, NobodyCalls DEF Calling
<1>3. QED
  BY <1>1, <1>2

\* A client that ends with success, as a benchmark or as a single run, has been
\* served exactly the calls it planned: the server has counted as many successes
\* and nothing else, and nothing is left running, for any configuration that is
\* accepted, any faults, and any deadline.
THEOREM ReportIsTrue == DemoSpec => []ReportMatchesBackend
<1>1. DemoInit => AgreeInv /\ ReportInv
  BY AgreeInitially, ReportInitially
<1>2. TypeInv /\ CallInv /\ AgreeInv /\ ReportInv /\ [DemoNext]_demoVars
         => AgreeInv' /\ ReportInv'
  BY AgreeStep, RoundStep, CleanStep, SingleStep DEF ReportInv
<1>3. ASSUME TypeInv, CallInv, AgreeInv, ReportInv PROVE ReportMatchesBackend
  <2>1. BenchTypeInv /\ CleanInv /\ SingleInv
    BY <1>3 DEF TypeInv, ReportInv
  <2>2. SUFFICES ASSUME exit = "ok", Mode(client.flags) \in {"benchmark", "run"}
                 PROVE  /\ exec = [c \in {} |-> 0]
                        /\ \A t \in Tools :
                              LET calls == IF Mode(client.flags) = "benchmark"
                                           THEN Cardinality(Planned(t))
                                           ELSE IF t = ReadTool THEN 1 ELSE 0
                              IN  Counted(t, "success") = calls /\ Executions(t) = calls
    BY DEF ReportMatchesBackend
  <2>3. CASE Mode(client.flags) = "benchmark"
    <3>1. /\ bench.pc = "report" /\ bench.phase = Len(Plan(config)) /\ Exact
      BY <2>1, <2>2, <2>3 DEF CleanInv, Settled
    <3>2. PICK b, e : b = Begun /\ e = Ended
      OBVIOUS
    <3>3. ASSUME NEW t \in Tools
          PROVE  /\ tally[t].started = Cardinality(Planned(t))
                 /\ tally[t].succeeded = Cardinality(Planned(t))
      <4>1. Made(config, bench, t, b) = Planned(t) /\ Made(config, bench, t, e) = Planned(t)
        BY <2>1, <3>1, MadeAtEnd
      <4>2. /\ tally[t].started = Cardinality(Made(config, bench, t, b))
            /\ tally[t].succeeded = Cardinality(Made(config, bench, t, e))
        BY <3>1, <3>2 DEF Exact
      <4>3. QED
        BY <4>1, <4>2
    <3>4. ASSUME NEW t \in Tools
          PROVE  /\ Counted(t, "success") = Cardinality(Planned(t))
                 /\ Executions(t) = Cardinality(Planned(t)) /\ Running(t) = {}
      BY <1>3, <3>3, ServedExactly
    <3>5. exec = [c \in {} |-> 0]
      BY <1>3, <2>3, <3>1, <3>4, NothingLeft
    <3>6. QED
      BY <2>3, <3>4, <3>5
  <2>4. CASE Mode(client.flags) = "run"
    <3>1. /\ client.pc = "close" /\ bench.pc = "normalize"
          /\ tally[ReadTool].started = 1 /\ tally[ReadTool].succeeded = 1
          /\ tally[StreamTool].started = 0 /\ tally[StreamTool].succeeded = 0
      BY <2>1, <2>2, <2>4 DEF SingleInv
    <3>2. ASSUME NEW t \in Tools
          PROVE  /\ tally[t].started = IF t = ReadTool THEN 1 ELSE 0
                 /\ tally[t].succeeded = tally[t].started
      BY <3>1 DEF Tools, ReadTool, StreamTool
    <3>3. ASSUME NEW t \in Tools
          PROVE  /\ Counted(t, "success") = IF t = ReadTool THEN 1 ELSE 0
                 /\ Executions(t) = IF t = ReadTool THEN 1 ELSE 0
                 /\ Running(t) = {}
      BY <1>3, <3>2, ServedExactly
    <3>4. exec = [c \in {} |-> 0]
      BY <1>3, <3>1, <3>3, NothingLeft
    <3>5. QED
      BY <2>4, <3>3, <3>4
  <2>5. QED
    BY <2>2, <2>3, <2>4
<1>4. QED
  BY <1>1, <1>2, <1>3, CallInvariance, PTL DEF DemoSpec
=============================================================================
