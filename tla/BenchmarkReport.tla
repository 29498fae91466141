--------------------------- MODULE BenchmarkReport ---------------------------
(***************************************************************************)
(* The computations of internal/democlient/benchmark.go: which             *)
(* configurations are accepted, which phases they stand for, and what a    *)
(* measurement and the comparison of measurements report.                  *)
(*                                                                         *)
(* Durations are natural numbers: percentiles only compare them.  The      *)
(* endpoints of a configuration are sound or not; the topic is left out.   *)
(***************************************************************************)
EXTENDS Integers, Sequences, FiniteSets, Functions, TLC

CONSTANTS
    Default,    \* what a zero value of BenchmarkConfig stands for
    Limit       \* the bounds of normalizeBenchmark: lists, workers, calls,
                \* warmup, repetitions, total

ASSUME LimitAssumption ==
    /\ Default.concurrency \in Seq(Int) \ {<<>>}
    /\ Default.calls \in Int /\ Default.warmup \in Int /\ Default.repetitions \in Int
    /\ Limit.lists \in Nat /\ Limit.workers \in Nat /\ Limit.calls \in Nat
    /\ Limit.warmup \in Nat /\ Limit.repetitions \in Nat /\ Limit.total \in Nat

ReadTool == "read_runbook"
StreamTool == "stream_runbook"

OrDefault(x, zero, default) == IF x = zero THEN default ELSE x

Normalize(c) ==
    [endpoints |-> c.endpoints,
     concurrency |-> OrDefault(c.concurrency, <<>>, Default.concurrency),
     calls |-> OrDefault(c.calls, 0, Default.calls),
     warmup |-> OrDefault(c.warmup, 0, Default.warmup),
     repetitions |-> OrDefault(c.repetitions, 0, Default.repetitions)]

\* Mutant: the total forgets that every phase runs against two targets.
TotalOneTarget(c) == SumFunction(c.concurrency) * c.calls * c.repetitions * 2

\* The measured calls of the whole run, as normalizeBenchmark adds them up.
Total(c) == SumFunction(c.concurrency) * c.calls * c.repetitions * 4

\* normalizeBenchmark returns no error for the normalized configuration c.
Accepts(c) ==
    /\ c.endpoints
    /\ Len(c.concurrency) <= Limit.lists
    /\ c.calls \in 1..Limit.calls
    /\ c.warmup \in 1..Limit.warmup
    /\ c.repetitions \in 1..Limit.repetitions
    /\ \A i \in DOMAIN c.concurrency : c.concurrency[i] \in 1..Limit.workers
    /\ \A i, j \in DOMAIN c.concurrency :
          c.concurrency[i] = c.concurrency[j] => i = j
    /\ Total(c) <= Limit.total

\* The phases of Benchmark's four nested loops, in their order: concurrency, tool,
\* repetition, target.  Odd repetitions measure the server first, even ones the
\* gateway.
Plan(c) ==
    [i \in 1..(Len(c.concurrency) * 4 * c.repetitions) |->
        LET pair == (i - 1) \div 2
            block == pair \div c.repetitions
            repetition == (pair % c.repetitions) + 1
        IN  [concurrency |-> c.concurrency[(block \div 2) + 1],
             tool |-> IF block % 2 = 0 THEN ReadTool ELSE StreamTool,
             repetition |-> repetition,
             target |-> IF (i + repetition) % 2 = 0 THEN "direct" ELSE "gateway"]]

\* Mutant: the rank is rounded down.
RankDown(p, n) == IF p * n < 100 THEN 1 ELSE (p * n) \div 100

\* math.Ceil(p*N), p in percent.
Rank(p, n) == (p * n + 99) \div 100

\* sort.Float64s on the durations of the samples at the places I: the one that has
\* k - 1 before it, ties in the order of their places, comes k-th.
Sorted(samples, I) ==
    LET place(i) == Cardinality({j \in I :
                        \/ samples[j].duration < samples[i].duration
                        \/ samples[j].duration = samples[i].duration /\ j <= i})
    IN  [k \in 1..Cardinality(I) |-> samples[CHOOSE i \in I : place(i) = k].duration]

\* latencySummary of the durations of the samples at the places I.
LatencySummary(samples, I) ==
    LET n == Cardinality(I)
        sorted == Sorted(samples, I)
        percentile(p) == sorted[Rank(p, n)]
    IN  IF n = 0 THEN [samples |-> 0, p50 |-> 0, p95 |-> 0, p99 |-> 0]
        ELSE [samples |-> n, p50 |-> percentile(50), p95 |-> percentile(95),
              p99 |-> percentile(99)]

\* The places of the samples without an error.
Successes(samples) == {i \in DOMAIN samples : samples[i].category = ""}

\* aggregateMeasurement.
Aggregate(samples) ==
    LET good == Successes(samples)
    IN  [attempts |-> Len(samples), errors |-> Len(samples) - Cardinality(good),
         completion |-> LatencySummary(samples, DOMAIN samples),
         success |-> LatencySummary(samples, good)]

\* benchmarkOverhead: the pairs of measurements it compares, as places in ms.
Overhead(ms) ==
    {d \in (DOMAIN ms) \X (DOMAIN ms) :
        /\ ms[d[1]].target = "direct"
        /\ ms[d[2]].target = "gateway"
        /\ ms[d[1]].tool = ms[d[2]].tool
        /\ ms[d[1]].concurrency = ms[d[2]].concurrency
        /\ ms[d[1]].repetition = ms[d[2]].repetition}
-----------------------------------------------------------------------------
(* What the properties are stated with.                                    *)

\* The calls of one kind, n by every worker, in the phases I of the plan of c.
PlannedCalls(c, I, kind, n) ==
    UNION {{[phase |-> i, kind |-> kind, worker |-> w, call |-> k] :
               w \in 1..Plan(c)[i].concurrency, k \in 0..(n - 1)} : i \in I}

\* v is the nearest-rank p-th percentile of the durations of the samples at the
\* places I.
IsPercentile(v, p, samples, I) ==
    /\ \E i \in I : samples[i].duration = v
    /\ Cardinality({i \in I : samples[i].duration <= v}) * 100 >= p * Cardinality(I)
    /\ Cardinality({i \in I : samples[i].duration < v}) * 100 < p * Cardinality(I)
=============================================================================
