---------------------------- MODULE MCDemoClient ----------------------------
(***************************************************************************)
(* A small instance of DemoClient.  Configurations that are run to the end *)
(* are small; wider ones are accepted or rejected, and end with a deadline *)
(* that has passed at the start.  Two more kinds of initial state are of a *)
(* benchmark under way: about to begin its last phase, for the errors of   *)
(* servers and networks, and with all calls of its first phase made, for   *)
(* percentiles of more samples than a run is explored for.                 *)
(***************************************************************************)
EXTENDS DemoClient

MCDefault == [concurrency |-> <<1>>, calls |-> 1, warmup |-> 1, repetitions |-> 1]
MCLimit ==
    [lists |-> 2, workers |-> 2, calls |-> 20, warmup |-> 2, repetitions |-> 2, total |-> 80]

MCConfigs ==
    [endpoints : BOOLEAN, concurrency : {<<>>, <<1>>, <<1, 1>>, <<2, 1>>, <<1, 2>>, <<3>>},
     calls : {0, 4, 10, 20, 21}, warmup : {0, 3}, repetitions : {0, 2}]

MCFlagSets ==
    [sound : BOOLEAN, benchmark : BOOLEAN, status : {0, 200},
     network : {"", "allowed", "blocked", "other"}, token : BOOLEAN]

\* The benchmark that is run to the end, and its command line.
SmallConfig == Normalize(MCDefault @@ [endpoints |-> TRUE])
BenchmarkFlags ==
    [sound |-> TRUE, benchmark |-> TRUE, status |-> 0, network |-> "", token |-> TRUE]

\* The durations of the calls of a phase, in the order they were made.
Measured ==
    UNION {[1..n -> 1..3] : n \in 1..4} \cup {[i \in 1..20 |-> (7 * i) % 20]}

\* The benchmark is under way: so many calls on each tool have been made, all but
\* bad ones on the reading tool with success.
UnderWay(read, stream, bad) ==
    /\ tally = (ReadTool :> [started |-> read, succeeded |-> read - bad]
                @@ StreamTool :> [started |-> stream, succeeded |-> stream])
    /\ invocations = [o \in {<<t, "success">> : t \in {ReadTool} \cup
                                 (IF stream > 0 THEN {StreamTool} ELSE {})} |->
                        IF o[1] = ReadTool THEN read - bad ELSE stream]
    /\ exec = [c \in {} |-> 0] /\ progress = EmptyBag
    /\ exit = "running"
    /\ ClientInit(BenchmarkFlags)

BenchAt(pc, phase) ==
    [pc |-> pc, phase |-> phase, failed |-> FALSE, successful |-> TRUE,
     last |-> NoMeasurement, overhead |-> {}]

\* Every call of phase 1 is made, the first with an error if bad = 1.
MeasuredState(durations, bad) ==
    LET n == Len(durations)
    IN  /\ config = [SmallConfig EXCEPT !.calls = n]
        /\ bench = BenchAt("aggregate", 1)
        /\ worker = [w \in {1} |-> [NewWorker EXCEPT !.session = TRUE,
              !.samples = [i \in 1..n |-> [duration |-> durations[i],
                              category |-> IF i <= bad THEN "transport" ELSE ""]]]]
        /\ expired = TRUE
        /\ faults = bad
        /\ UnderWay(n + 1, 0, bad)

\* All phases but the last have gone well.
LastPhase ==
    /\ config = SmallConfig
    /\ bench = BenchAt("next", Len(Plan(config)) - 1)
    /\ worker = NewWorkers(0)
    /\ expired = FALSE
    /\ faults = 0
    /\ UnderWay(4, 2, 0)

\* For a benchmark from its start, no error of a server or a network is explored.
AtStart ==
    /\ DemoInit
    /\ IF Mode(client.flags) = "benchmark"
       THEN client.flags.token /\ faults = MaxFaults /\ (expired \/ config = SmallConfig)
       ELSE config = SmallConfig /\ faults = 0

MCInit == AtStart \/ LastPhase \/ \E d \in Measured, bad \in 0..1 : MeasuredState(d, bad)

MCSpec == MCInit /\ [][DemoNext]_demoVars /\ DemoFairness
=============================================================================
