----------------------------- MODULE DemoClient -----------------------------
(***************************************************************************)
(* The demo client program (hack/mcp-client/main.go with                   *)
(* internal/democlient): one of four modes under one deadline.             *)
(*   benchmark  Benchmark, see module Benchmark;                           *)
(*   network    ProbeNetwork: dial every address of a host;                *)
(*   status     WaitForStatus: GET until the wanted status is answered;    *)
(*   run        Run: connect, list the tools, one tool call, close.        *)
(***************************************************************************)
EXTENDS Benchmark

CONSTANTS
    FlagSets,       \* the command lines that are explored
    Addresses       \* how many addresses the host may resolve to

ASSUME AddressesAssumption == Addresses \subseteq Nat

VARIABLE
    client          \* the command line, the mode's pc and locals

demoVars == <<client, benchmarkVars, backendVars>>

\* main's dispatch; log.Fatal before anything is done is mode "fatal".
Mode(f) ==
    IF ~f.sound THEN "fatal"
    ELSE IF f.benchmark
         THEN IF f.status # 0 \/ f.network # "" THEN "fatal" ELSE "benchmark"
    ELSE IF f.network # ""
         THEN IF f.network \notin {"allowed", "blocked"} \/ f.status # 0 \/ f.token
              THEN "fatal" ELSE "network"
    ELSE IF f.status # 0 THEN "status" ELSE "run"

\* failed: Run's error so far; dials (history): how each dial has ended.
ClientInit(f) ==
    client = [flags |-> f, pc |-> "start", failed |-> FALSE, addresses |-> 0, dials |-> <<>>]

ClientAt(mode, pc) == exit = "running" /\ Mode(client.flags) = mode /\ client.pc = pc

GoTo(pc) == client' = [client EXCEPT !.pc = pc]

Exit(e) == exit' = e /\ UNCHANGED client

\* What is not touched by a mode other than the benchmark, exit apart.
Kept == UNCHANGED <<config, bench, worker, expired>>

Fatal ==
    /\ ClientAt("fatal", "start")
    /\ Exit("error")
    /\ Kept /\ UNCHANGED <<faults, tally, backendVars>>
-----------------------------------------------------------------------------
(* ProbeNetwork.                                                           *)

\* validateTarget and the lookup.
Resolve ==
    /\ ClientAt("network", "start")
    /\ \/ ExchangeFails /\ Exit("error")
       \/ /\ ~expired
          /\ \E n \in Addresses :
                IF n = 0 THEN Exit("error")
                ELSE client' = [client EXCEPT !.pc = "dial", !.addresses = n] /\ UNCHANGED exit
          /\ UNCHANGED faults
    /\ Kept /\ UNCHANGED <<tally, backendVars>>

\* A dial ends: connected, refused, after its own 3 seconds, or with the run's
\* deadline, which the dialer reports as a timeout too.  Assumed: it does so only
\* once the context is done.  Socket and context have timers of their own for that
\* one instant; a socket's that fires first would pass for a blocked dial.
Dial ==
    /\ ClientAt("network", "dial")
    /\ \E d \in IF expired THEN {"deadline"} ELSE {"connected", "refused", "timeout"} :
          client' = [client EXCEPT !.pc = "judge", !.dials = Append(@, d)]
    /\ Kept /\ UNCHANGED <<exit, faults, tally, backendVars>>

\* Mutant: any timeout will do.
BlockedAnyTimeout(d) == d \in {"timeout", "deadline"}

\* The dial counts as blocked: a timeout, and the run's context is not done.
Blocked(d) == d \in {"timeout", "deadline"} /\ ~expired

\* One round of the loop, after the dial; the last one also writes the verdict.
Judge ==
    LET d == client.dials[Len(client.dials)]
        expected == IF client.flags.network = "blocked" THEN Blocked(d) ELSE d = "connected"
    IN  /\ ClientAt("network", "judge")
        /\ \/ ~expected /\ Exit("error")
           \/ /\ expected /\ Len(client.dials) < client.addresses
              /\ GoTo("dial") /\ UNCHANGED exit
           \/ /\ expected /\ Len(client.dials) = client.addresses
              /\ \E e \in {"ok", "error"} : Exit(e)
        /\ Kept /\ UNCHANGED <<faults, tally, backendVars>>
-----------------------------------------------------------------------------
(* WaitForStatus.                                                          *)

\* One GET, bounded by 5 seconds and by the context: the wanted status, which is
\* then written down, another one, an error, or a body that cannot be closed.
Get ==
    /\ ClientAt("status", "start")
    /\ \/ ~expired /\ Exit("ok")
       \/ Exit("error")
       \/ GoTo("select") /\ UNCHANGED exit
    /\ Kept /\ UNCHANGED <<faults, tally, backendVars>>

Tick ==
    /\ ClientAt("status", "select")
    /\ GoTo("start")
    /\ Kept /\ UNCHANGED <<exit, faults, tally, backendVars>>

Done ==
    /\ ClientAt("status", "select")
    /\ expired
    /\ Exit("error")
    /\ Kept /\ UNCHANGED <<faults, tally, backendVars>>
-----------------------------------------------------------------------------
(* Run.                                                                    *)

RunCall == [phase |-> 0, kind |-> "run", worker |-> 0, call |-> 0]

\* The checks of Run and Connect.
Connect ==
    /\ ClientAt("run", "start")
    /\ \/ ~client.flags.token /\ Exit("error") /\ UNCHANGED faults
       \/ client.flags.token /\ ExchangeFails /\ Exit("error")
       \/ client.flags.token /\ ~expired /\ GoTo("list") /\ UNCHANGED <<exit, faults>>
    /\ Kept /\ UNCHANGED <<tally, backendVars>>

\* An error before or after the call; the deferred Close follows.
RunFails == client' = [client EXCEPT !.pc = "close", !.failed = TRUE]

\* ListTools; a failed write of the output ends Run too.
ListTools ==
    /\ ClientAt("run", "list")
    /\ \/ ExchangeFails /\ RunFails /\ UNCHANGED tally
       \/ /\ ~expired
          /\ GoTo("calling")
          /\ tally' = [tally EXCEPT ![ReadTool].started = @ + 1]
          /\ UNCHANGED faults
    /\ Kept /\ UNCHANGED <<exit, backendVars>>

\* The call reaches the tool handler; the topic is an embedded one or is not.
RunAccepted ==
    /\ ClientAt("run", "calling")
    /\ RunCall \notin DOMAIN exec
    /\ \E known \in BOOLEAN : exec' = Entered(RunCall, ReadTool, known)
    /\ Kept /\ UNCHANGED <<client, exit, faults, tally, progress, invocations>>

RunGivesUp ==
    /\ ClientAt("run", "calling")
    /\ ExchangeFails
    /\ RunFails
    /\ exec' = HungUp(RunCall)
    /\ Kept /\ UNCHANGED <<exit, tally, progress, invocations>>

\* The reply is an error, has no content, cannot be written down, or is written.
RunReceives ==
    /\ ClientAt("run", "calling")
    /\ RunCall \in DOMAIN exec /\ exec[RunCall].pc = "replied"
    /\ \/ /\ exec[RunCall].result = "content"
          /\ GoTo("close")
          /\ tally' = [tally EXCEPT ![ReadTool].succeeded = @ + 1]
       \/ RunFails /\ UNCHANGED tally
    /\ exec' = Without(RunCall)
    /\ Kept /\ UNCHANGED <<exit, faults, progress, invocations>>

\* session.Close is answered; its error is joined to Run's.
RunCloses ==
    /\ ClientAt("run", "close")
    /\ \E e \in {"ok", "error"} : (client.failed => e = "error") /\ Exit(e)
    /\ Kept /\ UNCHANGED <<faults, tally, backendVars>>
-----------------------------------------------------------------------------
DemoInit ==
    /\ BenchmarkInit
    /\ \E f \in FlagSets : ClientInit(f)

BenchmarkMode == exit = "running" /\ Mode(client.flags) = "benchmark" /\ UNCHANGED client

\* What the client does by itself, its timeouts and its context included.
ClientStep ==
    \/ Fatal \/ Resolve \/ Dial \/ Judge \/ Get \/ Tick \/ Connect \/ ListTools \/ RunGivesUp

DemoNext ==
    \/ ClientStep \/ Done \/ RunAccepted \/ RunReceives \/ RunCloses
    \/ BenchmarkMode /\ (MainStep \/ \E w \in DOMAIN worker : WorkerStep(w))
    \/ Outside /\ UNCHANGED client
    \/ Expire /\ UNCHANGED client

DemoSpec == DemoInit /\ [][DemoNext]_demoVars

\* main's context has a timeout, every exchange is bounded by it, a goroutine
\* that can go on does, and a select that is ready infinitely often for the done
\* context takes it: Go chooses among the ready cases at random.  Nothing is
\* asked of servers and networks.
DemoFairness ==
    /\ WF_demoVars(Expire /\ UNCHANGED client)
    /\ WF_demoVars(ClientStep)
    /\ SF_demoVars(Done)
    /\ WF_demoVars(BenchmarkMode /\ MainStep)
    /\ \A w \in 1..Limit.workers :
          WF_demoVars(BenchmarkMode /\ w \in DOMAIN worker /\ WorkerStep(w))

LiveDemoSpec == DemoSpec /\ DemoFairness
-----------------------------------------------------------------------------
\* The values the client's and the backend's variables may take.
DemoTypeOK ==
    /\ client.flags \in FlagSets
    /\ client.pc \in {"start", "dial", "judge", "select", "list", "calling", "close"}
    /\ bench.pc \in {"normalize", "setup", "warmup", "measured", "close", "aggregate", "next",
                     "report"}
    /\ \A w \in DOMAIN worker :
          /\ worker[w].pc \in {"ready", "calling", "returned", "done"}
          /\ worker[w].updates \in Nat
          /\ worker[w].status \in Statuses \cup {0, 200}
    /\ \A c \in DOMAIN exec : exec[c] \in Execution
    /\ \A c \in DOMAIN progress : progress[c] \in Nat \ {0}
    /\ exit \in {"running", "ok", "error", "ErrBenchmarkFailed"}
    /\ faults \in 0..MaxFaults
    /\ expired \in BOOLEAN

\* The progress a worker has counted is that of the call it is making: callbacks
\* of an earlier call that come late are never taken for it.
ProgressIsOwn == \A w \in DOMAIN worker : worker[w].updates = worker[w].own

\* An HTTP category names what the failed call itself was answered with, never
\* the answer to an earlier exchange of the same session.
StatusIsOwn ==
    \A w \in DOMAIN worker :
        worker[w].pc = "returned" /\ worker[w].error \notin {"", "tool_error"} =>
            LET category == BenchmarkError(worker[w].error, worker[w].status)
            IN  (\E s \in Statuses : category = HttpCategory(s)) =>
                    category = HttpCategory(worker[w].answered)

\* The samples of mcp_backend_tool_invocations_total that a scrape would see.
Counted(tool, outcome) ==
    IF <<tool, outcome>> \in DOMAIN invocations THEN invocations[<<tool, outcome>>] ELSE 0

\* Handlers of tool that have been entered, as far as they are counted or run.
Executions(tool) ==
    Counted(tool, "success") + Counted(tool, "error") + Counted(tool, "cancelled")
    + Cardinality({c \in DOMAIN exec : exec[c].tool = tool /\ exec[c].pc # "replied"})

\* No call is executed twice, whatever breaks (docs: no application-level retries),
\* and a call the client takes for a success is one the backend has counted so.
BackendAgrees ==
    \A t \in Tools :
        /\ Executions(t) <= tally[t].started
        /\ tally[t].succeeded <= Counted(t, "success")

\* The calls of the whole run on one tool, warm-up included.
Planned(tool) ==
    LET phases == {i \in DOMAIN Plan(config) : Plan(config)[i].tool = tool}
    IN  UNION {PlannedCalls(config, phases, kind, Measure(kind)) : kind \in {"warmup", "measured"}}

\* A client that reports success has been served exactly what it planned: the
\* backend has counted that many successes, nothing else, and nothing still runs.
ReportMatchesBackend ==
    exit = "ok" /\ Mode(client.flags) \in {"benchmark", "run"} =>
        /\ exec = [c \in {} |-> 0]
        /\ \A t \in Tools :
              LET calls == IF Mode(client.flags) = "benchmark" THEN Cardinality(Planned(t))
                           ELSE IF t = ReadTool THEN 1 ELSE 0
              IN  Counted(t, "success") = calls /\ Executions(t) = calls

\* An accepted benchmark makes at most Limit.total measured calls, and every
\* phase against the server has exactly one against the gateway to compare with.
PlanIsSound ==
    bench.pc = "setup" =>
        LET plan == Plan(config)
            pairs == Overhead(plan)
        IN  /\ Cardinality(PlannedCalls(config, DOMAIN plan, "measured", config.calls))
                  <= Limit.total
            /\ \A i \in DOMAIN plan :
                  Cardinality({p \in pairs : i \in {p[1], p[2]}}) = 1

\* A measurement's percentiles are the nearest-rank percentiles of all of its
\* samples and of its successful ones, whatever order the workers end in.
PercentilesAreNearestRank ==
    bench.pc \in {"next", "report"} =>
        \A m \in {<<bench.last.completion, DOMAIN Samples>>,
                  <<bench.last.success, Successes(Samples)>>} :
            /\ m[1].samples = Cardinality(m[2])
            /\ m[2] # {} =>
                  /\ IsPercentile(m[1].p50, 50, Samples, m[2])
                  /\ IsPercentile(m[1].p95, 95, Samples, m[2])
                  /\ IsPercentile(m[1].p99, 99, Samples, m[2])

\* "Network probe passed; blocked" is reported only if every address was dialled
\* and every dial ran into its own timeout, not into the deadline of the run.
IsolationIsEarned ==
    exit = "ok" /\ client.flags.network = "blocked" =>
        client.dials = [i \in 1..client.addresses |-> "timeout"]

\* Every mode ends once the deadline has passed, whatever servers and networks
\* do; only Run may wait on, for the answer to its closing exchange.
Terminates == <>(exit # "running" \/ client.pc = "close")
=============================================================================
