------------------------------ MODULE Benchmark ------------------------------
(***************************************************************************)
(* The benchmark client (internal/democlient/benchmark.go): phases of      *)
(* concurrent workers, each with one MCP session and one call at a time,   *)
(* against the runbook server, directly or through the gateway.            *)
(*                                                                         *)
(* External: the MCP SDK and HTTP.  A progress callback runs on a          *)
(* goroutine of the SDK, so it may come after CallTool has returned, even  *)
(* during a later call.  A POST may be answered with an HTTP error, the    *)
(* exchange may break or time out (30 s), and the run's deadline may pass  *)
(* at any moment.                                                          *)
(*                                                                         *)
(* first is kept in updates: it is set by the same callback that makes     *)
(* updates positive.                                                       *)
(***************************************************************************)
EXTENDS Runbook

CONSTANTS
    Configs,    \* the configurations the client may be started with
    Statuses,   \* the HTTP errors the gateway or the server may answer with
    CallTimes,  \* how long a call may take
    MaxFaults   \* bound of the exploration: errors of servers and networks

ASSUME BenchmarkAssumption ==
    /\ Configs \subseteq [endpoints : BOOLEAN, concurrency : Seq(Int), calls : Int,
                          warmup : Int, repetitions : Int]
    /\ Statuses \subseteq Nat
    /\ CallTimes \subseteq Nat
    /\ MaxFaults \in Nat

VARIABLES
    config,     \* the configuration in use
    bench,      \* the locals of Benchmark and benchmarkPhase
    worker,     \* worker[w]: a benchmarkWorker and its goroutine
    exit,       \* what the client ends with: nil, ErrBenchmarkFailed, an error
    expired,    \* the context is done
    faults,     \* how much of MaxFaults is used
    tally       \* history: per tool, calls started and calls that succeeded

benchmarkVars == <<config, bench, worker, exit, expired, faults, tally>>

NoToken == <<>>

\* pc: between calls, inside CallTool, back from it, or done with this round.
\* error is what CallTool returned, own (history) counts the callbacks of this
\* very call, answered (history) the status its own POST was answered with.
NewWorker ==
    [pc |-> "ready", session |-> FALSE, call |-> 0, token |-> NoToken, updates |-> 0, status |-> 0, error |-> "", samples |-> <<>>, failed |-> FALSE,
     own |-> 0, answered |-> 0]

NoMeasurement == Aggregate(<<>>)

NewWorkers(n) == [w \in 1..n |-> NewWorker]

Phase == Plan(config)[bench.phase]

Measure(kind) == IF kind = "warmup" THEN config.warmup ELSE config.calls

\* The call worker w is making.
CallOf(w) == [phase |-> bench.phase, kind |-> bench.pc, worker |-> w, call |-> worker[w].call]

\* Mutant: warm-up and measured calls use the same tokens.
TokenWithoutKind(c) == <<c.worker, c.call>>

\* fmt.Sprintf("%s-%d-%d", phase, worker, call); sessions are the phase's own.
Token(c) == <<c.kind, c.worker, c.call>>

BenchmarkInit ==
    /\ config \in {Normalize(c) : c \in Configs}
    /\ bench = [pc |-> "normalize", phase |-> 0, failed |-> FALSE, successful |-> TRUE,
                last |-> NoMeasurement, overhead |-> {}]
    /\ exit = "running"
    /\ worker = NewWorkers(0)
    /\ expired \in BOOLEAN
    /\ faults \in 0..MaxFaults
    /\ tally = [t \in Tools |-> [started |-> 0, succeeded |-> 0]]
    /\ BackendInit

\* Something goes wrong that is not the client's deadline.
Fault == faults < MaxFaults /\ faults' = faults + 1

\* An exchange fails: always under a done context, else by a fault.
ExchangeFails == IF expired THEN UNCHANGED faults ELSE Fault

Set(w, x) == worker' = [worker EXCEPT ![w] = x]
-----------------------------------------------------------------------------
(* The goroutines of parallelWorkers.                                      *)

\* Connect and ListTools; a session that lacks the tool is closed later.
Setup(w) ==
    /\ bench.pc = "setup"
    /\ worker[w].pc = "ready"
    /\ \/ /\ ~expired
          /\ Set(w, [worker[w] EXCEPT !.pc = "done", !.session = TRUE])
          /\ UNCHANGED faults
       \/ /\ ExchangeFails
          /\ \E s \in BOOLEAN :
                Set(w, [worker[w] EXCEPT !.pc = "done", !.session = s, !.failed = TRUE])
    /\ UNCHANGED <<config, bench, exit, expired, tally, backendVars>>

\* Mutant: the status of an earlier exchange is left standing.
StartCallKeepingStatus(w) ==
    /\ bench.pc \in {"warmup", "measured"}
    /\ worker[w].pc = "ready" /\ worker[w].call < Measure(bench.pc) /\ ~expired
    /\ Set(w, [worker[w] EXCEPT !.pc = "calling", !.updates = 0,
                  !.token = IF Phase.tool = StreamTool THEN Token(CallOf(w)) ELSE NoToken,
                  !.own = 0, !.answered = 0])
    /\ tally' = [tally EXCEPT ![Phase.tool].started = @ + 1]
    /\ UNCHANGED <<config, bench, exit, expired, faults, backendVars>>

\* call, up to CallTool: the state progress works on is reset, under the mutex.
StartCall(w) ==
    /\ bench.pc \in {"warmup", "measured"}
    /\ worker[w].pc = "ready" /\ worker[w].call < Measure(bench.pc) /\ ~expired
    /\ Set(w, [worker[w] EXCEPT !.pc = "calling", !.updates = 0,
                  !.token = IF Phase.tool = StreamTool THEN Token(CallOf(w)) ELSE NoToken,
                  !.status = 0, !.own = 0, !.answered = 0])
    /\ tally' = [tally EXCEPT ![Phase.tool].started = @ + 1]
    /\ UNCHANGED <<config, bench, exit, expired, faults, backendVars>>

\* No more calls: all are made, or the context is done.
StopCalls(w) ==
    /\ bench.pc \in {"warmup", "measured"}
    /\ worker[w].pc = "ready"
    /\ worker[w].call = Measure(bench.pc) \/ expired
    /\ Set(w, [worker[w] EXCEPT !.pc = "done"])
    /\ UNCHANGED <<config, bench, exit, expired, faults, tally, backendVars>>

\* The call has been sent, is unanswered and not with the backend yet.
Posted(w) == worker[w].pc = "calling" /\ CallOf(w) \notin DOMAIN exec

\* RoundTrip of an accepted POST: the tool handler is entered.
Accept(w) ==
    /\ Posted(w) /\ worker[w].answered = 0
    /\ exec' = Entered(CallOf(w), Phase.tool, TRUE)
    /\ Set(w, [worker[w] EXCEPT !.status = 200, !.answered = 200])
    /\ UNCHANGED <<config, bench, exit, expired, faults, tally, progress, invocations>>

\* RoundTrip of a POST that is turned away.  An error status for a call whose
\* handler has been entered, a proxy's, say, appears as Break.
Reject(w) ==
    /\ Posted(w)
    /\ Fault
    /\ \E s \in Statuses :
          Set(w, [worker[w] EXCEPT !.pc = "returned", !.error = "rejected",
                                   !.status = s, !.answered = s])
    /\ UNCHANGED <<config, bench, exit, expired, tally, backendVars>>

\* Mutant: the SDK's transport reconnects and sends the call again.
BreakAndRetry(w) ==
    /\ worker[w].pc = "calling"
    /\ Fault
    /\ exec' = [c \in DOMAIN exec \ {CallOf(w)} |-> exec[c]]
    /\ Set(w, [worker[w] EXCEPT !.answered = 0])
    /\ UNCHANGED <<config, bench, exit, expired, tally, progress, invocations>>

\* The exchange breaks off, before or after the backend was reached.
Break(w) ==
    /\ worker[w].pc = "calling"
    /\ Fault
    /\ exec' = HungUp(CallOf(w))
    /\ Set(w, [worker[w] EXCEPT !.pc = "returned", !.error = "transport"])
    /\ UNCHANGED <<config, bench, exit, expired, tally, progress, invocations>>

\* Mutant: neither the run's context nor a timeout bounds an exchange.
GiveUpNever(w) == FALSE

\* The client's own limits: its context is done, or the 30 seconds are over.
GiveUp(w) ==
    /\ worker[w].pc = "calling"
    /\ ExchangeFails
    /\ exec' = HungUp(CallOf(w))
    /\ Set(w, [worker[w] EXCEPT !.pc = "returned", !.error = "deadline"])
    /\ UNCHANGED <<config, bench, exit, expired, tally, progress, invocations>>

\* CallTool returns the backend's reply.
Receive(w) ==
    LET c == CallOf(w)
    IN  /\ worker[w].pc = "calling"
        /\ c \in DOMAIN exec /\ exec[c].pc = "replied"
        /\ Set(w, [worker[w] EXCEPT !.pc = "returned",
                      !.error = IF exec[c].result = "content" THEN "" ELSE "tool_error"])
        /\ exec' = Without(c)
        /\ UNCHANGED <<config, bench, exit, expired, faults, tally, progress, invocations>>

HttpCategory(status) ==
    CASE status = 401 -> "http_401"
      [] status = 403 -> "http_403"
      [] status = 429 -> "http_429"
      [] status >= 500 -> "http_5xx"
      [] OTHER -> "http_other"

\* benchmarkError: the context comes first, then the status, then the error.
BenchmarkError(error, status) ==
    IF expired \/ error = "deadline" THEN "deadline"
    ELSE IF status >= 300 THEN HttpCategory(status) ELSE error

\* The verdict on a call that has returned.  A nil result, content without text and
\* a request for input, which the runbook server never answers with, would be
\* failures as tool_error is and have no category here; buffered: less than 25 ms have gone
\* by since the first callback.
Category(x, buffered) ==
    IF x.error = "tool_error" THEN "tool_error"
    ELSE IF x.error # "" THEN BenchmarkError(x.error, x.status)
    ELSE IF Phase.tool = ReadTool THEN ""
    ELSE IF x.updates # Steps THEN "stream_missing_progress"
    ELSE IF buffered THEN "stream_late_progress" ELSE ""

\* call, after CallTool: progress is read under the mutex and no longer wanted.
FinishCall(w) ==
    /\ worker[w].pc = "returned"
    /\ \E d \in CallTimes, buffered \in BOOLEAN :
          LET verdict == Category(worker[w], buffered)
          IN  /\ Set(w, [worker[w] EXCEPT
                    !.pc = "ready", !.call = @ + 1, !.token = NoToken, !.error = "",
                    !.failed = @ \/ (bench.pc = "warmup" /\ verdict # ""),
                    !.samples = IF bench.pc = "warmup" THEN @
                                ELSE Append(@, [category |-> verdict, duration |-> d])])
              /\ tally' = [tally EXCEPT ![Phase.tool].succeeded =
                              IF verdict = "" THEN @ + 1 ELSE @]
    /\ UNCHANGED <<config, bench, exit, expired, faults, backendVars>>

\* session.Close: 405 is as good as success; a done context fails the exchange.
CloseSession(w) ==
    /\ bench.pc = "close"
    /\ worker[w].pc = "ready"
    /\ \/ /\ ~worker[w].session \/ ~expired
          /\ Set(w, [worker[w] EXCEPT !.pc = "done"])
          /\ UNCHANGED faults
       \/ /\ worker[w].session
          /\ ExchangeFails
          /\ Set(w, [worker[w] EXCEPT !.pc = "done", !.failed = TRUE])
    /\ UNCHANGED <<config, bench, exit, expired, tally, backendVars>>

\* The SDK runs the progress callback of call c on the session's worker: it
\* counts if its token is the one of the call under way.
Progress(c) ==
    /\ exit = "running"
    /\ progress' = progress (-) SetToBag({c})
    /\ IF worker[c.worker].token = Token(c)
       THEN Set(c.worker, [worker[c.worker] EXCEPT
                   !.updates = @ + 1,
                   !.own = IF c = CallOf(c.worker) THEN @ + 1 ELSE @])
       ELSE UNCHANGED worker
    /\ UNCHANGED <<config, bench, exit, expired, faults, tally, exec, invocations>>
-----------------------------------------------------------------------------
(* The main goroutine.                                                     *)

\* New workers with sessions of their own: what is on its way to the old ones
\* reaches nobody.
StartPhase(i) ==
    /\ bench' = [bench EXCEPT !.pc = "setup", !.phase = i, !.failed = FALSE,
                              !.last = NoMeasurement]
    /\ worker' = NewWorkers(Plan(config)[i].concurrency)
    /\ progress' = EmptyBag

\* Benchmark begins: normalizeBenchmark, then the first phase.
Begin ==
    /\ bench.pc = "normalize"
    /\ IF Accepts(config) THEN StartPhase(1) /\ UNCHANGED exit
       ELSE exit' = "error" /\ UNCHANGED <<bench, worker, progress>>
    /\ UNCHANGED <<config, expired, faults, tally, exec, invocations>>

\* The round after this one; no calls are made unless every worker is set up.
After(round) ==
    IF round = "setup" /\ \E w \in DOMAIN worker : worker[w].failed THEN "close"
    ELSE [setup |-> "warmup", warmup |-> "measured", measured |-> "close",
          close |-> "aggregate"][round]

\* wg.Wait returns: every worker has ended the round.
EndRound ==
    /\ bench.pc \in {"setup", "warmup", "measured", "close"}
    /\ \A w \in DOMAIN worker : worker[w].pc = "done"
    /\ bench' = [bench EXCEPT !.pc = After(@),
                    !.failed = @ \/ \E w \in DOMAIN worker : worker[w].failed]
    /\ worker' = [w \in DOMAIN worker |->
                    [worker[w] EXCEPT !.pc = "ready", !.call = 0, !.failed = FALSE]]
    /\ UNCHANGED <<config, exit, expired, faults, tally, backendVars>>

\* The samples of a phase, worker by worker.
Samples == FoldFunction(LAMBDA x, rest : x.samples \o rest, <<>>, worker)

\* Mutant: errors of set-up, warm-up and close are reported but do not count.
PhaseSucceededLax(m) == m.attempts = Phase.concurrency * config.calls /\ m.errors = 0

PhaseSucceeded(m) ==
    m.attempts = Phase.concurrency * config.calls /\ m.errors = 0 /\ ~bench.failed

\* benchmarkPhase returns its measurement and Benchmark judges it.
EndPhase ==
    /\ bench.pc = "aggregate"
    /\ LET m == Aggregate(Samples)
       IN  bench' = [bench EXCEPT
                !.last = m,
                !.successful = @ /\ PhaseSucceeded(m) /\ ~expired,
                !.pc = IF expired \/ bench.phase = Len(Plan(config)) THEN "report" ELSE "next"]
    /\ UNCHANGED <<config, worker, exit, expired, faults, tally, backendVars>>

NextPhase ==
    /\ bench.pc = "next"
    /\ StartPhase(bench.phase + 1)
    /\ UNCHANGED <<config, exit, expired, faults, tally, exec, invocations>>

\* The report is written, or cannot be written, and Benchmark returns.
Report ==
    /\ bench.pc = "report"
    /\ bench' = [bench EXCEPT !.overhead =
                    IF bench.successful
                    THEN Overhead(SubSeq(Plan(config), 1, bench.phase)) ELSE {}]
    /\ exit' \in {"error", IF bench.successful THEN "ok" ELSE "ErrBenchmarkFailed"}
    /\ UNCHANGED <<config, worker, expired, faults, tally, backendVars>>

\* The deadline main gave the context.
Expire ==
    /\ exit = "running"
    /\ ~expired
    /\ expired' = TRUE
    /\ UNCHANGED <<config, bench, worker, exit, faults, tally, backendVars>>

\* What the client does by itself, timeouts included.
WorkerStep(w) ==
    \/ Setup(w) \/ StartCall(w) \/ StopCalls(w) \/ GiveUp(w) \/ FinishCall(w)
    \/ CloseSession(w)

MainStep == Begin \/ EndRound \/ EndPhase \/ NextPhase \/ Report

\* What servers, networks and the SDK do.
Outside ==
    \/ \E w \in DOMAIN worker : Accept(w) \/ Reject(w) \/ Break(w) \/ Receive(w)
    \/ \E c \in DOMAIN progress : Progress(c)
    \/ \E c \in DOMAIN exec : BackendStep(c) /\ UNCHANGED benchmarkVars

BenchmarkNext == MainStep \/ (\E w \in DOMAIN worker : WorkerStep(w)) \/ Outside
=============================================================================
