------------------------------- MODULE Runbook -------------------------------
(***************************************************************************)
(* The runbook MCP server (internal/runbookmcp): its two tools and the     *)
(* outcome metric that wraps them.  Executions of different calls          *)
(* interleave; the caller may hang up at any moment, and the request's     *)
(* context is done some time after it has (PropagateRequestCancellation).  *)
(*                                                                         *)
(* External: the MCP SDK and the HTTP server below it.  An execution is    *)
(* named by the call it belongs to; its reply is on the way once it is     *)
(* counted.  The only caller of the streaming tool sets a progress token.  *)
(***************************************************************************)
EXTENDS BenchmarkReport, Bags

VARIABLES
    exec,           \* exec[c]: the execution of call c
    progress,       \* progress notifications on their way, named by their call
    invocations     \* mcp_backend_tool_invocations_total by <<tool, outcome>>

backendVars == <<exec, progress, invocations>>

Steps == 3

Tools == {ReadTool, StreamTool}

\* open: the caller has not hung up; once it has, the context may be done.
Execution ==
    [tool : Tools, known : BOOLEAN, pc : {"run", "returned", "replied"}, step : 0..Steps,
     result : {"none", "content", "error", "cancelled"}, open : BOOLEAN]

BackendInit ==
    /\ exec = [c \in {} |-> 0]
    /\ progress = EmptyBag
    /\ invocations = EmptyBag

Without(c) == [x \in DOMAIN exec \ {c} |-> exec[x]]

\* The handler of c is entered; known: the topic is one of the embedded ones.
Entered(c, tool, known) ==
    [x \in DOMAIN exec \cup {c} |-> IF x # c THEN exec[x] ELSE
        [tool |-> tool, known |-> known, pc |-> "run", step |-> 0, result |-> "none",
         open |-> TRUE]]

\* The caller of c, if there still is one, hangs up.
HungUp(c) ==
    IF c \notin DOMAIN exec THEN exec
    ELSE IF exec[c].pc = "replied" THEN Without(c)
    ELSE [exec EXCEPT ![c].open = FALSE]

HandlerReturns(c, result) ==
    /\ exec' = [exec EXCEPT ![c].pc = "returned", ![c].result = result]
    /\ UNCHANGED <<progress, invocations>>

\* readRunbook, also as the first act of streamRunbook.
ReadRunbook(c) ==
    /\ exec[c].pc = "run"
    /\ \/ ~exec[c].known /\ HandlerReturns(c, "error")
       \/ exec[c].known /\ exec[c].tool = ReadTool /\ HandlerReturns(c, "content")

\* Mutant: one round too many.
NotifyOnceMore(c) ==
    /\ exec[c].pc = "run" /\ exec[c].step <= Steps
    /\ exec[c].tool = StreamTool /\ exec[c].known
    /\ exec' = [exec EXCEPT ![c].step = @ + 1]
    /\ progress' = IF exec[c].open THEN progress (+) SetToBag({c}) ELSE progress
    /\ UNCHANGED invocations

\* One round of streamRunbook: the 50 ms of the round before are over, the
\* context is not seen done, a notification is sent.
NotifyProgress(c) ==
    /\ exec[c].pc = "run" /\ exec[c].step < Steps
    /\ exec[c].tool = StreamTool /\ exec[c].known
    /\ exec' = [exec EXCEPT ![c].step = @ + 1]
    /\ progress' = IF exec[c].open THEN progress (+) SetToBag({c}) ELSE progress
    /\ UNCHANGED invocations

\* The last 50 ms are over.
StreamEnds(c) ==
    /\ exec[c].pc = "run" /\ exec[c].step = Steps
    /\ HandlerReturns(c, "content")

\* The context is seen done, before a notification or while waiting, or the
\* notification cannot be written any more.
StreamStops(c) ==
    /\ exec[c].pc = "run" /\ ~exec[c].open
    /\ exec[c].tool = StreamTool /\ exec[c].known
    /\ \/ HandlerReturns(c, "cancelled")
       \/ exec[c].step < Steps /\ HandlerReturns(c, "error")

\* What observe's deferred function may count: it looks at the context again.
Outcomes(x) ==
    IF x.result = "cancelled" THEN {"cancelled"}
    ELSE (IF x.open THEN {} ELSE {"cancelled"})
         \cup {IF x.result = "error" THEN "error" ELSE "success"}

\* The deferred function counts; then the reply leaves, if anyone waits for it.
Observe(c) ==
    /\ exec[c].pc = "returned"
    /\ \E o \in Outcomes(exec[c]) : invocations' = invocations (+) SetToBag({<<exec[c].tool, o>>})
    /\ exec' = IF exec[c].open THEN [exec EXCEPT ![c].pc = "replied"] ELSE Without(c)
    /\ UNCHANGED progress

BackendStep(c) ==
    \/ ReadRunbook(c) \/ NotifyProgress(c) \/ StreamEnds(c) \/ StreamStops(c) \/ Observe(c)
=============================================================================
