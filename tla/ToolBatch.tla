----------------------------- MODULE ToolBatch -----------------------------
(***************************************************************************)
(* How a session's turns execute the tool calls of the model's replies:    *)
(* agent/runner.py, _partition_tool_batches, _execute_tools,               *)
(* _execute_parallel_batch and _run_tool_core, with the per-turn limits    *)
(* (once-per-turn, circuit breaker, idempotency, external lookups) and the *)
(* per-session denials.                                                    *)
(*                                                                         *)
(* A reply's calls are split into batches: a run of concurrency-safe calls *)
(* is one batch, executed by parallel tasks under an optional semaphore;   *)
(* any other call is a batch of its own, executed inline.  A call checks   *)
(* all limits before its first await and records its success after its     *)
(* last one, so that the checks of parallel calls can be stale.            *)
(*                                                                         *)
(* What a tool does and says is left out: a result is the number of the    *)
(* call it belongs to.                                                     *)
(***************************************************************************)
EXTENDS Naturals, Sequences, FiniteSets

CONSTANTS
    Tools,
    Calls,       \* the <<tool, arguments>> the model may ask for
    SafeTools,   \* concurrency_safe
    OnceTools,   \* once_per_turn
    LookupTools, \* web_search, web_fetch
    AskTools,    \* ask_user
    Threshold,   \* [Tools -> Nat]: circuit breaker
    MaxLookups,  \* _MAX_REPEAT_EXTERNAL_LOOKUPS
    Limit,       \* tool_concurrency_limit, 0 for none
    MaxCalls,    \* bound: calls of one reply
    MaxMade,     \* bound: calls of all turns
    MaxTurns     \* bound: turns of the session

\* close_episode and ask_user are not concurrency-safe.
ASSUME ToolAssumption ==
    /\ Calls \subseteq Tools \X {c[2] : c \in Calls}
    /\ SafeTools \cup OnceTools \cup LookupTools \cup AskTools \subseteq Tools
    /\ SafeTools \cap (OnceTools \cup AskTools) = {}
    /\ Threshold \in [Tools -> Nat \ {0}]
    /\ MaxLookups \in Nat /\ Limit \in Nat
    /\ {MaxCalls, MaxMade, MaxTurns} \subseteq Nat \ {0}

VARIABLES
    concurrent,  \* spec.concurrent_tools: TRUE in conversations, FALSE in
                 \* the runs of subagents and of the memory phases
    pc,          \* "idle", "model", "tools"
    turn, made,  \* turns so far, calls so far
    trigger,     \* of the latest turn: "user" or "system" (cron, nudges)
    calls,       \* tool_calls of the current reply
    status,      \* of each of them
    first,       \* the call the current batch starts with
    results,     \* the results so far, each as the number of its call
    keys, counts, once, lookups,  \* the turn's limits
    denied,      \* _denied_tools of the session
    runs, succ,  \* history: executions and successes of each call, this turn
    orphans      \* calls of cancelled turns whose tasks still run

limits == <<keys, counts, once, lookups>>
vars == <<concurrent, pc, turn, trigger, made, calls, status, first, results, limits,
          denied, runs, succ, orphans>>

Statuses == {"waiting", "running", "succeeded", "failed", "done"}

TypeOK ==
    /\ concurrent \in BOOLEAN
    /\ pc \in {"idle", "model", "tools"}
    /\ turn \in 0..MaxTurns /\ made \in 0..MaxMade
    /\ trigger \in {"user", "system"}
    /\ calls \in Seq(Calls) /\ Len(calls) <= MaxCalls
    /\ status \in [DOMAIN calls -> Statuses]
    /\ first \in 1..MaxCalls + 1
    /\ results \in Seq(DOMAIN calls)
    /\ keys \subseteq Calls /\ once \subseteq OnceTools /\ denied \subseteq Tools
    /\ counts \in [Tools -> Nat]
    /\ {lookups, runs, succ} \subseteq [Calls -> Nat]
    /\ orphans \in [Calls -> Nat]

Zero(S) == [x \in S |-> 0]
Add(f, x) == [f EXCEPT ![x] = @ + 1]

Init ==
    /\ concurrent \in BOOLEAN
    /\ pc = "idle" /\ turn = 0 /\ trigger = "system" /\ made = 0
    /\ calls = <<>> /\ status = <<>> /\ first = 1 /\ results = <<>>
    /\ keys = {} /\ counts = Zero(Tools) /\ once = {} /\ lookups = Zero(Calls)
    /\ denied = {}
    /\ runs = Zero(Calls) /\ succ = Zero(Calls) /\ orphans = Zero(Calls)

-----------------------------------------------------------------------------
(* Batches *)

Safe(i) == calls[i][1] \in SafeTools

\* Mutant: any two calls may share a batch.
BatchOfAll ==
    IF concurrent THEN {j \in DOMAIN calls : j >= first} ELSE {first}

\* _partition_tool_batches: the batch that starts with the call first.
Batch ==
    {first} \cup {j \in DOMAIN calls : concurrent /\ j > first
                                         /\ \A i \in first..j : Safe(i)}

Parallel == Cardinality(Batch) > 1
With(s) == {i \in Batch : status[i] = s}
InFlight == With("running") \cup With("succeeded") \cup With("failed")

\* The semaphore is there only if the limit is below the size of the batch.
Slots ==
    IF Limit \in 1..Cardinality(Batch) - 1 THEN Limit ELSE Cardinality(Batch)

\* Mutant: a finished call keeps its slot.
SlotNeverFreed == Cardinality(Batch \ With("waiting")) < Slots

SlotFree == Cardinality(InFlight) < Slots

\* The tasks of a batch get to run in order.
Startable ==
    {i \in Batch : /\ status[i] = "waiting" /\ SlotFree
                   /\ \A j \in Batch : j < i => status[j] # "waiting"}

\* Their first steps are scheduled back to back: those that find a free slot
\* start before any of them goes on.
Started == \A i \in Startable : i >= first + Slots

-----------------------------------------------------------------------------
(* One call: _run_tool_core *)

\* The result of an inline call is kept.  That of a parallel one is not: the
\* loop over the finished tasks appends it only after an exception, and
\* _run_tool_core turns every exception into a result.
Return(i) == results' = IF Parallel THEN results ELSE Append(results, i)

Becomes(i, s) == status' = [status EXCEPT ![i] = s]

\* Mutant: a once-per-turn tool is recognised by its arguments only.
SkippedPerArguments(c) ==
    \/ c[1] \in denied
    \/ counts[c[1]] >= Threshold[c[1]]
    \/ c[1] \notin LookupTools /\ c \in keys

\* Denied, once-per-turn, circuit breaker, idempotency, in this order.
Skipped(c) ==
    \/ c[1] \in denied
    \/ c[1] \in once
    \/ counts[c[1]] >= Threshold[c[1]]
    \/ c[1] \notin LookupTools /\ c \in keys

\* repeated_external_lookup_error: counts the attempt before it is made.
Attempted(c) == IF c[1] \in LookupTools THEN Add(lookups, c) ELSE lookups

\* _persist_session_denied_tool: a failure is a permanent denial or not.  Only
\* conversations keep denials (sessions is None elsewhere).
Denials(t) == {denied} \cup IF concurrent THEN {denied \cup {t}} ELSE {}

\* The synchronous part of the call: skipped, refused or started.
StartTool(i) ==
    LET c == calls[i]
    IN  /\ pc = "tools"
        /\ i \in Startable
        /\ \/ /\ Skipped(c)
              /\ Becomes(i, "done") /\ Return(i)
              /\ UNCHANGED <<lookups, denied, runs>>
           \/ /\ ~Skipped(c)
              /\ lookups' = Attempted(c)
              /\ IF lookups'[c] > MaxLookups
                   THEN /\ Becomes(i, "done") /\ Return(i)
                        /\ UNCHANGED <<denied, runs>>
                   ELSE \/ /\ Becomes(i, "running")
                           /\ runs' = Add(runs, c)
                           /\ UNCHANGED <<denied, results>>
                        \/ /\ Becomes(i, "failed")       \* prep_error
                           /\ denied' \in Denials(c[1])
                           /\ UNCHANGED <<runs, results>>
    /\ UNCHANGED <<concurrent, pc, turn, trigger, made, calls, first, keys, counts, once,
                   succ, orphans>>

\* The tool returns or raises; a failure may be a permanent denial.  The audit
\* that follows always suspends the call.
ToolReturns(i) ==
    /\ pc = "tools"
    /\ i \in With("running")
    /\ Started
    /\ calls[i][1] \notin AskTools
    /\ \/ /\ Becomes(i, "succeeded")
          /\ succ' = Add(succ, calls[i])
          /\ UNCHANGED denied
       \/ /\ Becomes(i, "failed")
          /\ denied' \in Denials(calls[i][1])
          /\ UNCHANGED succ
    /\ UNCHANGED <<concurrent, pc, turn, trigger, made, calls, first, results, limits,
                   runs, orphans>>

\* What a successful call leaves behind for the rest of the turn.
Record(c) ==
    /\ counts' = Add(counts, c[1])
    /\ keys' = IF c[1] \in LookupTools THEN keys ELSE keys \cup {c}
    /\ once' = once \cup ({c[1]} \cap OnceTools)

\* The audit is done.
CallReturns(i) ==
    /\ pc = "tools"
    /\ i \in InFlight \ With("running")
    /\ Started
    /\ Becomes(i, "done") /\ Return(i)
    /\ IF status[i] = "succeeded" THEN Record(calls[i]) ELSE UNCHANGED <<keys, counts, once>>
    /\ UNCHANGED <<concurrent, pc, turn, trigger, made, calls, first, lookups, denied, runs,
                   succ, orphans>>

-----------------------------------------------------------------------------
(* The loop around the calls *)

NoCalls == calls' = <<>> /\ status' = <<>> /\ first' = 1 /\ results' = <<>>

\* Mutant: every new turn clears the denials.
BeginTurnClearing ==
    /\ pc = "idle" /\ turn < MaxTurns
    /\ turn' = turn + 1 /\ pc' = "model"
    /\ trigger' \in {"user", "system"}
    /\ denied' = {}
    /\ UNCHANGED <<concurrent, made, calls, status, first, results, limits, runs,
                   succ, orphans>>

\* BUILD and the start of AgentRunner.run.  A message of the user clears the
\* denials; a turn that cron or a nudge triggers does not.
BeginTurn ==
    /\ pc = "idle" /\ turn < MaxTurns
    /\ turn' = turn + 1 /\ pc' = "model"
    /\ trigger' \in {"user", "system"}
    /\ denied' = IF trigger' = "user" THEN {} ELSE denied
    /\ UNCHANGED <<concurrent, made, calls, status, first, results, limits, runs,
                   succ, orphans>>

\* The limits are local to AgentRunner.run; the denials are the session's.
TurnOver ==
    /\ pc' = "idle" /\ UNCHANGED made
    /\ NoCalls
    /\ keys' = {} /\ counts' = Zero(Tools) /\ once' = {} /\ lookups' = Zero(Calls)
    /\ runs' = Zero(Calls) /\ succ' = Zero(Calls)
    /\ UNCHANGED <<concurrent, turn, trigger, denied>>

\* A reply with tool calls, which are cut off after the first ask_user.
ModelCalls ==
    /\ pc = "model"
    /\ \E n \in 1..MaxCalls : \E cs \in [1..n -> Calls] :
         /\ made + n <= MaxMade
         /\ \A i \in 1..n - 1 : cs[i][1] \notin AskTools
         /\ calls' = cs /\ made' = made + n
    /\ pc' = "tools"
    /\ status' = [i \in DOMAIN calls' |-> "waiting"]
    /\ first' = 1 /\ results' = <<>>
    /\ UNCHANGED <<concurrent, turn, trigger, limits, denied, runs, succ, orphans>>

\* The next batch, or back to the model with the results.
BatchReturns ==
    /\ pc = "tools"
    /\ With("done") = Batch
    /\ LET next == first + Cardinality(Batch)
       IN  IF next \in DOMAIN calls
             THEN first' = next /\ UNCHANGED <<pc, calls, status, results>>
             ELSE pc' = "model" /\ NoCalls
    /\ UNCHANGED <<concurrent, turn, trigger, made, limits, denied, runs, succ, orphans>>

\* The final answer, or an exception or cancellation elsewhere in the loop.
EndTurn ==
    /\ pc = "model"
    /\ TurnOver
    /\ UNCHANGED orphans

\* AskUserInterrupt is a BaseException: no handler of _run_tool_core, of
\* _execute_tools (ask_user is never in a parallel batch) or of run catches it.
AskEscapes(i) ==
    /\ pc = "tools"
    /\ i \in With("running")
    /\ calls[i][1] \in AskTools
    /\ TurnOver
    /\ UNCHANGED orphans

\* How often the call c is among the calls with the numbers in S.
Among(c, S) == Cardinality({i \in S : calls[i] = c})

\* Mutant: an inline call is detached like the tasks of a batch.
CancelledDetaching ==
    /\ pc = "tools"
    /\ TurnOver
    /\ orphans' = [c \in Calls |-> orphans[c] + Among(c, Batch \ With("done"))]

\* /stop or a timeout cancels the turn.  A running inline call is cancelled
\* with it; during its audit the cancellation is swallowed, which is no step.
\* asyncio.wait leaves the tasks of a parallel batch alone: they go on, the
\* ones that wait for the semaphore included.
Cancelled ==
    /\ pc = "tools"
    /\ Parallel \/ With("running") # {}
    /\ TurnOver
    /\ orphans' = IF Parallel
                    THEN [c \in Calls |-> orphans[c] + Among(c, Batch \ With("done"))]
                    ELSE orphans

\* A detached task ends.  It writes to the limits of its own turn, which is
\* gone, but a denial still reaches the session.
OrphanEnds(c) ==
    /\ orphans[c] > 0
    /\ orphans' = [orphans EXCEPT ![c] = @ - 1]
    /\ denied' \in Denials(c[1])
    /\ UNCHANGED <<concurrent, pc, turn, trigger, made, calls, status, first, results, limits,
                   runs, succ>>

-----------------------------------------------------------------------------
CallStep(i) == StartTool(i) \/ ToolReturns(i) \/ CallReturns(i) \/ AskEscapes(i)

Next ==
    \/ BeginTurn
    \/ ModelCalls
    \/ \E i \in DOMAIN calls : CallStep(i)
    \/ BatchReturns
    \/ EndTurn
    \/ Cancelled
    \/ \E c \in Calls : OrphanEnds(c)

Spec == Init /\ [][Next]_vars

\* The event loop runs every task that can go on, and a tool returns (the
\* tools bound their own work by timeouts).
Fairness ==
    /\ \A i \in 1..MaxCalls : WF_vars(i \in DOMAIN calls /\ CallStep(i))
    /\ WF_vars(BatchReturns)

FairSpec == Spec /\ Fairness

-----------------------------------------------------------------------------
(* Properties *)

\* The most tasks of one batch that can be in flight together.
Width == IF Limit \in 1..MaxCalls THEN Limit ELSE MaxCalls

\* The calls of tool t run at the same time as others of their kind.
MayOverlap(t) == concurrent /\ t \in SafeTools

\* A call that is not concurrency-safe runs alone: all earlier calls of the
\* reply have returned and no later one has begun (_partition_tool_batches).
ExclusiveAlone ==
    pc = "tools" =>
      \A i \in DOMAIN calls :
        ~Safe(i) /\ status[i] \notin {"waiting", "done"} =>
          \A j \in DOMAIN calls :
            /\ j < i => status[j] = "done"
            /\ j > i => status[j] = "waiting"

\* A once-per-turn tool succeeds at most once in a turn, with whatever
\* arguments.
OnceHonoured ==
    \A c, d \in Calls :
      c[1] = d[1] /\ c[1] \in OnceTools =>
        succ[c] <= 1 /\ (c # d => succ[c] = 0 \/ succ[d] = 0)

\* A call succeeds once per turn.  Because the check is stale in a parallel
\* batch, a safe call may succeed as often as it can be in flight.
IdempotentBound ==
    \A c \in Calls :
      c[1] \notin LookupTools => succ[c] <= IF MayOverlap(c[1]) THEN Width ELSE 1

\* The circuit breaker stops a tool at its threshold; for the same reason a
\* safe tool may pass it by what one batch has in flight, and no more.
BreakerBound ==
    \A t \in Tools :
      counts[t] <= Threshold[t] + IF MayOverlap(t) THEN Width - 1 ELSE 0

\* An external lookup is made at most MaxLookups times in a turn, also by
\* parallel calls: the attempt is counted before the await.
LookupBound ==
    \A c \in Calls : c[1] \in LookupTools => runs[c] <= MaxLookups

\* No limit that is checked before an await and recorded after it is exceeded
\* by more than the calls in flight together.
LimitsBounded == OnceHonoured /\ IdempotentBound /\ BreakerBound /\ LookupBound

\* A tool that was denied for good is not executed again, by parallel calls and
\* calls of detached tasks neither, until the user starts a turn; nothing else
\* takes a denial back, a turn of cron in the same session least of all.
DenialHolds ==
    [][/\ denied \subseteq denied' \/ (turn' > turn /\ trigger' = "user")
       /\ \A c \in Calls : c[1] \in denied => runs'[c] <= runs[c]]_vars

\* Only read-only work outlives its turn after /stop: no call that may have
\* side effects is left running without anyone waiting for it.
OrphansAreSafe == \A c \in Calls : orphans[c] > 0 => c[1] \in SafeTools

\* The batches of a reply end, whatever is skipped, fails or waits for a slot.
ReplyEnds == pc = "tools" ~> pc # "tools"

\* What tests/agent/test_runner_interrupt.py says of a parallel batch: there
\* is one result for every call.
OneResultPerCall ==
    pc = "tools" /\ (\A i \in DOMAIN calls : status[i] = "done") =>
      Len(results) = Len(calls)

=============================================================================
