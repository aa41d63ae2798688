# TLA+ specifications of OriginAgent

OriginAgent is a runtime for a personal AI agent: channels (Telegram, Slack, a
websocket, the CLI, ...) put messages on a bus, a dispatcher starts a turn for
each of them, a turn calls a language model and the tools it asks for, and
everything is kept in sessions on disk; a scheduler, subagents and other
background work put messages of their own on the same bus. All of it is one
Python process with one asyncio event loop, so the steps that can interleave
are the stretches between two `await`s, and cancellation is what interrupts.

Paths below are relative to `src/OriginAgent/`.

## 1. Inventory

```
channels ─┐                          ┌─> turn pipeline ─> runner ─> provider, tools
cron      ├─> MessageBus ─> dispatcher                      │
subagents ┘   (two lanes)   (queues,  └─> /stop, commands    v
reminders                    locks)            sessions (cache + jsonl files)
```

| Part | State | Operations | Hard behaviour | What makes it correct |
| --- | --- | --- | --- | --- |
| Message bus, `bus/queue.py` | user, internal and outbound queues, counters, sink | publish (subscribers, put, overflow timeout, sink), consume (fast path, race of two tasks) | both lanes answer at once; the timeout beside the put; cancellation on each side; a sink that fails | an accepted message is kept, a rejected one is nowhere, none is doubled, every loss has a known cause, every publish settles |
| Dispatcher, `agent/message_dispatcher.py` with parts of `agent/loop.py` | pending queues, active tasks, session locks, gate | receive, route, start, leave, republish; /stop, reaper | registry entries shared by key; key resolved twice; /stop awaited by the only reader of the bus; swallowed cancellation | one turn per session; each message in one place; follow-ups not stranded; /stop returns |
| Turn persistence, `agent/agent_turn_persist.py`, `session/manager.py`, `agent/warm_store.py` | cached session, session file, checkpoint, pending mark, episode end, warm buffer | early user message, checkpoints, restore, SAVE, spill, summary | a crash, /stop, exception or failed write between any two steps; a summary beside a turn | a history every provider accepts; nothing twice, nothing saved lost; partial work visible |
| Turn pipeline, `agent/agent_turn_pipeline.py` | turn context | RESTORE, COMPACT, COMMAND, BUILD, RUN, SAVE, AUTOMATION, RESPOND, error and timeout handlers | a state raising half-way; the history trimmed between BUILD and SAVE | every path leaves the session restorable |
| Runner, `agent/runner.py` | messages of the run, limits of the turn, denials of the session | iterations, batches of tool calls, injections | parallel calls checking stale limits; tasks outliving a cancelled turn; ask_user's interrupt | one result per call, limits exceeded at most by the calls in flight, unsafe tools alone |
| Cron, `cron/service.py` | jobs in memory, `jobs.json`, `action.jsonl`, timer task | add, remove, change, list, tick, execute, merge | calls during a tick; a second process; rearming cancels the running job, which may not heed it; restart | no due time completed twice, jobs kept, removed jobs gone, due jobs run |
| Session manager, `session/manager.py` | cache, locks, files, file cap | get, save, archive | cap and archive beside a turn | append-only durability |
| Pairing, `pairing/store.py` | codes, approved senders | issue, approve, revoke | expiry, several processes | a code approves once |
| Confirmation, `agent/confirmation.py` | one file of questions, shared by processes | ask, answer, claim, expire, retry | two processes resuming one action; expiry racing an answer | consumed at most once, only when confirmed |
| Action runtime, `agent/action_runtime.py`, `agent/epic_motor.py` | motor queue, idempotency keys in memory and file | submit, tick, resume, remember | threads of a tick beside submissions; a key remembered only after the execution | nothing executed twice that a process could know of; limits of a tick |
| Grants and approvals, `security/grants.py`, `agent/tools/registry.py`, `gateway/rest_api.py`, `command/builtin.py` | grants, denied tools of a session | ask, answer in chat, over REST or by command, issue, look up | two answers to one question; a crash between answer and grant | a tool is granted only as approved, and is then usable |
| Subagents, `agent/subagent.py`, `agent/system_turn_handler.py` | tasks by session, records, live files | spawn, run, cancel, announce, reconcile | cancelled before the first step; a session's key that differs from its chat's; a full queue, a busy session; crash between record and file | /stop is final, records tell how each ended, results agree with them |
| Channel manager, `channels/manager.py` | outbound loop | coalesce, send, retry | retry of what was delivered | order kept, no loop death |
| Heartbeat, `heartbeat/service.py` | timer | tick | overlap with turns | one at a time |
| Auto-compaction, `agent/autocompact.py` | sessions being archived | check, archive, prepare | beside a running turn | nothing lost between archive and session |
| Memory, `agent/memory.py` | consolidation offset, locks | consolidate, dream | offset beside appends | no message skipped |
| Evolution, `evolution/`, `agent/skill_lifecycle.py`, `agent/domain_pack_governance.py` | staged and verified modules, workspace, activation.json, ledger | stage, verify, activate, roll back, tear down, force-clean | each operation is several writes; failures while undoing | the record agrees with the workspace and the ledger |
| State branches, `evolution/state_branch.py`, `agent/facts.py` | stable facts, overlays, tombstones, base hashes | upsert, deprecate, create, merge, discard | a stale base; a merge that dies half-way | no update lost, a merged branch is there |
| BDI, `bdi/` | desires, intentions | deliberate, commit, drop | world changes while committed | at most one commitment |
| Intents, working memory, reminders, cognitive scheduler | items with times | add, decay, fire | due during a turn | fired once |
| Providers, channels' adapters, gateway, voice, skills, storage tables | external services and data | | | adapters and I/O: not modelled |

`PROJECT.json` lists each component with its status, and under "hazards" every
point found in this code that a unit test would hardly reach, with the
properties that watch it.

## 2. Modules

| Module | Extends | Models |
| --- | --- | --- |
| `MessageBus` | standard modules | `bus/queue.py` |
| `Dispatcher` | standard modules | `run_forever`, `dispatch_message` and what they call |
| `TurnCheckpoint` | `SequencesExt` | one session's turns over its cache and file |
| `ToolBatch` | standard modules | a session's tool calls |
| `CronService` | `SequencesExt` | the scheduler and a second process |
| `LossyLanes` | standard modules | abstract: what the bus promises |
| `BusRefinement` | `MessageBus`, instance of `LossyLanes` | the refinement mapping |
| `Confirmations` | standard modules | `agent/confirmation.py` |
| `ActionRuntime` | `Confirmations` | the executor, its motor and its keys |
| `ToolApproval` | `Confirmations` | tool approvals, grants, denied tools |
| `Authorization` | `ActionRuntime`, `ToolApproval` | both on the one file of questions |
| `Subagents` | standard modules | `agent/subagent.py` and the way of a result |
| `ModuleActivation` | standard modules | `evolution/{manager,activation,recovery}.py` |
| `StateBranch` | standard modules | `evolution/state_branch.py` over the fact store |
| `Evolution` | `ModuleActivation`, `StateBranch` | the two together |
| `MC...` | the module they are named after | constants of the runs |
| `...Proofs` | the module they are named after, `TLAPS` | its theorems (section 5) |

An operator whose comment begins with "Mutant:" is a wrong variant of the
definition after it. No specification uses one; they record which mistake
each property is able to notice.

### MessageBus

`queue` holds the three asyncio queues. `pub[m]` is where `publish_inbound`
(or `publish_outbound`) stands with message m: notifying subscribers, blocked
in `put`, persisting, settled. `Publish` and `Enqueue` are lines 95-145, and
`PutUnblocks`, `OverflowTimeout`, `PersistOk`, `PersistFails`,
`PublisherCancelled` the ways out of `wait_for(put)` and of the sink. A waiting
put takes effect only when the queue has room, and the timeout may come before
the waiter runs. `ConsumeFast` is the `get_nowait` on the user lane;
`ConsumeRace` starts the two get tasks; `UserTaskGet` and `InternalTaskGet` are
those tasks' steps; `RaceReturnsUser` and `RaceReturnsInternal` what
`consume_inbound` does after `asyncio.wait`: cancel the other task, and lose
what it already holds. `ConsumeCancelled` is the `except BaseException` path.
`Counters` are the fields behind `stats`.

### Dispatcher

A dispatch task is named by the message it was created for, and its life is
`task[t]`: created, waiting (for the session lock or the gate), running,
cleanup, done. `registered` is `_pending_queues`, by owner; `pending[t]` is the
queue object of task t, which exists whether or not it is registered.
`RouteKey` is the session key `run_forever` computes, `DispatchKey` the one
`dispatch_message` computes after tenant resolution: they may differ.
`Receive` takes a message off the bus; `HandleStop`, `HandleCommandInline`,
`RouteToPending` and `CreateTask` are the branches of lines 107-154 in their
order. /stop's await on the cancelled tasks is `stopping`: while it is not
empty `run_forever` consumes nothing. `Leave` is the finally block's pop,
`Republish...` its loop over `publish_inbound`, with the bus's overflow. A
cancellation is delivered at the task's next await (`DeliverCancel`), may be
swallowed by the tool audit's `except BaseException` (`CancelSwallowed`), and
ends an unstarted task at once (`CancelUnstarted`). `Without(s, t)` is a lock's
row of waiters after one of them left it. `replaced` and `cutShort` remember
whose queue another dispatch took out of the registry, and whose was being
republished when the finally block was cancelled.

### TurnCheckpoint

A message is a record of the turn, iteration and kind it came from. `mem` and
`disk` are the cached session and its file, each with messages, checkpoint,
pending mark and the end of the open episode; `SessionManager.save` copies one
to the other or raises. `run` holds what the runner appended after the prompt.
The actions follow the pipeline: `StateRestore`, `StateBuild`,
`ModelReplies`/`ModelCalls`, `ExecuteTool`, `ToolsCompleted`/`ToolsFailed`, the
endings of a run, `StateSave`, `StateRespond`. `Cancelled` is the dispatcher's
handler of `CancelledError`, `RunRaises` the pipeline's, `StateSaveRaises` the
file cap or the write failing inside SAVE, `CrashAndRestart` drops the cache.
Restoring (`RestoreCheckpoint`, `RestorePendingUserTurn`) includes the overlap
search that drops messages already at the end of the history.

A reply's calls are `"calls"`, executed one by one, or a `"batch"`, of which some
run in parallel: such a batch keeps any number of results, and these go to its
first calls (`ResultCounts`, `Results`), as `_execute_parallel_batch` and the zip
behind it do.

`StateSave` appends, spills and clears the marks. `Spill` is
`_spill_overflow_into_warm_store`: what stands before `HotStart` goes to the
session's warm buffer turn by turn, what precedes the first user message there
is dropped, and the end of the episode is clamped. A full buffer makes a summary
due; `WarmSummaryDrains` empties the buffer in memory and `WarmSummaryEnds` saves
the session, in whatever state a running turn has put it by then. `drained`
remembers what summaries took, so that `Conversation` is all a session ever held,
in its order.

Follow-ups that reach a run are injected behind its messages; one that comes
before the first reply is merged into the prompt's user message (`Injected`),
which SAVE skips.

### ToolBatch

`Batch` is `_partition_tool_batches`; `first` the call the current batch starts
with. `StartTool` is everything before a call's first await: the denied list,
once-per-turn, circuit breaker, idempotency, and the lookup budget, in that
order; `ToolReturns` the end of that await; `CallReturns` everything after the
last one, where the call's success is recorded. `Slots` is the semaphore,
`Cancelled` turns the calls of a parallel batch into `orphans`, which
`OrphanEnds` lets end on their own. `concurrent` distinguishes conversation
turns from the runs of subagents and memory phases; `trigger` says who began the
turn: BUILD clears the denials of the session only for `user_initiated`.

### CronService

`mem`, `disk`, `log` are `_store`, `jobs.json`, `action.jsonl`. Every API call
loads first: `Loaded` is the file with the log merged in, unless `active`
(`_timer_active`) is set. `Arm` is `_arm_timer`, which cancels the timer task,
the executing one too (`CancelTimerTask`). `TickFires(i)`, `JobEnds`,
`JobCancelled` and `CancelSwallowed` are the timer task; all other calls are
atomic because they contain no await.

A cancelled tick goes on until the cancellation is delivered, or for good if the
audit of a tool call in the job's turn takes it for the tool's failure. Meanwhile
the new timer may fire a tick of its own, on the same job if it is still due:
`has[i]` is what tick i has yet to complete, `task` which of them `_timer_task`
is. The first to end resets `_timer_active`, so that a call may replace the store
under the other; a tick in `detached` has job objects that are no longer in the
store. `ExternalReads` and `ExternalAppends` are a second process: its read and
its append are apart. `Crash` may fall between the emptying of the log and the
save of the store (`torn`).

### LossyLanes and BusRefinement

`LossyLanes` has a `fate` for each message and a first-in first-out `lane` for
each queue, and says what a user of the bus may rely on: an offered message is
refused, spilled to the sink or accepted, and accepted messages of a lane are
handed out in order and at most once. Two events lose anything. `Deliver(d)`
hands out the first message of lane d and may lose the first of the lanes
`Beside(d)`; `CancelConsumer`, which `cancels` counts, may lose the first of the
lanes in `CancelDroppable`. No other step touches a lane. `BusRefinement` maps
the bus onto it: the message a finished get task holds is still the first of its
abstract lane, because it is the end of the race that decides whether it is
handed out or lost. Beside a user message the internal lane may lose one, beside
an internal message none does; a cancelled `consume_inbound` may cost either
inbound lane one, and nothing outbound is ever lost.

### Confirmations, ActionRuntime, ToolApproval, Authorization

`conf` is `pending_confirmations.json`; every operation on it holds a file lock
and is one step. `Decision` and `Resolved` are `resolve_user_reply`: what it
returns and what it writes. `Claimable` and `Claimed` are `claim_consumption`.

A process of `ActionRuntime` runs one event loop: `call[p]` is the `submit` or
`resume_confirmed` that blocks it, with the steps between which another process
can act (`ResumeLooks`, `ResumeClaims`, `CallExecutes`, `CallRemembers`), while
the commands of a motor tick run in threads (`TickStarts`, `BackendRuns`,
`Dispatched`). `DequeueReady(q)` is one scan of the queue: which commands a
tick takes and which it leaves. `known[p]` are the keys in memory, read from `keyFile` only at
the start. Policy, permission and backend are any outcome. `excused` collects
the keys whose replay no process could have noticed: admitted while another
execution of the key was under way or known only to another process, or lost by
a failed write or a crash.

In `ToolApproval`, `CallTool` is the registry's check: without a grant it asks
and the runner puts the tool on the session's list of denied tools. `UserTurn`
is BUILD of a user's turn, which clears that list and takes the message as the
answer to the latest question; `RestDecides` and `CommandDecides` are the other
two ways to answer. `Issued` is `issue_tool_approval_grant` with its lifetime
by risk. `Authorization` runs both sides on one file, where each expires,
answers and retries the other's questions.

### Subagents

`pc[t]` is where the asyncio task of a subagent is. `spawn` writes a record and
a live file before the task makes its first step; `Start`, `Finish` and
`CancelDelivered` are `_run_subagent`'s beginning and endings, and `Cleanup` is
the done callback. A cancellation that comes before `Start` never enters the
coroutine. `Finish` includes `_announce_result`, which a full internal queue
drops (`Publish`).

A subagent was asked for in a chat (`ChatOf`), and is registered under the key of
its session (`SessionOf`), which tenant resolution may have made another one than
the chat's messages are routed by (`KeyOf`). /stop is handled before that
resolution: `Targets` are the subagents under the chat's routing key, and
`Rekeyed` those it does not find. `StopBegins` and `StopReturns` are /stop: the
turns under its key have ended by then, so that only subagents and turns under
another key can spawn.

`result[t]` is where a result is. `TakeResult` is the dispatching loop, which
gives it a turn of its own or a place in the queue of a turn that is running;
`KeepResult` persists it in the former, `InjectResult` gives it to the model of
the latter, and `RepublishResult` is what happens when that turn ends first: the
bus gets it again, and drops it if it is full. `LoseResult` is the race of
`consume_inbound`, `DropResult` a turn that raises before it keeps the result. A
/stop takes the result its turn was handling. Crashes fall between steps, and
inside `spawn` and the ending between record and file; `Restart` is
`reconcile_live_state`.

### ModuleActivation, StateBranch, Evolution

`site[t]` is what the workspace holds under a module's id, whichever version
put it there; `meta[d]` and `ledger[d]` are what `activation.json` and the last
event of the ledger say of version d. `op` is the holder of the activation lock
and where it is between two writes; `Interrupted` is a crash or an escaping
exception there. The branches of `Copy`, `Enable` and `Uninstall` are the
failures the code handles, with the undo it attempts. `stage` holds another
lock, and its dirty check may be overtaken (`StageChecks`, `StageEnds`).

A version of a fact is the set of updates it incorporates. That is what a merge
may lose, and it makes `NoUpdateLost` a statement about every writer instead of
about hashes. A branch has the base versions, an overlay and tombstones;
`Conflicts` is `_preview_unlocked`; a merge replaces `facts.jsonl` in one write
(`MergeWrites`), then renders `MEMORY.md` and writes `branch.json` last
(`MergeRecorded`), and may die between them. In `Evolution` a branch needs its
artifact's verification, and an artifact with an active branch is not activated.

## 3. Runs

`CHECK_DEADLOCK FALSE` where the system may stop: all messages handled, all
turns taken, all bounds used up.

| Run | Question | Instance | Distinct states |
| --- | --- | --- | --- |
| `bus` | Does delivery agree with what publishers were told, does everything settle, and does the bus implement `LossyLanes`? | two messages per inbound lane, one outbound, queues of one, a sink, one cancellation | 33,688 |
| `dispatch` | Routing, draining, republishing, /stop, re-keying in any order | four messages of a session, one re-keyed, /stop; a bus of one, pending queues of two | 330,130 |
| `dispatch_live` | Does anything wait for ever? | two sessions, one gate permit, bus of one, /stop, a command, one reap | 231,776 |
| `turn` | Does a session survive interruption anywhere? | three turns, two iterations of up to two calls; two of the faults, failed saves and follow-ups; one hot turn, one warm turn | 1.51 million |
| `turn_trimmed_save` | Is a whole turn saved when the prompt was trimmed? | no fault, one trimmed message | violated |
| `tools` | By how much can a limit be exceeded, and what outlives a turn? | two turns, five calls of four tools, replies of up to three, parallel limit two | 209,123 |
| `tool_results` | One result for every call? | two calls | violated |
| `cron` | Executions, durability, removal, progress | one-shot, kept one-shot and repeating system job, three calls, one crash, two ticks, one swallowed cancellation, clock up to 3 | 547,546 |
| `cron_overlap` | Does a tick keep its store? | as `cron` | violated |
| `authorization` | Can anything be done twice, or without leave? | two processes, one with a motor; one serial and two parallel actions, two of one key, one tool request; two questions, one retry, one fault, clock up to 1 | 761,308 |
| `subagents` | What is left after /stop, a crash, a full queue? | a parent, its child and a subagent of a re-keyed chat; two slots, a queue of one, one result for a busy session, one fault | 148,585 |
| `evolution` | Do workspace, record and ledger agree, and does a merge lose or pretend anything? | two versions of one pack, one interruption, one change by hand; or one skill, one fact, two branches, three updates, one failing merge | 1.67 million |

Why the bounds are enough. Queues of one make every put meet a full queue, and
two messages per lane let one wait behind another. Four messages of one session
are the fewest with which a pending queue of two is filled, a second task started
and a third and fourth follow-up stranded, or one of two leftovers cut off by a
cancellation while the other is in hand. Three turns let a fault hit a turn, the
next turn restore, and a third one restore behind that; with one hot and one warm
turn every second turn spills and every third makes a summary due, so that a
spill meets restored turns, failed saves and a summary in any step of the next
turn. Three calls in a reply with a limit of two leave one waiting for a slot. A
clock of three with jobs due at 2 and every 2 lets a due time pass while a job
runs, and two ticks are the fewest that overlap. Two processes, two actions of
one key and two questions are the fewest with which a claim is contended and a
key replayed, in one process and across two; three commands of which one is
serial, with a tick's limit of two, are the fewest with which a serial command
meets parallel ones and one of them is left over. A parent and child are needed
for a spawn under /stop, a third subagent to fill the queue and to be under
another key than its chat. Two versions of one pack meet at one target. Conflicts
and half merges of one fact need two branches and a stable writer.

Three runs have a `CONSTRAINT` that keeps two matters apart which would multiply
each other's states: `turn` has at most two of the faults, failed saves and
follow-ups and at most two executed calls in a behaviour; in `authorization` the
third command and the second question exclude each other; `evolution` follows the
packs, with interruptions, or the skill and its branches, with failing merges.

`turn` takes no trimming of the prompt: with it `HistoryClosed`,
`InterruptedTurnClosed`, `WorkRemembered` and `PersistedNeverLost` fail too, for
the reason `turn_trimmed_save` isolates. What is left of them, `NothingTwice`,
`CallsHaveResults`, `CheckpointOfLastTurn` and `PromptHasSavedTurns`, is proved for
any `MaxTrim` (section 5).

### What passing runs show

- Bus: a user message that was accepted is kept (`AcceptedKept`) while no
  consumer is cancelled, an outbound one always; `DeliverySound` holds over every
  order of timeout, room and sink failure; `BusKeepsPromise` is the refinement:
  order, at most once, and losses only beside the delivery of a user message or
  by the cancellation of a consumer. Of user messages this says less than it
  seems: `run_forever` waits for the bus with a timeout of a second, which
  cancels the waiting `consume_inbound` every time nothing came, and each of
  these cancellations may fall between a get task's end and the consumer's next
  step. `BusSettles` assumes finitely many messages; unending user traffic does
  starve the internal lane, as its priority implies.
- Dispatcher: `OneTurnPerSession` holds although registry entries are overwritten
  and popped by the wrong task, and `InjectedInOwnSession` that a follow-up gets
  only into a turn of the key it was routed by (it does not know a tenant's key).
  `EachMessageOnce` counts every place a message can be in. `QueuesAccounted`
  says when a follow-up is stranded: if another dispatch took its queue out of the
  registry while it was in use, or if the finally block that was republishing it
  was cancelled. A finally block that ends by itself leaves nothing in the queue
  it popped. `DispatchSettles` rests on the bus's overflow timeout.
- Turns: `HistoryClosed`, `InterruptedTurnClosed` and `NothingTwice` say that
  restoring is right after any interruption, and that the spill cuts where no
  result loses its call; only the calls of parallel batches may lack results, as
  `tool_results` shows. `NothingTwice` excludes a turn whose SAVE raised when its
  checkpoint was not its last message, where the overlap search finds no match
  (`doubtful`). `PersistedNeverLost` says that the file's conversation only
  grows: messages move from the current ones to the warm buffer and from there to
  a summary, in order, and none falls between. `WorkRemembered` says what the
  next turn still has of an interrupted one, and that a saved turn is in the file
  or went to a summary, and in the prompt while it is current.
- Tools: `LimitsBounded` gives the exact excess of the checks made before an
  await; `ExclusiveAlone` that an unsafe call never overlaps; `OrphansAreSafe`
  that only read-only calls outlive a cancelled turn; `DenialHolds` that a denial
  goes only when a turn begins that the user initiated, and not when cron begins
  one in the same session.
- Cron: `OncePerDue`, `JobKept` and `RemovedStays` hold except for jobs whose
  change was made without sight of another one (`stale`: the two processes
  cross, or a call during a tick works from memory while the log holds an action
  that is merged later), for the jobs of ticks that executed beside one another
  (`beside`, which concerns `OncePerDue` alone), and after a crash inside a merge
  (`torn`). A due job runs even if a call cancels its tick, and even if that
  cancellation is swallowed.
- Authorization: `ConfirmationSpentOnce` rests on the claim under the file
  lock, not on the checks before it. `KeysAccurate` bounds the double execution
  of a key to what `excused` describes, and says that no key is remembered
  before its execution. `MotorBound` is the limit of a tick and one serial
  command at most; that a serial command has the tick to itself does not hold
  (below). `PowerFromApproval` covers crashes between answer and grant and
  answers from three sides; `ApprovedUsable` that the runner's permanent denial
  and an approval in the chat do not contradict each other.
- Subagents: `StopIsFinal` holds for subagents that had not started, too; its
  exceptions are the descendants, at any depth, of a subagent that swallowed its
  cancellation, and the subagents of a chat whose tenant has another key
  (`Rekeyed`), which /stop does not look for. `RecordsTell` and `ResultsAgree`
  relate records, files and results across crashes; `early` and `torn` are the
  two gaps the code leaves. `SubagentsSettle` names what may become of a result:
  `Outcomes`, of which only one keeps it in the session.
- Evolution: `ActiveIsBacked` says that every handled failure is undone or
  recorded, `LedgerAgrees` that only an interruption makes ledger and record
  disagree and that repeating the operation repairs it. `NoUpdateLost` and
  `MergedIsThere` hold through half merges and their repetition.

### Where code and documents disagree

Three runs end in a counterexample to a sentence of the repository; the details
are under "findings".

1. `agent/runner.py:357` says of the runner's own edits to the prompt that they
   must not shift the append boundary; the context builder's trimming of the
   history does (`turn_trimmed_save`).
2. `tests/agent/test_runner_interrupt.py:72` expects a result for each call of
   a parallel batch; results are appended only in the `except` branch
   (`tool_results`).
3. `cron/service.py:222` says that no load replaces the store while `_on_timer` is
   executing; the end of a cancelled tick resets the flag that prevents it, while
   the tick armed in its place executes (`cron_overlap`).

Others are built into the modules and visible in the exceptions of the
properties:

- `bus/queue.py:51-54` and `:186-189` guarantee that a pending user message is
  processed before any internal one, even one enqueued earlier. The race of
  `consume_inbound` may have taken an internal message when the user message
  comes, and returns it if its own task runs before the other get task does.
  What holds is that this happens once at most to a user message
  (`OvertakenAtMostOnce`, the theorem `PriorityBound`).
- `bus/queue.py:98` promises that only a publish that returned False was
  dropped; the race of `consume_inbound` loses an internal message beside a user
  message, and a cancelled `consume_inbound` one of either lane (`LostBeside` and
  `CancelDroppable` in `BusRefinement`).
- `agent/epic_motor.py:37` and `:123` say that a command with
  `requires_parallel=False` has the tick to itself; `dequeue_ready` goes on to
  fill the tick with the parallel commands behind it, and takes a serial one
  behind parallel ones (`DequeueReady`, `MotorBound`).
- `agent/agent_turn_pipeline.py`'s `_run_warm_summary` says that after a crash
  during the call of the model the saved session still has the full warm buffer.
  A turn that reaches any save while the model is being called writes the emptied
  buffer, and the batch is then neither in the file nor archived.
- `command/builtin.py:197` says /stop cancels all tasks and subagents of the
  session; it looks under the key the chat routes by, and subagents are
  registered under the key of the tenant (`Rekeyed`).
- `cron/service.py` counts on a cancelled tick being gone: if its job swallows the
  cancellation, or takes some steps of the loop to end, the tick armed in its
  place executes the same due job beside it (`beside`).
- `tests/agent/test_runner.py:2969` says leftovers are republished; with a full
  pending queue the session's second task overwrites the first one's queue
  (`Abandoned` in `Dispatcher`).
- `tests/agent/test_stop_preserves_context.py:88` says the next turn sees the
  partial work of a stopped one; the restore does not move the episode's end,
  from which the prompt is sliced.
- `command/builtin.py:588` reports that the permission has been issued; the
  command answers the question and issues no grant (`CommandDecides`). A tool
  approved over REST stays on the denied list until the next user turn.
- `agent/subagent.py:370` says "I'll notify you when it completes"; the
  announcement is an internal message, which a full queue drops as one that
  will be made again, and nobody makes it again (`result = "dropped"`). One that
  reaches a running turn is given to its model and not kept as a result.
- `agent/epic_motor.py`'s rule against repeating a key does not see an equal
  command already queued (`excused`).
- A retried confirmation has lost its owner and its idempotency key; a rejected
  one becomes expired when it is resumed late, and can be retried.
- `max_subagent_depth` of three allows two levels (`DepthAllowed` takes one off
  twice). A cancellation before the first step leaves the live file and no final
  record (`early`).
- A crash between the copy of a module and its record leaves the target
  occupied and no metadata, so that it can be neither activated nor rolled back.
  After a crash between a pack's removal and its record, another version can be
  activated, and rolling the first one back again removes it. A rolled-back
  skill's files stay, so the skill cannot be activated again.
- A half-merged branch that is then discarded leaves what it wrote.

## 4. Fairness

Safety runs assume none. The others assume weak fairness of steps the event
loop or a timer takes on its own:

- bus: a started publisher's subscribers return, its overflow timer fires and
  its sink answers; `consume_inbound` is called again and its tasks run. Room
  in the queue is not assumed, and neither publishing nor cancelling is.
- dispatcher: `run_forever` goes on consuming; every task's steps happen, since
  turns have iteration bounds and timeouts and asyncio hands locks on in order.
  Draining follow-ups and arrivals are not assumed.
- tools: every call's steps happen (tools have timeouts) and the batch is
  collected. Cancellation is not assumed.
- cron: the clock advances, a sleeping timer fires, a running job ends, and a
  requested cancellation arrives or is swallowed by the job, which then ends.
- subagents: a scheduled task starts, a run ends (it has iteration bounds), a
  cancellation arrives, the done callback runs, /stop's await returns, the
  dispatching loop and the system turn go on, a dead process is restarted.
  Neither spawning nor /stop is assumed.

## 5. Proofs

Every theorem holds for all values of the constants that satisfy the named
`ASSUME` of the modules: any sets of messages, sessions, tools, processes or
versions, any queue size, limit and number of faults. The assumptions say that
the sets a constant is drawn from fit together, that sizes which the code takes
from a positive setting are positive, and that sentinels such as `NoMsg` or
`NoKey` are not elements of the sets they stand beside. The theorems about
`TurnCheckpoint` that need more than that say so.

| Module | Theorem | States |
| --- | --- | --- |
| `MessageBusProofs` | `TypeCorrect` | `TypeOK` |
| | `RejectedStaysOut`, `NeverDuplicated`, `DeliveredSoundly` | `DeliverySound` and its two halves |
| | `AcceptedSurvives` | `AcceptedKept` |
| | `PriorityBound` | `OvertakenAtMostOnce` (of no run) |
| | `CapacityBound` | `WithinCapacity` |
| | `BusImplementsLanes` | `BusKeepsPromise`, that is `Spec => Promise!Spec` |
| `DispatcherProofs` | `DispatcherTypes` | `TypeOK` |
| | `MessagesOnce` | `EachMessageOnce` |
| | `QueuesAnswered` | `QueuesAccounted` |
| | `TurnsExclude` | `OneTurnPerSession` |
| | `InjectedHome` | `InjectedInOwnSession` |
| `TurnCheckpointProofs` | `TurnTypes` | `TypeOK` |
| | `FileOnlyGrows` | `PersistedNeverLost`, an action property, if `MaxTrim = 0` |
| | `MessagesNotTwice`, `CallsAreAnswered` | `NothingTwice`, `CallsHaveResults` |
| | `CheckpointsInPlace`, `PromptsHaveSavedTurns` | `CheckpointOfLastTurn`, `PromptHasSavedTurns` |
| | `HistoriesClosed`, `InterruptionsClosed`, `WorkKept` | `HistoryClosed`, `InterruptedTurnClosed`, `WorkRemembered`, if `MaxTrim = 0` |
| `ToolBatchProofs` | `BatchTypes` | `TypeOK` |
| | `ExclusiveRunsAlone` | `ExclusiveAlone` |
| | `LimitsHold` | `LimitsBounded` |
| | `OrphansSafe` | `OrphansAreSafe` |
| | `DenialsHold` | `DenialHolds`, an action property |
| `AuthorizationProofs` | `AuthorizationTypes` | `TypeOK` |
| | `SpentOnce` | `ConfirmationSpentOnce` |
| | `KeysTell` | `KeysAccurate` |
| | `TicksBounded` | `MotorBound` |
| | `GrantsFromApproval`, `ApprovalsUsable` | `PowerFromApproval`, `ApprovedUsable` |
| `SubagentsProofs` | `SubagentTypes` | `TypeOK` |
| | `RecordsTold`, `ResultsFollow` | `RecordsTell`, `ResultsAgree` |
| | `StopFinal` | `StopIsFinal` |
| `CronServiceProofs` | `CronTypes` | `TypeOK` |
| | `CompletesOncePerDue` | `OncePerDue` |
| | `AddedJobIsKept`, `RemovedJobStaysOut` | `JobKept`, `RemovedStays` |
| `EvolutionProofs` | `LedgerFollows`, `ActiveBacked` | `LedgerAgrees`, `ActiveIsBacked` |
| | `MergeIsComplete` | `MergedIsThere` |
| | `MergeLosesNothing` | `NoUpdateLost`, an action property |

A proof module has the same order throughout: facts about the sequences, sets
and counts its component uses; the inductive invariant as a conjunction of named
parts; a lemma for each part, or for each kind of step, that the actions of
`Next` preserve it; and the theorems, which follow from the invariant.

### The inductive invariants

None of the safety invariants is inductive by itself; each needs what the code
knows and the property does not say.

- **Bus, `BusInv`.** That a rejected message is nowhere needs that a message is
  located only once its publisher was told True; that none is doubled needs
  which places exclude each other (`MessageInv`, `Distinct`); that priority holds
  needs that an overtaken message is not in its queue during a later race, which
  starts only on an empty user lane (`OvertakenHistory`).
- **Refinement.** From `BusInv` and `OneInHand` (a finished get task holds one
  message) every bus step is an abstract step or a stutter. A get
  task taking a message is a stutter: it is the end of the race that decides
  between delivery and loss. A consumer that is cancelled while it waits is an
  abstract cancellation, and every other step that hands something out is the
  delivery of its lane. The promise has no fairness, so the proof is the whole of
  it.
- **Dispatcher, `DispInv`.** Places (`Apart`): no message is in two spots of the
  bus, the pending queues, the injected and the carried messages, the tasks and
  the outcomes, and no queue holds one twice. Locks (`LockInv`): whoever is in a
  turn is at the head of its key's row. Queues (`RegisteredQueueIsLive`,
  `PendingInOwnSession`): a registered owner has not yet passed its cleanup, and
  what is in a queue was routed by its key. `QueuesAccounted` further needs that
  the queue of a task that waits or runs is registered, `replaced`, or popped by
  the finally block of another dispatch (`TaskInv`), and that a popped queue is
  registered no more and is empty, or `cutShort`, when that block has ended
  (`PopInv`).
- **Turns, `TurnsInv`.** The heart is `Restorable`, of a session: no sequential
  call in its history lacks a result, so that the overlap `restore_checkpoint`
  finds is the whole checkpoint or nothing, and the checkpoint, if there is one,
  either ends the history already or belongs to a turn of which the history has
  the user message only. If prompts are not trimmed, every result also has its
  call and every user message but the pending one an answer. It holds of the cache
  *and* of the file at every step, because a crash may exchange the one for the
  other at any of them. The spill cuts where `HotStart` says, at a user message or
  behind orphaned results: what is left keeps its results with their calls
  (`AnsweredTail`, `ClosedTail`), and, unless a SAVE was trimmed, what it takes
  away begins with a user message, so that nothing is dropped on the way
  (`SpillKeeps`). `TurnInv` and `RunInv` say what the running turn will add,
  `FileIsPrefix` that the file's conversation never has a message the cache's
  lacks. What SAVE appends is the end of the run (`RunEnd`), and a checkpoint that
  ends the run ends what is left of it as well, for a run that is over does not
  end with a tool's result (`CheckpointEnds`).
- **Tools, `ToolInv`.** The limits are inequalities between what has been
  recorded and what is in flight: successes of a call plus its executions are at
  most the width of a batch once its key is recorded, and equal the unrecorded
  ones before (`KeyInv`, likewise `OnceInv`, `CountInv`, `LookupInv`).
  `BatchInv` says that calls before the batch are done and those behind it
  waiting, and that no more are in flight than there are slots, from which the
  width follows.
- **Authorization, `AuthInv`.** All that happens to a confirmation is one of
  four moves, posed, lapsed, answered, spent (`ConfMoves`), so that both sides
  reason about a file the other one writes. `SpentInv`: the process about to
  execute is the only one with this claim, and the claim is consumed. `KeyInv`:
  a key that is not excused has one bearer at most, and before it runs nobody has
  run or remembered it. `GrantInv` ties each grant to the answer it came from.
  The scan of the motor queue is a recursive function; its result is described
  by `ScanGood`, shown for all prefixes by the least-element principle.
- **Subagents, `SubInv`.** `LifeOf` says what record and live file can be at
  each point of a task's life, `ResultOf` and `QueuedInv` what its result can
  be and that the queue and the results agree, `StopInv` that whatever runs under
  the key of a chat's /stop is awaited and cancelled, or a stray: turns of the
  chat and of the key are over, so that nothing but a subagent spawns there.
  `Stray` is the least set closed under being a child of a deaf subagent or of a
  stray, defined as membership in every such set, which needs no recursion.
- **Cron, `CronInv`.** What a merge yields about a job is decided by the last
  line of the log about it, whatever the file has, and by the file if there is
  none (`ReplayFacts`; `Replay` is a recursive function, and the claim about
  every prefix follows from the least-element principle). So a removed job is
  out as long as its line is in the log, even while a tick still has the job
  and will save it (`GoneInv`), and an added one is in the log, or in the file
  and in what the tick will save (`KeptInv`). Merging a log that stays into a
  store that has it merged already changes nothing. `OnceInv` says where a
  completed due time may still be: in no line, not in the store of a tick, and
  in the file of a running service only during a tick, which is behind until
  the tick saves. A service that stops or dies there leaves it behind, and
  `start` computes every due time anew. Ticks may overlap, because a job can
  swallow the cancellation of the one it runs in: `TickInv` says that what each
  of them has to complete was due, and `BesideInv` that the jobs of ticks that
  execute together, or of one whose store was replaced under it, are in `beside`,
  which is all that `OncePerDue` excuses of them.
- **Evolution, `ActivationInv`, `BackedInv`, `BranchInv`.** `OpStatus` and
  `LedgerInv` give, for each point between two writes, what record and ledger
  say of the version operated on; `SiteInv` what its target holds there. For
  branches, `WellBased` says that a base is a version the stable fact once had,
  and that an overlay goes on from its base; `MergeInv` that what a merge has yet
  to write goes on from the stable version and what it has written is there,
  which `MergedInv` keeps as versions only grow.

### What stays model-checked

- Liveness (`BusSettles`, `DispatchSettles`, `ReplyEnds`, `DueJobRuns`,
  `SubagentsSettle`): it rests on fairness and ENABLED, which the prover does
  not handle. Every other property of a passing run is a theorem.
- `HistoryClosed`, `InterruptedTurnClosed`, `WorkRemembered` and
  `PersistedNeverLost` are not stated for `MaxTrim > 0`. SAVE skips as many messages as the
  prompt would have had untrimmed, so that it drops the first messages of the
  turn: a reply's calls, whose results it keeps, or all of the turn
  (`turn_trimmed_save`), and a later spill drops such results where they come to
  stand before the first user message. The other theorems about `TurnCheckpoint` do not depend
  on trimming.
- The three runs that end in a counterexample.

## 6. Abstractions

- Message contents, prompts, replies, tool arguments and results are reduced to
  identities. What a tool, a model, a policy or a backend does is any outcome of
  its kind.
- Time is order: a timeout may fire whenever it is pending. Only cron and the
  confirmations have a clock.
- Subscribers of the bus and stream hooks only delay a publish or a turn.
- The dispatcher's module sees the bus as one lane, and a session as its lock;
  the turn's module sees one session, and of a parallel batch only how many of
  its results the runner keeps. Which they are is `ToolBatch`'s.
- A write of a file is atomic (temporary file and rename in the code) and so is
  an operation under a file lock; what is not atomic is the order of two writes.
- What the session's warm buffer becomes after its summary (the archive) is not
  checked. Messages that the proactive service adds to a session
  (`_channel_delivery`) are left out.
- COMPACT, COMMAND and AUTOMATION, ask_user in a turn, the file cap
  (`enforce_file_cap`) except for its failing inside SAVE, `run_job`, corrupt store files and torn lines are left out, and
  so is the notify_only kind of confirmation.
- A second process's construction of a `SubagentManager`, which reconciles the
  live files of the first one's running subagents, is left out.

## 7. Not modelled

- Adapters and I/O: channels, providers, gateway routes, voice, storage tables,
  templates. Their behaviour is an external service's or a format's.
- Text and scores: memory extraction, world state, background review, BDI
  deliberation, working memory. What is worth checking there is what a language
  model wrote; their stores are used by one process under a lock.
- Beside running turns but not reached yet: auto-compaction and the
  consolidator's offset, the session's file cap, reminders, the channel
  manager's retries. A composition of dispatcher and turn, in which inline
  commands change a session beside its turn, is beyond the states one run can
  cover; each side is checked with the other's steps left free.

`PROJECT.json` gives the reason for each component.

## 8. Plan

Modelling, if the project is continued: the channel manager behind the
outbound queue; auto-compaction with the consolidator over one session.

Proofs: every safety and action property of a passing run has its theorem, so
new proofs come with new properties.

## 9. Running

```
tlc -config MessageBus.cfg MCMessageBus
tlapm MessageBusProofs.tla
```

`tlapm` takes from one minute (`MessageBusProofs`) to several
(`AuthorizationProofs`, `TurnCheckpointProofs`) for a module whose proofs it has
not seen before.

The other runs are listed in `PROJECT.json` under "runs".
