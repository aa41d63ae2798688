--------------------------- MODULE TurnCheckpoint ---------------------------
(***************************************************************************)
(* How one session's conversation survives an interrupted turn.            *)
(* agent/agent_turn_persist.py (TurnPersistManager) as driven by the turn  *)
(* pipeline (agent/agent_turn_pipeline.py, RESTORE .. RESPOND), by the     *)
(* runner's loop (agent/runner.py, run) and by the dispatcher's            *)
(* CancelledError handler, over the cached session and its file            *)
(* (session/manager.py).                                                   *)
(*                                                                         *)
(* The user message is persisted before the turn runs, with a flag; the    *)
(* runner overwrites one checkpoint in the session's metadata as it goes;  *)
(* the turn's messages reach the session only in SAVE.  A crash, a /stop,  *)
(* an exception or a failed write may come between any two steps; the next *)
(* turn's RESTORE turns checkpoint and flag into messages.                 *)
(*                                                                         *)
(* SAVE also moves what is older than HotTurns turns from the session's    *)
(* messages into a warm buffer in its metadata, which a background task    *)
(* drains once it is full (agent/warm_store.py).                           *)
(*                                                                         *)
(* Of a batch of tools that ran in parallel only what becomes of their     *)
(* results is modelled (the rest is in ToolBatch); ask_user, slash         *)
(* commands and the session's file cap are left out.                       *)
(***************************************************************************)
EXTENDS Naturals, Sequences, FiniteSets, SequencesExt

CONSTANTS
    MaxTurns,      \* bound: messages handled, the last one up to BUILD only
    MaxIterations, \* spec.max_iterations
    MaxCalls,      \* bound: tool calls of one reply
    MaxFollowUps,  \* bound: follow-ups injected into running turns
    HotTurns,      \* turns that stay in session.messages
    WarmTurns,     \* turns that make the warm buffer full
    MaxTrim,       \* bound: history entries the prompt budget drops
    MaxFaults,     \* bound: crashes, cancellations, exceptions
    MaxSaveFails   \* bound: SessionManager.save raising

ASSUME TurnAssumption ==
    /\ {MaxTurns, MaxIterations, MaxCalls, HotTurns, WarmTurns} \subseteq Nat \ {0}
    /\ {MaxFollowUps, MaxTrim, MaxFaults, MaxSaveFails} \subseteq Nat

VARIABLES
    mem,       \* the cached Session
    disk,      \* the session file
    pc,        \* where the turn is
    turn,      \* number of the current (or last) turn
    iter,      \* iteration of the runner's loop
    run,       \* all_messages behind the prompt: what this turn added
    trimmed,   \* history entries missing from the prompt the runner got
    summary,   \* warm summaries: how many are due, how many run
    execd,     \* history: tool calls that were executed
    kept,      \* history: turns whose SAVE succeeded
    doubtful,  \* history: SAVE raised on a turn that its checkpoint does not end
    used       \* [fault or follow-up -> how many so far]

vars == <<mem, disk, pc, turn, iter, run, trimmed, summary, execd, kept, doubtful,
          used>>

-----------------------------------------------------------------------------
(* Messages, checkpoints, sessions *)

Kinds == {"user", "followup", "calls", "batch", "result", "interrupted", "answer",
          "partial", "resume", "placeholder", "closed"}
UserKinds == {"user", "followup", "resume"}      \* role == user
ToolKinds == {"result", "interrupted"}           \* role == tool
CallKinds == {"calls", "batch"}  \* tool_calls, some of which may run in parallel

\* call is a tool call's number, or how many calls an assistant message makes.
Message == [kind : Kinds, turn : 1..MaxTurns, iter : 0..MaxIterations,
            call : 0..MaxCalls]
Entry(kind, call) == [kind |-> kind, turn |-> turn, iter |-> iter, call |-> call]

\* A checkpoint payload; its assistant message is always there.
Checkpoint == [assistant : Message, completed : Seq(Message), pending : BOOLEAN]
NoCheckpoint == [assistant |-> <<>>, completed |-> <<>>, pending |-> FALSE]

\* drained is a history: what warm summaries took out of the warm buffer.
EmptySession == [drained |-> <<>>, warm |-> <<>>, messages |-> <<>>,
                 pendingUserTurn |-> FALSE, checkpoint |-> NoCheckpoint, msgEnd |-> 0]
Session == [drained : Seq(Message), warm : Seq(Message), messages : Seq(Message),
            pendingUserTurn : BOOLEAN, checkpoint : {NoCheckpoint} \cup Checkpoint,
            msgEnd : Nat]
IsSession(s) == s \in Session /\ s.msgEnd <= Len(s.messages)

\* Faults and follow-ups happen while their bounds last.
Spend(faults, saveFails, followUps) ==
    /\ used.faults + faults <= MaxFaults
    /\ used.saveFails + saveFails <= MaxSaveFails
    /\ used.followUps + followUps <= MaxFollowUps
    /\ used' = [faults |-> used.faults + faults,
                saveFails |-> used.saveFails + saveFails,
                followUps |-> used.followUps + followUps]

PCs == {"idle", "restored", "model", "tools", "ran", "saved"}

TypeOK ==
    /\ IsSession(mem) /\ IsSession(disk)
    /\ pc \in PCs
    /\ turn \in 0..MaxTurns
    /\ iter \in 0..MaxIterations
    /\ run \in Seq(Message)
    /\ trimmed \in 0..MaxTrim
    /\ summary \in [due : Nat, running : Nat]
    /\ execd \in SUBSET ((1..MaxTurns) \X (0..MaxIterations) \X (1..MaxCalls))
    /\ kept \in SUBSET (1..MaxTurns)
    /\ doubtful \in BOOLEAN
    /\ used \in [faults : 0..MaxFaults, saveFails : 0..MaxSaveFails,
                followUps : 0..MaxFollowUps]

Init ==
    /\ mem = EmptySession /\ disk = EmptySession
    /\ pc = "idle" /\ turn = 0 /\ iter = 0 /\ run = <<>> /\ trimmed = 0
    /\ summary = [due |-> 0, running |-> 0]
    /\ execd = {} /\ kept = {} /\ doubtful = FALSE
    /\ used = [faults |-> 0, saveFails |-> 0, followUps |-> 0]

\* SessionManager.save: the file is replaced atomically, or an exception is
\* raised and the file stays as it was.
Save(session, ok) ==
    /\ mem' = session
    /\ disk' = IF ok THEN session ELSE disk
SaveFault(ok) == IF ok THEN 0 ELSE 1

-----------------------------------------------------------------------------
(* TurnPersistManager *)

\* The messages a checkpoint stands for; a pending call gets an error result.
Restored(c) ==
    <<c.assistant>> \o
    IF c.pending
      THEN [i \in 1..c.assistant.call |->
              [c.assistant EXCEPT !.kind = "interrupted", !.call = i]]
      ELSE c.completed

\* Mutant: whatever the checkpoint holds is appended.
RestoreWithoutOverlap(s) ==
    IF s.checkpoint = NoCheckpoint THEN s
    ELSE [s EXCEPT !.messages = @ \o Restored(s.checkpoint),
                   !.pendingUserTurn = FALSE, !.checkpoint = NoCheckpoint]
\* Mutant: pending calls get no result.
RestoreWithoutPending(s) ==
    IF s.checkpoint = NoCheckpoint THEN s
    ELSE [s EXCEPT !.messages = @ \o <<s.checkpoint.assistant>>
                                  \o s.checkpoint.completed,
                   !.pendingUserTurn = FALSE, !.checkpoint = NoCheckpoint]
\* restore_checkpoint: append what the tail of the session does not already
\* hold (the longest match wins) and clear both marks.  Neither it nor
\* restore_pending_user_turn moves the end of the active episode.
RestoreCheckpoint(s) ==
    IF s.checkpoint = NoCheckpoint THEN s
    ELSE LET r == Restored(s.checkpoint)
             matches == {n \in 0..Len(r) : n <= Len(s.messages)
                            /\ SubSeq(s.messages, Len(s.messages) - n + 1, Len(s.messages))
                                 = SubSeq(r, 1, n)}
             overlap == CHOOSE n \in matches : \A k \in matches : k <= n
         IN  [s EXCEPT !.messages = @ \o SubSeq(r, overlap + 1, Len(r)),
                       !.pendingUserTurn = FALSE, !.checkpoint = NoCheckpoint]

\* Mutant: the flag is cleared, the turn is left open.
RestorePendingOnlyFlag(s) == [s EXCEPT !.pendingUserTurn = FALSE]

\* restore_pending_user_turn: close a turn of which only the user message is
\* there.
RestorePendingUserTurn(s) ==
    IF ~s.pendingUserTurn THEN s
    ELSE [s EXCEPT !.pendingUserTurn = FALSE,
                   !.messages =
                     IF @ # <<>> /\ Last(@).kind \in UserKinds
                       THEN Append(@, [Last(@) EXCEPT !.kind = "closed"])
                       ELSE @]

\* add_message, the turn's own flag: persist_user_message_early.
PersistUserEarly(s) ==
    [s EXCEPT !.messages = Append(@, Entry("user", 0)),
              !.msgEnd = Len(s.messages) + 1,
              !.pendingUserTurn = TRUE]

SetCheckpoint(assistant, completed, pending) ==
    [mem EXCEPT !.checkpoint = [assistant |-> assistant, completed |-> completed,
                                pending |-> pending]]

\* AgentLoop._save_turn: append all_messages[save_skip:], where save_skip
\* counts the history before the prompt budget trimmed it, and move the
\* episode's end.
SaveTurn(s) ==
    LET new == SubSeq(run, trimmed + 1, Len(run))
    IN  [s EXCEPT !.messages = @ \o new, !.msgEnd = Len(s.messages) + Len(new)]

-----------------------------------------------------------------------------
(* The warm store *)

Users(ms) == {i \in DOMAIN ms : ms[i].kind \in UserKinds}

\* m is the result of a's call c.
Answers(m, a, c) == /\ m.kind \in ToolKinds
                    /\ m.turn = a.turn /\ m.iter = a.iter /\ m.call = c

\* find_legal_message_start: no result from n on lacks its call.
LegalFrom(ms, n) ==
    \A j \in n..Len(ms) :
      ms[j].kind \in ToolKinds =>
        \E i \in n..j : ms[i].kind \in CallKinds /\ Answers(ms[j], ms[i], ms[j].call)

\* _find_hot_start_idx: the last user message that leaves HotTurns turns and no
\* orphaned result; if there is none, the first place behind the orphans.
HotStart(ms) ==
    LET starts == {u \in Users(ms) :
                     /\ Cardinality({v \in Users(ms) : v >= u}) >= HotTurns
                     /\ LegalFrom(ms, u)}
    IN  IF Cardinality(Users(ms)) <= HotTurns THEN 1
        ELSE IF starts # {} THEN Max(starts)
        ELSE Min({n \in Min(Users(ms))..Len(ms) + 1 : LegalFrom(ms, n)})

\* _split_messages_by_turn: what precedes the first user message is no turn.
FromFirstUser(ms) ==
    IF Users(ms) = {} THEN <<>> ELSE SubSeq(ms, Min(Users(ms)), Len(ms))

\* Mutant: the turn on the boundary is in neither store.
SpillOffByOne(s) ==
    LET start == HotStart(s.messages)
    IN  IF start = 1 THEN s
        ELSE [s EXCEPT !.warm = @ \o FromFirstUser(SubSeq(s.messages, 1, start - 2)),
                       !.messages = SubSeq(@, start, Len(@)),
                       !.msgEnd = Min({@, Len(s.messages) - start + 1})]
\* _spill_overflow_into_warm_store, with _rebuild_episode_indices, which clamps
\* the episode's end.
Spill(s) ==
    LET start == HotStart(s.messages)
    IN  IF start = 1 THEN s
        ELSE [s EXCEPT !.warm = @ \o FromFirstUser(SubSeq(s.messages, 1, start - 1)),
                       !.messages = SubSeq(@, start, Len(@)),
                       !.msgEnd = Min({@, Len(s.messages) - start + 1})]

\* _run_warm_summary up to its await: the buffer is emptied in memory.
WarmSummaryDrains ==
    /\ summary.due > 0
    /\ summary' = [due |-> summary.due - 1,
                   running |-> summary.running + IF mem.warm = <<>> THEN 0 ELSE 1]
    /\ mem' = [mem EXCEPT !.drained = @ \o mem.warm, !.warm = <<>>]
    /\ UNCHANGED <<disk, pc, turn, iter, run, trimmed, execd, kept, doubtful, used>>

\* _run_warm_summary behind it: what was drained is archived, and the session,
\* on which a turn may be running, is saved; a failure is only logged.
WarmSummaryEnds ==
    /\ summary.running > 0
    /\ summary' = [summary EXCEPT !.running = @ - 1]
    /\ \E ok \in BOOLEAN : Save(mem, ok) /\ Spend(0, SaveFault(ok), 0)
    /\ UNCHANGED <<pc, turn, iter, run, trimmed, execd, kept, doubtful>>

-----------------------------------------------------------------------------
(* RESTORE and BUILD *)

\* state_restore.  At most one of its two saves happens: restoring the
\* checkpoint clears the flag.
StateRestore ==
    /\ pc = "idle"
    /\ turn < MaxTurns
    /\ turn' = turn + 1
    /\ iter' = 0 /\ run' = <<>> /\ trimmed' = 0
    /\ LET s == RestorePendingUserTurn(RestoreCheckpoint(mem))
       IN  \/ /\ s = mem
              /\ pc' = "restored"
              /\ UNCHANGED <<mem, disk, used>>
           \/ \E ok \in BOOLEAN :
                /\ s # mem
                /\ Save(s, ok)
                /\ pc' = IF ok THEN "restored" ELSE "idle"
                /\ Spend(0, SaveFault(ok), 0)
    /\ UNCHANGED <<execd, kept, doubtful, summary>>

\* get_episode_history: the conversation stays in one episode here, which
\* starts with the first message.
EpisodeHistory(s) == SubSeq(s.messages, 1, s.msgEnd)

\* state_build: the prompt is the episode's history, of which the prompt budget
\* may drop the oldest entries, and the user message, which is persisted.
StateBuild ==
    /\ pc = "restored"
    /\ turn < MaxTurns
    /\ \E n \in 0..MaxTrim : n <= Len(EpisodeHistory(mem)) /\ trimmed' = n
    /\ \E ok \in BOOLEAN :
         /\ Save(PersistUserEarly(mem), ok)
         /\ pc' = IF ok THEN "model" ELSE "idle"
         /\ Spend(0, SaveFault(ok), 0)
    /\ UNCHANGED <<turn, iter, run, execd, kept, doubtful, summary>>

-----------------------------------------------------------------------------
(* RUN: the loop of AgentRunner.run *)

FollowUps == {<<>>, <<Entry("followup", 0)>>}

\* _append_injected_messages: behind a user message the follow-up becomes part
\* of it, be it the prompt itself, which SAVE skips.
Injected(r) ==
    IF r = <<>> THEN r
    ELSE Append(IF Last(r).kind \in UserKinds THEN Front(r) ELSE r,
                Entry("followup", 0))

\* Mutant: the loop does not count its iterations.
ModelRepliesEndlessly == pc = "model"

ModelReplies == pc = "model" /\ iter < MaxIterations

\* Mutant: the tools run before the checkpoint is written.
ModelCallsUncheckpointed(kind, n) ==
    /\ ModelReplies
    /\ kind = "batch" => n > 1
    /\ run' = Append(run, Entry(kind, n))
    /\ pc' = "tools"
    /\ UNCHANGED <<mem, disk, turn, iter, trimmed, execd, kept, doubtful, used, summary>>

\* A reply with tool calls: checkpoint "awaiting_tools", then execute them.
\* What the calls are decides whether some of them will run in parallel.
ModelCalls(kind, n) ==
    /\ ModelReplies
    /\ kind = "batch" => n > 1
    /\ run' = Append(run, Entry(kind, n))
    /\ \E ok \in BOOLEAN :
         /\ Save(SetCheckpoint(Entry(kind, n), <<>>, TRUE), ok)
         /\ pc' = IF ok THEN "tools" ELSE "idle"
         /\ Spend(0, SaveFault(ok), 0)
    /\ UNCHANGED <<turn, iter, trimmed, execd, kept, doubtful, summary>>

Done == Cardinality({c \in 1..MaxCalls : <<turn, iter, c>> \in execd})

\* A parallel batch keeps the results of tasks that raised and no others, and
\* the results there are go to the first calls.
ResultCounts == IF Last(run).kind = "batch" THEN 0..Last(run).call ELSE {Last(run).call}
Results(k) == [i \in 1..k |-> Entry("result", i)]

\* The next tool of the reply runs; its effects are out in the world.
ExecuteTool ==
    /\ pc = "tools"
    /\ Done < Last(run).call
    /\ execd' = execd \cup {<<turn, iter, Done + 1>>}
    /\ UNCHANGED <<mem, disk, pc, turn, iter, run, trimmed, kept, doubtful, used, summary>>

\* The tools returned: the results, checkpoint "tools_completed", follow-ups.
ToolsCompleted ==
    /\ pc = "tools"
    /\ Done = Last(run).call
    /\ iter' = iter + 1
    /\ \E ok \in BOOLEAN, f \in FollowUps, k \in ResultCounts :
         /\ run' = run \o Results(k) \o f
         /\ Save(SetCheckpoint(Last(run), Results(k), FALSE), ok)
         /\ pc' = IF ok THEN "model" ELSE "idle"
         /\ Spend(0, SaveFault(ok), Len(f))
    /\ UNCHANGED <<turn, trimmed, execd, kept, doubtful, summary>>

\* The turn ends with the message last, or goes on if there is a follow-up.
ContinueOrReturn(last) ==
    \E f \in FollowUps :
      /\ run' = run \o last \o f
      /\ pc' = IF f = <<>> THEN "ran" ELSE "model"
      /\ iter' = IF f = <<>> THEN iter ELSE iter + 1
      /\ Spend(0, 0, Len(f))

\* A tool failed for good: results and an error message, no new checkpoint.
ToolsFailed ==
    /\ pc = "tools"
    /\ Done = Last(run).call
    /\ \E k \in ResultCounts :
         ContinueOrReturn(Results(k) \o <<Entry("placeholder", 0)>>)
    /\ UNCHANGED <<mem, disk, turn, trimmed, execd, kept, doubtful, summary>>

\* The final answer, with its checkpoint "final_response".
ModelAnswers ==
    /\ ModelReplies
    /\ \E ok \in BOOLEAN, f \in FollowUps :
         /\ run' = run \o <<Entry("answer", 0)>> \o f
         /\ Save(SetCheckpoint(Entry("answer", 0), <<>>, FALSE), ok)
         /\ pc' = IF ~ok THEN "idle" ELSE IF f = <<>> THEN "ran" ELSE "model"
         /\ iter' = IF f = <<>> THEN iter ELSE iter + 1
         /\ Spend(0, SaveFault(ok), Len(f))
    /\ UNCHANGED <<turn, trimmed, execd, kept, doubtful, summary>>

\* The model failed or said nothing: follow-ups that are already there are
\* injected instead; otherwise a placeholder, then follow-ups again.
ModelFails ==
    /\ ModelReplies
    /\ \/ /\ run' = Injected(run)
          /\ pc' = "model"
          /\ iter' = iter + 1
          /\ Spend(0, 0, 1)
       \/ ContinueOrReturn(<<Entry("placeholder", 0)>>)
    /\ UNCHANGED <<mem, disk, turn, trimmed, execd, kept, doubtful, summary>>

\* A truncated answer is continued; an empty one is asked for again.
ModelTruncatedOrEmpty ==
    /\ ModelReplies
    /\ run' \in {run, run \o <<Entry("partial", 0), Entry("resume", 0)>>}
    /\ iter' = iter + 1
    /\ UNCHANGED <<mem, disk, pc, turn, trimmed, execd, kept, doubtful, used, summary>>

\* The loop is exhausted: a message saying so, and what is in the queue.
OutOfIterations ==
    /\ pc = "model"
    /\ iter = MaxIterations
    /\ \E f \in FollowUps :
         /\ run' = run \o <<Entry("placeholder", 0)>> \o f
         /\ Spend(0, 0, Len(f))
    /\ pc' = "ran"
    /\ UNCHANGED <<mem, disk, turn, iter, trimmed, execd, kept, doubtful, summary>>

-----------------------------------------------------------------------------
(* SAVE and the end of the turn *)

\* The session after a turn: appended, spilled, both marks cleared.
AfterTurn == [Spill(SaveTurn(mem)) EXCEPT !.pendingUserTurn = FALSE,
                                          !.checkpoint = NoCheckpoint]

\* state_save: schedule the summary of a full warm buffer and save.
StateSave ==
    /\ pc = "ran"
    /\ summary' = IF Cardinality(Users(AfterTurn.warm)) >= WarmTurns
                    THEN [summary EXCEPT !.due = @ + 1] ELSE summary
    /\ \E ok \in BOOLEAN :
         /\ Save(AfterTurn, ok)
         /\ pc' = IF ok THEN "saved" ELSE "idle"
         /\ kept' = IF ok THEN kept \cup {turn} ELSE kept
         /\ Spend(0, SaveFault(ok), 0)
    /\ UNCHANGED <<turn, iter, run, trimmed, execd, doubtful>>

\* state_save raises between save_turn and the clearing of the marks
\* (enforce_file_cap archives old messages to disk).
StateSaveRaises ==
    /\ pc = "ran"
    /\ mem' = SaveTurn(mem)
    /\ pc' = "idle"
    /\ doubtful' = (doubtful \/ (mem.checkpoint # NoCheckpoint
                                   /\ ~IsSuffix(Restored(mem.checkpoint), run)))
    /\ Spend(1, 0, 0)
    /\ UNCHANGED <<disk, turn, iter, run, trimmed, execd, kept, summary>>

\* AUTOMATION, RESPOND, DONE.
StateRespond ==
    /\ pc = "saved"
    /\ pc' = "idle"
    /\ UNCHANGED <<mem, disk, turn, iter, run, trimmed, execd, kept, doubtful, used, summary>>

\* An exception or a timeout inside RUN: HANDLE_ERROR / HANDLE_TIMEOUT touch
\* nothing, the user gets a response, the marks stay for the next RESTORE.
RunRaises ==
    /\ pc \in {"model", "tools"}
    /\ pc' = "idle"
    /\ Spend(1, 0, 0)
    /\ UNCHANGED <<mem, disk, turn, iter, run, trimmed, execd, kept, doubtful, summary>>

\* CancelledError in the dispatcher: materialize the checkpoint, if any, at
\* once; a failing save is only logged.
Cancelled ==
    /\ pc # "idle"
    /\ pc' = "idle"
    /\ LET s == RestoreCheckpoint(mem)
       IN  \/ /\ mem.checkpoint = NoCheckpoint
              /\ Spend(1, 0, 0)
              /\ UNCHANGED <<mem, disk>>
           \/ \E ok \in BOOLEAN :
                /\ mem.checkpoint # NoCheckpoint
                /\ Save(s, ok)
                /\ Spend(1, SaveFault(ok), 0)
    /\ UNCHANGED <<turn, iter, run, trimmed, execd, kept, doubtful, summary>>

\* The process dies and is started again; the session is loaded from its file.
CrashAndRestart ==
    /\ mem' = disk
    /\ pc' = "idle"
    /\ summary' = [due |-> 0, running |-> 0]
    /\ Spend(1, 0, 0)
    /\ UNCHANGED <<disk, turn, iter, run, trimmed, execd, kept, doubtful>>

-----------------------------------------------------------------------------
RunStep ==
    \/ \E kind \in CallKinds, n \in 1..MaxCalls : ModelCalls(kind, n)
    \/ ExecuteTool
    \/ ToolsCompleted
    \/ ToolsFailed
    \/ ModelAnswers
    \/ ModelFails
    \/ ModelTruncatedOrEmpty
    \/ OutOfIterations

Next ==
    \/ StateRestore
    \/ StateBuild
    \/ RunStep
    \/ StateSave
    \/ StateSaveRaises
    \/ StateRespond
    \/ RunRaises
    \/ Cancelled
    \/ CrashAndRestart
    \/ WarmSummaryDrains
    \/ WarmSummaryEnds

Spec == Init /\ [][Next]_vars

-----------------------------------------------------------------------------
(* Properties *)

\* The whole conversation: given to warm summaries, in the buffer, current.
Conversation(s) == s.drained \o s.warm \o s.messages

\* Every tool call of a reply that ran its tools one by one has its results,
\* directly behind it.
CallsAnswered(ms) ==
    \A i \in DOMAIN ms :
      ms[i].kind = "calls" =>
        \A c \in 1..ms[i].call : i + c <= Len(ms) /\ Answers(ms[i + c], ms[i], c)

\* What a provider demands of a history, but for the results that a parallel
\* batch lost: also, no result stands anywhere but behind its call, after the
\* results of the calls before it.
Closed(ms) ==
    /\ CallsAnswered(ms)
    /\ \A i \in DOMAIN ms :
         ms[i].kind \in ToolKinds =>
           LET p == i - ms[i].call
           IN  /\ p > 0 /\ ms[p].kind \in CallKinds
               /\ \A c \in 1..ms[i].call : Answers(ms[p + c], ms[p], c)

\* Whatever interrupted the turns before, and wherever the warm store took over
\* what came before it, the history that a new turn starts from pairs tool calls
\* and results (restore_checkpoint supplies the ones that were pending); only
\* calls of a reply that ran tools in parallel may go without.
HistoryClosed == pc = "restored" => Closed(mem.messages)

\* Even if SAVE skipped the first messages of a turn whose prompt was trimmed,
\* no tool call of a sequential reply lacks its result at the start of the
\* next: what is skipped comes before what is saved.
CallsHaveResults == pc = "restored" => CallsAnswered(mem.messages)

\* The overlap rule of restore_checkpoint keeps the messages of a turn that
\* were already appended from being appended again, and SAVE moves a message into
\* the warm buffer instead of copying it.  (Not so if SAVE raised
\* for a turn that goes on after its last checkpoint: the tail no longer
\* matches.)
NothingTwice ==
    doubtful \/ LET ms == Conversation(mem)
                IN  \A i, j \in DOMAIN ms : i # j => ms[i] # ms[j]

\* No turn is left open: at the start of a turn the history does not end with
\* a user message that got no answer, and no two of them follow each other.
TurnsClosed ==
    pc = "restored" =>
      \A i \in DOMAIN mem.messages :
        mem.messages[i].kind = "user" =>
          i < Len(mem.messages) /\ mem.messages[i + 1].kind # "user"

\* A checkpoint belongs to the last user message of the session that holds it,
\* in memory and in the file: it is never restored behind a later turn.
CheckpointOfLastTurn ==
    \A s \in {mem, disk} :
      s.checkpoint # NoCheckpoint =>
        \E i \in DOMAIN s.messages :
          /\ s.messages[i].kind = "user"
          /\ s.messages[i].turn = s.checkpoint.assistant.turn
          /\ \A j \in i + 1..Len(s.messages) : s.messages[j].kind # "user"

\* A tool call that was executed is in the conversation the next turn finds,
\* unless a later reply of the same turn is: the checkpoint is written before
\* the tools run, and overwritten by the next one.
LastCallsRemembered ==
    pc = "restored" =>
      \A e \in execd : \E i \in DOMAIN Conversation(mem) :
        LET m == Conversation(mem)[i]
        IN  /\ m.turn = e[1]
            /\ \/ m.kind \in CallKinds /\ m.iter = e[2] /\ e[3] <= m.call
               \/ m.kind \in CallKinds \cup {"answer"} /\ m.iter > e[2]

\* A turn that was saved without an error has its closing message in the file,
\* or a warm summary has taken it from there: through later crashes, failed
\* saves and turns that push it into the warm buffer.
SavedTurnDurable ==
    \A t \in kept : \E i \in DOMAIN Conversation(disk) :
      /\ Conversation(disk)[i].turn = t
      /\ Conversation(disk)[i].kind \in {"answer", "placeholder"}

\* No crash, restore, cancellation, spill or save removes, changes or reorders
\* what is in the session file, be it a current message or in the warm buffer;
\* only a warm summary takes messages, the oldest first.
PersistedNeverLost == [][IsPrefix(Conversation(disk), Conversation(disk'))]_vars

\* Of the current messages only those of an interrupted turn are missing from
\* the next prompt: a turn that was saved moved the end of its episode, and the
\* spill moved it back by no more than it took away.
PromptHasSavedTurns ==
    pc = "restored" =>
      \A i \in mem.msgEnd + 1..Len(mem.messages) : mem.messages[i].turn \notin kept

\* What a comment in AgentRunner.run demands of edits to the prompt: they "must
\* not shift the append boundary used later when the caller saves only the new
\* turn".
WholeTurnSaved == pc = "saved" => IsSuffix(run, Conversation(mem))

\* Whatever interrupted it, a turn is closed exactly once, where it stands in
\* the history.
InterruptedTurnClosed == TurnsClosed /\ CheckpointOfLastTurn

\* What a turn did and what was answered is remembered: by the next turn, by
\* the file and in the prompt.
WorkRemembered == LastCallsRemembered /\ SavedTurnDurable /\ PromptHasSavedTurns
=============================================================================
