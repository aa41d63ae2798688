----------------------------- MODULE Subagents -----------------------------
(***************************************************************************)
(* OriginAgent/agent/subagent.py: background subagents, their records and  *)
(* live files (agent/subagent_records.py), their cancellation by /stop     *)
(* (agent/loop.py), and the way of a result through the internal queue of  *)
(* the bus to a turn of its own, which keeps it in the session             *)
(* (agent/system_turn_handler.py), or into a turn that is running there    *)
(* (agent/message_dispatcher.py).                                          *)
(*                                                                         *)
(* A subagent is registered under the key of its session, which _dispatch  *)
(* gave the message: the tenant's.  /stop is handled before _dispatch, and *)
(* looks under the key its chat routes by.                                 *)
(*                                                                         *)
(* Everything runs in one event loop; a step is what happens between two   *)
(* suspensions.  spawn and the announcement of a result never suspend.     *)
(* What a subagent does between its start and its end is left out.         *)
(***************************************************************************)
EXTENDS Naturals, FiniteSets, Sequences

CONSTANTS
    Tasks,       \* subagent ids
    Root,        \* the parent of a subagent that a turn spawns
    Parent,      \* [Tasks -> Tasks \cup {Root}]
    Depth,       \* [Tasks -> 1..]: one more than the parent's
    Keys,        \* session keys
    SessionOf,   \* [Tasks -> Keys]: what it is registered under, as its parent
    Chats,
    ChatOf,      \* [Tasks -> Chats]: where it, or its first ancestor, was asked for
    KeyOf,       \* [Chats -> Keys]: the key by which the chat's messages are routed
    MaxRunning,  \* max_concurrent_subagents
    MaxChildren, \* max_children_per_subagent
    MaxDepth,    \* max_subagent_depth of the policy of a first-level subagent
    QueueMax,    \* maxsize of the bus's internal queue
    MaxBusy,     \* bound: results that find a turn of their session running
    MaxFaults    \* bound: crashes, swallowed cancellations, results lost

ASSUME SubagentsAssumption ==
    /\ Root \notin Tasks
    /\ Parent \in [Tasks -> Tasks \cup {Root}]
    /\ SessionOf \in [Tasks -> Keys]
    /\ ChatOf \in [Tasks -> Chats]
    /\ KeyOf \in [Chats -> Keys]
    /\ \A t \in Tasks : /\ Depth[t] \in Nat \ {0}
                        /\ Parent[t] = Root => Depth[t] = 1
                        /\ Parent[t] # Root => /\ Depth[t] = Depth[Parent[t]] + 1
                                               /\ SessionOf[t] = SessionOf[Parent[t]]
                                               /\ ChatOf[t] = ChatOf[Parent[t]]
    /\ {MaxRunning, MaxChildren, MaxDepth, QueueMax, MaxBusy, MaxFaults} \subseteq Nat

VARIABLES
    up,         \* the process runs
    pc,         \* [Tasks -> where its asyncio task is]
    cancelling, \* the tasks whose cancellation is requested and not delivered
    rec,        \* [Tasks -> the status of its last record in tasks.jsonl]
    live,       \* the tasks with a file in memory/subagents/live
    children,   \* [Tasks -> Nat]: _child_counts
    awaited,    \* [Chats -> SUBSET Tasks]: what cancel_by_session awaits
    stopping,   \* the chat whose /stop has not returned
    queue,      \* inbound_internal, of results
    result,     \* [Tasks -> where its result is]
    busy,       \* results that found a turn running, so far
    faults,
    early,      \* history: cancelled before the first step
    deaf,       \* history: went on after a cancellation
    torn,       \* history: the process died inside its spawn or its ending
    outlived    \* history: still running when a /stop from its chat returned

vars == <<up, pc, cancelling, rec, live, children, awaited, stopping, queue, result,
          busy, faults, early, deaf, torn, outlived>>

\* "finished" is completed or failed: the end of the run, or an exception.
Final == {"finished", "cancelled", "interrupted"}

\* What becomes of a result: kept in the session by its own turn, given to the
\* model of a turn under way, or dropped at a full queue, taken by /stop, lost.
Outcomes == {"kept", "injected", "dropped", "stopped", "lost"}

TypeOK ==
    /\ up \in BOOLEAN
    /\ pc \in [Tasks -> {"none", "scheduled", "running", "ended", "gone", "lost"}]
    /\ cancelling \subseteq Tasks
    /\ rec \in [Tasks -> {"none", "spawned", "running"} \cup Final]
    /\ live \subseteq Tasks
    /\ children \in [Tasks -> 0..MaxChildren]
    /\ awaited \in [Chats -> SUBSET Tasks]
    /\ stopping \subseteq Chats
    /\ queue \in Seq(Tasks) /\ Len(queue) <= QueueMax
    /\ result \in [Tasks -> {"none", "queued", "handled", "pending"} \cup Outcomes]
    /\ busy \in 0..MaxBusy
    /\ faults \in 0..MaxFaults
    /\ {early, deaf, torn, outlived} \subseteq {X : X \in SUBSET Tasks}

Init ==
    /\ up = TRUE
    /\ pc = [t \in Tasks |-> "none"]
    /\ cancelling = {}
    /\ rec = [t \in Tasks |-> "none"]
    /\ live = {}
    /\ children = [t \in Tasks |-> 0]
    /\ awaited = [c \in Chats |-> {}]
    /\ stopping = {}
    /\ queue = <<>>
    /\ result = [t \in Tasks |-> "none"]
    /\ busy = 0
    /\ faults = 0
    /\ early = {} /\ deaf = {} /\ torn = {} /\ outlived = {}

\* _running_tasks
Registered == {t \in Tasks : pc[t] \in {"scheduled", "running", "ended"}}
Fault == faults < MaxFaults /\ faults' = faults + 1

\* The depth a nested spawn may have: the policy of a subagent at depth d
\* allows MaxDepth - (d - 1), and child_policy takes one off again.
DepthAllowed(t) == Depth[t] <= MaxDepth - Depth[Parent[t]]

SetResult(t, place) == result' = [result EXCEPT ![t] = place]

\* publish_inbound of an internal message: it is dropped when the queue is full.
Publish(t) ==
    IF Len(queue) < QueueMax
      THEN queue' = Append(queue, t) /\ SetResult(t, "queued")
      ELSE SetResult(t, "dropped") /\ UNCHANGED queue

----------------------------------------------------------------------------
\* The turns under key k have ended, and none begins before /stop returns: it
\* occupies the dispatching loop.
Halted(k) == \E c \in stopping : KeyOf[c] = k

\* spawn, from a turn of the session or from a running subagent.  The turns of
\* the chat's own messages are known by the key the chat routes by, those that
\* results start by the session's.
Spawn(t) ==
    /\ up /\ pc[t] = "none"
    /\ Cardinality(Registered) < MaxRunning
    /\ IF Parent[t] = Root
         THEN /\ ~Halted(KeyOf[ChatOf[t]]) \/ ~Halted(SessionOf[t])
              /\ UNCHANGED children
         ELSE /\ pc[Parent[t]] = "running" /\ Parent[t] \notin cancelling
              /\ DepthAllowed(t)
              /\ children[Parent[t]] < MaxChildren
              /\ children' = [children EXCEPT ![Parent[t]] = @ + 1]
    /\ pc' = [pc EXCEPT ![t] = "scheduled"]
    /\ rec' = [rec EXCEPT ![t] = "spawned"]
    /\ live' = live \cup {t}
    /\ UNCHANGED <<up, cancelling, awaited, stopping, queue, result, busy, faults, early, deaf,
                   torn, outlived>>

\* _run_subagent, its first step.
Start(t) ==
    /\ up /\ pc[t] = "scheduled" /\ t \notin cancelling
    /\ pc' = [pc EXCEPT ![t] = "running"]
    /\ rec' = [rec EXCEPT ![t] = "running"]
    /\ UNCHANGED <<up, cancelling, live, children, awaited, stopping, queue, result, busy, faults,
                   early, deaf, torn, outlived>>

\* Mutant: the end of a subagent leaves its live file.
FinishKeepsFile(t) ==
    /\ up /\ pc[t] = "running" /\ t \notin cancelling
    /\ pc' = [pc EXCEPT ![t] = "ended"]
    /\ rec' = [rec EXCEPT ![t] = "finished"]
    /\ Publish(t)
    /\ UNCHANGED <<up, cancelling, live, children, awaited, stopping, busy, faults, early, deaf,
                   torn, outlived>>

\* The end of the run, or an exception: _record_terminal_task, then
\* _announce_result, which the bus drops when the internal queue is full.
Finish(t) ==
    /\ up /\ pc[t] = "running" /\ t \notin cancelling
    /\ pc' = [pc EXCEPT ![t] = "ended"]
    /\ rec' = [rec EXCEPT ![t] = "finished"]
    /\ live' = live \ {t}
    /\ Publish(t)
    /\ UNCHANGED <<up, cancelling, children, awaited, stopping, busy, faults, early, deaf, torn,
                   outlived>>

\* Mutant: a cancelled subagent announces a result too.
CancelAnnounces(t) ==
    /\ up /\ t \in cancelling
    /\ pc' = [pc EXCEPT ![t] = "ended"]
    /\ cancelling' = cancelling \ {t}
    /\ rec' = [rec EXCEPT ![t] = "cancelled"]
    /\ live' = live \ {t}
    /\ Publish(t)
    /\ UNCHANGED <<up, children, awaited, stopping, busy, faults, early, deaf, torn, outlived>>

\* CancelledError reaches the task.  A task that has not made its first step
\* ends without running its handler: no record, and the live file stays.
CancelDelivered(t) ==
    /\ up /\ t \in cancelling
    /\ pc' = [pc EXCEPT ![t] = "ended"]
    /\ cancelling' = cancelling \ {t}
    /\ IF pc[t] = "running"
         THEN /\ rec' = [rec EXCEPT ![t] = "cancelled"]
              /\ live' = live \ {t}
              /\ UNCHANGED early
         ELSE early' = early \cup {t} /\ UNCHANGED <<rec, live>>
    /\ UNCHANGED <<up, children, awaited, stopping, queue, result, busy, faults, deaf, torn, outlived>>

\* The audit of a tool call takes the cancellation for its own failure.
CancelSwallowed(t) ==
    /\ up /\ t \in cancelling /\ pc[t] = "running"
    /\ Fault
    /\ cancelling' = cancelling \ {t}
    /\ deaf' = deaf \cup {t}
    /\ UNCHANGED <<up, pc, rec, live, children, awaited, stopping, queue, result, busy, early, torn,
                   outlived>>

\* Mutant: the cleanup stands in the coroutine, which an early cancellation
\* never enters.
CleanupInCoroutine(t) ==
    /\ up /\ pc[t] = "ended" /\ t \notin early
    /\ pc' = [pc EXCEPT ![t] = "gone"]
    /\ UNCHANGED <<up, cancelling, rec, live, children, awaited, stopping, queue, result,
                   busy, faults, early, deaf, torn, outlived>>

\* _cleanup, the task's done callback.
Cleanup(t) ==
    /\ up /\ pc[t] = "ended"
    /\ pc' = [pc EXCEPT ![t] = "gone"]
    /\ UNCHANGED <<up, cancelling, rec, live, children, awaited, stopping, queue, result,
                   busy, faults, early, deaf, torn, outlived>>

----------------------------------------------------------------------------
\* /stop: _cancel_active_tasks and cancel_by_session.

OfChat(c) == {t \in Tasks : ChatOf[t] = c}
Under(k) == {t \in Tasks : SessionOf[t] = k}

\* Mutant: a subagent that has not started is not cancelled.
TargetsStarted(c) == {t \in Under(KeyOf[c]) : pc[t] = "running"}

Targets(c) == {t \in Under(KeyOf[c]) : pc[t] \in {"scheduled", "running"}}

\* The turns under the key end first, and with them what they were handling.
StopBegins(c) ==
    /\ up /\ stopping = {}
    /\ Registered \cap (OfChat(c) \cup Under(KeyOf[c])) # {}
    /\ stopping' = {c}
    /\ awaited' = [awaited EXCEPT ![c] = Targets(c)]
    /\ cancelling' = cancelling \cup Targets(c)
    /\ result' = [t \in Tasks |-> IF t \in Under(KeyOf[c]) /\ result[t] = "handled"
                                    THEN "stopped" ELSE result[t]]
    /\ UNCHANGED <<up, pc, rec, live, children, queue, busy, faults, early, deaf, torn,
                   outlived>>

StopReturns(c) ==
    /\ up /\ c \in stopping
    /\ \A t \in awaited[c] : pc[t] \in {"ended", "gone"}
    /\ stopping' = {} /\ awaited' = [awaited EXCEPT ![c] = {}]
    /\ outlived' = outlived \cup {t \in OfChat(c) : pc[t] \in {"scheduled", "running"}}
    /\ UNCHANGED <<up, pc, cancelling, rec, live, children, queue, result, busy, faults,
                   early, deaf, torn>>

----------------------------------------------------------------------------
\* The result's way into the session.

RestOfResult == <<up, pc, cancelling, rec, live, children, awaited, stopping, early, deaf,
                  torn, outlived>>

\* The dispatching loop, which a /stop occupies, takes the next result.  It
\* gets a turn of its own, or, while a turn of its session is running, a place
\* in the queue of that turn (unless that queue is full).
TakeResult ==
    /\ up /\ stopping = {} /\ queue # <<>>
    /\ queue' = Tail(queue)
    /\ \/ SetResult(Head(queue), "handled") /\ UNCHANGED busy
       \/ /\ SetResult(Head(queue), "pending")
          /\ busy < MaxBusy /\ busy' = busy + 1
    /\ UNCHANGED <<RestOfResult, faults>>

\* consume_inbound is cancelled with the message in hand.
LoseResult ==
    /\ up /\ stopping = {} /\ queue # <<>>
    /\ Fault
    /\ queue' = Tail(queue) /\ SetResult(Head(queue), "lost")
    /\ UNCHANGED <<RestOfResult, busy>>

\* persist_subagent_followup and the save, after the turn's first awaits.
KeepResult(t) ==
    /\ up /\ result[t] = "handled"
    /\ SetResult(t, "kept")
    /\ UNCHANGED <<RestOfResult, queue, busy, faults>>

\* _drain_pending gives it to the running turn's model as a system message.
InjectResult(t) ==
    /\ up /\ result[t] = "pending"
    /\ SetResult(t, "injected")
    /\ UNCHANGED <<RestOfResult, queue, busy, faults>>

\* The running turn ended before it looked: dispatch_message publishes what
\* is left in its queue.
RepublishResult(t) ==
    /\ up /\ result[t] = "pending"
    /\ Publish(t)
    /\ UNCHANGED <<RestOfResult, busy, faults>>

\* The turn raises before it keeps the result, or the publishing of what is
\* left is cancelled at an earlier message.
DropResult(t) ==
    /\ up /\ result[t] \in {"handled", "pending"}
    /\ Fault
    /\ SetResult(t, "lost")
    /\ UNCHANGED <<RestOfResult, queue, busy>>

----------------------------------------------------------------------------
\* The process dies: its tasks, its queue and its turns are gone.
Dies ==
    /\ Fault
    /\ up' = FALSE
    /\ pc' = [t \in Tasks |-> IF t \in Registered THEN "lost" ELSE pc[t]]
    /\ cancelling' = {} /\ queue' = <<>> /\ stopping' = {}
    /\ awaited' = [c \in Chats |-> {}]
    /\ children' = [t \in Tasks |-> 0]
    /\ result' = [t \in Tasks |-> IF result[t] \in {"queued", "handled", "pending"}
                                    THEN "lost" ELSE result[t]]
    /\ UNCHANGED <<busy, early, deaf, outlived>>

Crash == up /\ Dies /\ UNCHANGED <<rec, live, torn>>

\* Between the record and the live file: of spawn, or of _record_terminal_task.
CrashInSpawn(t) ==
    /\ up /\ Dies /\ pc[t] = "scheduled" /\ rec[t] = "spawned"
    /\ live' = live \ {t} /\ torn' = torn \cup {t}
    /\ UNCHANGED rec

CrashInEnding(t) ==
    /\ up /\ Dies /\ pc[t] = "running" /\ t \notin cancelling
    /\ rec' = [rec EXCEPT ![t] = "finished"]
    /\ torn' = torn \cup {t}
    /\ UNCHANGED live

\* reconcile_live_state
Restart ==
    /\ ~up /\ up' = TRUE
    /\ rec' = [t \in Tasks |-> IF t \in live THEN "interrupted" ELSE rec[t]]
    /\ live' = {}
    /\ UNCHANGED <<pc, cancelling, children, awaited, stopping, queue, result, busy, faults, early,
                   deaf, torn, outlived>>

Next ==
    \/ \E t \in Tasks : 
         \/ Spawn(t) \/ Start(t) \/ Finish(t) \/ CancelDelivered(t)
         \/ CancelSwallowed(t) \/ Cleanup(t) \/ KeepResult(t) \/ InjectResult(t)
         \/ RepublishResult(t) \/ DropResult(t) \/ CrashInSpawn(t) \/ CrashInEnding(t)
    \/ \E c \in Chats : StopBegins(c) \/ StopReturns(c)
    \/ TakeResult
    \/ LoseResult
    \/ Crash
    \/ Restart

\* The event loop runs every task that is ready, a subagent's run and a turn
\* end, and a requested cancellation reaches its task.
Fairness ==
    /\ \A t \in Tasks : /\ WF_vars(Start(t)) /\ WF_vars(CancelDelivered(t))
                        /\ WF_vars(Cleanup(t)) /\ WF_vars(KeepResult(t))
                        /\ WF_vars(InjectResult(t) \/ RepublishResult(t))
                        /\ WF_vars(Finish(t))
    /\ \A c \in Chats : WF_vars(StopReturns(c))
    /\ WF_vars(TakeResult)
    /\ WF_vars(Restart)

Spec == Init /\ [][Next]_vars /\ Fairness

----------------------------------------------------------------------------
\* Properties.

\* tasks.jsonl tells how every subagent ended, across cancellation, crash and
\* restart, and a live file belongs to a subagent that is there; except for a
\* cancellation before the first step and a crash inside spawn.
RecordsTell ==
    /\ \A t \in Tasks :
         /\ pc[t] \in {"ended", "gone"} => rec[t] \in Final \/ t \in early
         /\ pc[t] = "lost" /\ up => rec[t] \in Final \/ t \in torn
    /\ up => live \subseteq Registered \cup early

\* A result is announced exactly for the subagents recorded as ended by
\* themselves: none for a cancelled one, and none is forgotten on the way to
\* the queue.
ResultsAgree ==
    \A t \in Tasks :
        /\ rec[t] = "cancelled" => result[t] = "none"
        /\ rec[t] = "finished" => result[t] # "none" \/ t \in torn

\* The descendants of the subagents that swallowed their cancellation are in
\* S, at whatever depth.
HoldsStrays(S) == \A t \in Tasks : Parent[t] \in deaf \cup S => t \in S

\* Registered under another key than the one its chat's /stop looks under.
Rekeyed == {t \in Tasks : SessionOf[t] # KeyOf[ChatOf[t]]}

\* When /stop returns, no subagent of the chat is left running, whether it had
\* started or not; except the descendants of one that swallowed its
\* cancellation, which it or they spawned while /stop was waiting, and those
\* that a tenant's key hides from /stop.
StopIsFinal == \A S \in SUBSET Tasks : HoldsStrays(S) => outlived \subseteq S \cup Rekeyed

\* A subagent's slot is given back, /stop returns, and a result that got into
\* the queue does not stay on its way: a turn of its own keeps it or a running
\* one is given it, unless it is dropped at a full queue, /stop takes it or a
\* fault loses it.
SubagentsSettle ==
    /\ \A t \in Tasks : t \in Registered ~> t \notin Registered
    /\ \A c \in Chats : c \in stopping ~> c \notin stopping
    /\ \A t \in Tasks : result[t] = "queued" ~> result[t] \in Outcomes
=============================================================================
