----------------------------- MODULE Dispatcher -----------------------------
(***************************************************************************)
(* OriginAgent/agent/message_dispatcher.py with the parts of               *)
(* agent/loop.py, agent/agent_runtime.py and agent/runner.py it drives:    *)
(* one coroutine (run_forever) takes messages off the bus and either       *)
(* handles a command inline, routes a follow-up into the pending queue of  *)
(* a session that is busy, or starts a dispatch task.  A dispatch task     *)
(* registers a pending queue for its session, waits for the session lock   *)
(* and the concurrency gate, runs a turn that injects follow-ups from its  *)
(* queue, and finally republishes whatever the registered queue holds.     *)
(*                                                                         *)
(* A dispatch task is named by the message it was created for.             *)
(***************************************************************************)
EXTENDS Naturals, Sequences, FiniteSets

CONSTANTS
    Msgs,         \* inbound messages
    NoMsg,        \* "no message" / "no task"
    Keys,         \* session keys
    RouteKey,     \* [Msgs -> Keys]: _effective_session_key seen by run_forever
    DispatchKey,  \* [Msgs -> Keys]: the key after _dispatch resolved the tenant
    StopMsgs,     \* /stop, a priority command
    CommandMsgs,  \* other dispatchable commands
    BusSize,      \* room on the bus's inbound lane
    PendingMax,   \* PENDING_QUEUE_MAXSIZE
    GateSize,     \* permits of the concurrency gate
    MaxDrain,     \* _MAX_INJECTIONS_PER_TURN
    MaxCycles,    \* _MAX_INJECTION_CYCLES
    StartsFirst,  \* a created task takes its first step before the next message
                  \* is consumed (wait_for of Python 3.11 runs consume_inbound in
                  \* a task of its own; from 3.12 on it need not yield, and a
                  \* claim hint sent by _dispatch may delay the start as well)
    MaxReaps      \* bound: how many tasks the stale-task reaper cancels

ASSUME DispatcherAssumption ==
    /\ NoMsg \notin Msgs
    /\ RouteKey \in [Msgs -> Keys]
    /\ DispatchKey \in [Msgs -> Keys]
    /\ StopMsgs \subseteq Msgs
    /\ CommandMsgs \subseteq Msgs
    /\ StopMsgs \cap CommandMsgs = {}
    /\ {BusSize, PendingMax, GateSize, MaxDrain, MaxCycles} \subseteq Nat \ {0}
    /\ StartsFirst \in BOOLEAN
    /\ MaxReaps \in Nat

VARIABLES
    inbox,      \* Seq(Msgs): the inbound lane of the bus
    arrived,    \* messages a channel has published
    stopping,   \* tasks an inline /stop still awaits ({} = run_forever consumes)
    task,       \* [Msgs -> TaskStates]
    pending,    \* [Msgs -> Seq(Msgs)]: the asyncio.Queue each dispatch made
    registered, \* [Keys -> Msgs \cup {NoMsg}]: _pending_queues, by owning task
    lock,       \* [Keys -> Seq(Msgs)]: session lock, head holds it, rest wait
    active,     \* [Keys -> SUBSET Msgs]: _active_tasks
    cancelReq,  \* tasks with an undelivered cancel()
    cycles,     \* [Msgs -> Nat]: injection cycles of the turn
    injected,   \* [Msgs -> SUBSET Msgs]: follow-ups injected into the turn
    taking,     \* [Msgs -> Msgs \cup {NoMsg}]: the queue the finally block popped
    carrying,   \* [Msgs -> Msgs \cup {NoMsg}]: leftover waiting for room on the bus
    inlined,    \* commands handled inline
    dropped,    \* leftovers the bus rejected
    replaced,   \* history: tasks whose registered queue another one replaced
    cutShort,   \* history: tasks whose popped queue a cancelled finally block left
    reaps       \* history: tasks reaped so far

vars == <<inbox, arrived, stopping, task, pending, registered, lock, active,
          cancelReq, cycles, injected, taking, carrying, inlined, dropped,
          replaced, cutShort, reaps>>

TaskStates == {"none", "created", "waiting", "running", "cleanup", "done"}
Alive(t)   == task[t] \in {"waiting", "running", "cleanup"}

TypeOK ==
    /\ inbox \in Seq(Msgs)
    /\ arrived \in SUBSET Msgs
    /\ stopping \in SUBSET Msgs
    /\ task \in [Msgs -> TaskStates]
    /\ pending \in [Msgs -> Seq(Msgs)]
    /\ registered \in [Keys -> Msgs \cup {NoMsg}]
    /\ lock \in [Keys -> Seq(Msgs)]
    /\ active \in [Keys -> SUBSET Msgs]
    /\ cancelReq \in SUBSET Msgs
    /\ cycles \in [Msgs -> Nat]
    /\ injected \in [Msgs -> SUBSET Msgs]
    /\ taking \in [Msgs -> Msgs \cup {NoMsg}]
    /\ carrying \in [Msgs -> Msgs \cup {NoMsg}]
    /\ inlined \in SUBSET Msgs
    /\ dropped \in SUBSET Msgs
    /\ replaced \in SUBSET Msgs
    /\ cutShort \in SUBSET Msgs
    /\ reaps \in Nat

Init ==
    /\ inbox = <<>>
    /\ arrived = {}
    /\ stopping = {}
    /\ task = [m \in Msgs |-> "none"]
    /\ pending = [m \in Msgs |-> <<>>]
    /\ registered = [k \in Keys |-> NoMsg]
    /\ lock = [k \in Keys |-> <<>>]
    /\ active = [k \in Keys |-> {}]
    /\ cancelReq = {}
    /\ cycles = [m \in Msgs |-> 0]
    /\ injected = [m \in Msgs |-> {}]
    /\ taking = [m \in Msgs |-> NoMsg]
    /\ carrying = [m \in Msgs |-> NoMsg]
    /\ inlined = {}
    /\ dropped = {}
    /\ replaced = {}
    /\ cutShort = {}
    /\ reaps = 0

turnVars    == <<lock, cycles, injected>>
cleanupVars == <<taking, carrying, dropped, cutShort>>

-----------------------------------------------------------------------------
(* A channel publishes a message (modelled in MessageBus). *)

Arrive(m) ==
    /\ m \notin arrived
    /\ Len(inbox) < BusSize
    /\ arrived' = arrived \cup {m}
    /\ inbox' = Append(inbox, m)
    /\ UNCHANGED <<stopping, task, pending, registered, active, cancelReq,
                   inlined, replaced, reaps, turnVars, cleanupVars>>

-----------------------------------------------------------------------------
(* run_forever: one message per round, unless an inline /stop is awaited. *)

Receive(m) ==
    /\ stopping = {}
    /\ inbox # <<>>
    /\ m = Head(inbox)
    /\ StartsFirst => \A t \in Msgs : task[t] # "created"
    /\ inbox' = Tail(inbox)

Busy(m) == registered[RouteKey[m]] # NoMsg

\* /stop: _cancel_active_tasks pops the session's tasks, cancels the ones that
\* are not done and awaits them all, inside run_forever.
HandleStop(m) ==
    /\ Receive(m)
    /\ m \in StopMsgs
    /\ inlined' = inlined \cup {m}
    /\ stopping' = active[RouteKey[m]]
    /\ active' = [active EXCEPT ![RouteKey[m]] = {}]
    /\ cancelReq' = cancelReq \cup {t \in stopping' : task[t] # "done"}
    /\ UNCHANGED <<arrived, task, pending, registered, replaced, reaps,
                   turnVars, cleanupVars>>

\* The awaited tasks have ended: run_forever goes on.
StopReturns ==
    /\ stopping # {}
    /\ \A t \in stopping : task[t] = "done"
    /\ stopping' = {}
    /\ UNCHANGED <<inbox, arrived, task, pending, registered, active, cancelReq,
                   inlined, replaced, reaps, turnVars, cleanupVars>>

\* Another command that arrives while the session is busy is run inline.
HandleCommandInline(m) ==
    /\ Receive(m)
    /\ m \in CommandMsgs
    /\ Busy(m)
    /\ inlined' = inlined \cup {m}
    /\ UNCHANGED <<arrived, stopping, task, pending, registered, active,
                   cancelReq, replaced, reaps, turnVars, cleanupVars>>

\* Mutant: one pending queue serves all sessions.
RouteToAnyPending(m) ==
    /\ Receive(m)
    /\ m \notin StopMsgs \cup CommandMsgs
    /\ \E k \in Keys :
          /\ registered[k] # NoMsg
          /\ Len(pending[registered[k]]) < PendingMax
          /\ pending' = [pending EXCEPT ![registered[k]] = Append(@, m)]
    /\ UNCHANGED <<arrived, stopping, task, registered, active, cancelReq,
                   inlined, replaced, reaps, turnVars, cleanupVars>>

\* put_nowait into the queue registered for the session.
RouteToPending(m) ==
    /\ Receive(m)
    /\ m \notin StopMsgs \cup CommandMsgs
    /\ Busy(m)
    /\ LET owner == registered[RouteKey[m]]
       IN  /\ Len(pending[owner]) < PendingMax
           /\ pending' = [pending EXCEPT ![owner] = Append(@, m)]
    /\ UNCHANGED <<arrived, stopping, task, registered, active, cancelReq,
                   inlined, replaced, reaps, turnVars, cleanupVars>>

\* The session is idle, or its pending queue is full: a new dispatch task.
CreateTask(m) ==
    /\ Receive(m)
    /\ m \notin StopMsgs
    /\ \/ ~Busy(m)
       \/ /\ Busy(m)
          /\ m \notin CommandMsgs
          /\ Len(pending[registered[RouteKey[m]]]) >= PendingMax
    /\ task' = [task EXCEPT ![m] = "created"]
    /\ active' = [active EXCEPT ![RouteKey[m]] = @ \cup {m}]
    /\ UNCHANGED <<arrived, stopping, pending, registered, cancelReq, inlined,
                   replaced, reaps, turnVars, cleanupVars>>

\* _reap_stale_tasks cancels a task that is older than the threshold and
\* forgets it.
ReapStale(t) ==
    /\ reaps < MaxReaps
    /\ t \in active[RouteKey[t]]
    /\ reaps' = reaps + 1
    /\ active' = [active EXCEPT ![RouteKey[t]] = @ \ {t}]
    /\ cancelReq' = cancelReq \cup {t}
    /\ UNCHANGED <<inbox, arrived, stopping, task, pending, registered, inlined,
                   replaced, turnVars, cleanupVars>>

-----------------------------------------------------------------------------
(* dispatch_message *)

\* The done callback of a task removes it from _active_tasks.
Finish(t) ==
    /\ task' = [task EXCEPT ![t] = "done"]
    /\ active' = [active EXCEPT ![RouteKey[t]] = @ \ {t}]
    /\ cancelReq' = cancelReq \ {t}

\* First step of the task: register a fresh queue and ask for the lock.
StartDispatch(t) ==
    /\ task[t] = "created"
    /\ t \notin cancelReq
    /\ LET k == DispatchKey[t]
       IN  /\ replaced' = replaced \cup ({registered[k]} \ {NoMsg})
           /\ registered' = [registered EXCEPT ![k] = t]
           /\ lock' = [lock EXCEPT ![k] = Append(@, t)]
    /\ task' = [task EXCEPT ![t] = "waiting"]
    /\ UNCHANGED <<inbox, arrived, stopping, pending, active, cancelReq, cycles,
                   injected, inlined, reaps, cleanupVars>>

\* Cancelled before its first step: the coroutine never runs.
CancelUnstarted(t) ==
    /\ task[t] = "created"
    /\ t \in cancelReq
    /\ Finish(t)
    /\ UNCHANGED <<inbox, arrived, stopping, pending, registered, inlined,
                   replaced, reaps, turnVars, cleanupVars>>

Running == {t \in Msgs : task[t] = "running"}

\* Mutant: the turn starts without the session lock.
BeginTurnUnlocked(t) ==
    /\ task[t] = "waiting"
    /\ t \notin cancelReq
    /\ Cardinality(Running) < GateSize
    /\ task' = [task EXCEPT ![t] = "running"]
    /\ UNCHANGED <<inbox, arrived, stopping, pending, registered, active,
                   cancelReq, inlined, replaced, reaps, turnVars, cleanupVars>>

\* The lock is ours and the gate has a permit.
BeginTurn(t) ==
    /\ task[t] = "waiting"
    /\ t \notin cancelReq
    /\ Head(lock[DispatchKey[t]]) = t
    /\ Cardinality(Running) < GateSize
    /\ task' = [task EXCEPT ![t] = "running"]
    /\ UNCHANGED <<inbox, arrived, stopping, pending, registered, active,
                   cancelReq, inlined, replaced, reaps, turnVars, cleanupVars>>

\* Mutant: the follow-ups are read but stay in the queue.
DrainWithoutRemoving(t) ==
    /\ task[t] = "running"
    /\ t \notin cancelReq
    /\ cycles[t] < MaxCycles
    /\ pending[t] # <<>>
    /\ injected' = [injected EXCEPT ![t] = @ \cup {Head(pending[t])}]
    /\ cycles' = [cycles EXCEPT ![t] = @ + 1]
    /\ UNCHANGED <<inbox, arrived, stopping, task, pending, registered, lock,
                   active, cancelReq, inlined, replaced, reaps, cleanupVars>>

\* _drain_pending: up to MaxDrain follow-ups become part of the turn.
Drain(t) ==
    /\ task[t] = "running"
    /\ t \notin cancelReq
    /\ cycles[t] < MaxCycles
    /\ pending[t] # <<>>
    /\ LET n == IF Len(pending[t]) < MaxDrain THEN Len(pending[t]) ELSE MaxDrain
       IN  /\ injected' = [injected EXCEPT ![t] =
                             @ \cup {pending[t][i] : i \in 1..n}]
           /\ pending' = [pending EXCEPT ![t] = SubSeq(@, n + 1, Len(@))]
    /\ cycles' = [cycles EXCEPT ![t] = @ + 1]
    /\ UNCHANGED <<inbox, arrived, stopping, task, registered, lock, active,
                   cancelReq, inlined, replaced, reaps, cleanupVars>>

\* asyncio.Lock: a task leaves the head (release) or the row of the waiters.
Without(s, t) ==
    LET i == CHOOSE j \in 1..Len(s) : s[j] = t
    IN  SubSeq(s, 1, i - 1) \o SubSeq(s, i + 1, Len(s))

\* Leave "async with lock, gate" and pop the queue registered for the session
\* (whoever owns it by now), the first statement of the finally block.
Leave(t) ==
    LET k == DispatchKey[t]
    IN  /\ task' = [task EXCEPT ![t] = "cleanup"]
        /\ lock' = [lock EXCEPT ![k] = Without(@, t)]
        /\ taking' = [taking EXCEPT ![t] = registered[k]]
        /\ registered' = [registered EXCEPT ![k] = NoMsg]

\* The turn ended: answer published, or an error message.
EndTurn(t) ==
    /\ task[t] = "running"
    /\ t \notin cancelReq
    /\ Leave(t)
    /\ UNCHANGED <<inbox, arrived, stopping, pending, active, cancelReq, cycles,
                   injected, carrying, inlined, dropped, replaced, cutShort, reaps>>

\* CancelledError at the lock, the gate or inside the turn.
DeliverCancel(t) ==
    /\ task[t] \in {"waiting", "running"}
    /\ t \in cancelReq
    /\ Leave(t)
    /\ cancelReq' = cancelReq \ {t}
    /\ UNCHANGED <<inbox, arrived, stopping, pending, active, cycles, injected,
                   carrying, inlined, dropped, replaced, cutShort, reaps>>

\* The cancellation lands while a tool call is being audited, whose handler
\* catches BaseException: it is swallowed and the turn goes on.
CancelSwallowed(t) ==
    /\ task[t] = "running"
    /\ t \in cancelReq
    /\ cancelReq' = cancelReq \ {t}
    /\ UNCHANGED <<inbox, arrived, stopping, task, pending, registered, active,
                   taking, carrying, inlined, dropped, replaced, cutShort, reaps,
                   turnVars>>

-----------------------------------------------------------------------------
(* The finally block: republish the leftovers of the popped queue. *)

\* get_nowait, and publish_inbound finds room or has to wait for it.
RepublishNext(t) ==
    /\ task[t] = "cleanup"
    /\ carrying[t] = NoMsg
    /\ taking[t] # NoMsg
    /\ pending[taking[t]] # <<>>
    /\ LET item == Head(pending[taking[t]])
       IN  IF Len(inbox) < BusSize
             THEN inbox' = Append(inbox, item) /\ UNCHANGED carrying
             ELSE carrying' = [carrying EXCEPT ![t] = item] /\ UNCHANGED inbox
    /\ pending' = [pending EXCEPT ![taking[t]] = Tail(@)]
    /\ UNCHANGED <<arrived, stopping, task, registered, active, cancelReq,
                   taking, inlined, dropped, replaced, cutShort, reaps,
                   turnVars>>

\* Mutant: publishing what get_nowait returned without looking.
RepublishUnchecked(t) ==
    /\ task[t] = "cleanup"
    /\ Len(inbox) < BusSize
    /\ inbox' = Append(inbox, carrying[t])
    /\ carrying' = [carrying EXCEPT ![t] = NoMsg]
    /\ UNCHANGED <<arrived, stopping, task, pending, registered, active,
                   cancelReq, taking, inlined, dropped, replaced, cutShort, reaps,
                   turnVars>>

\* The blocking put found room.
RepublishUnblocks(t) ==
    /\ carrying[t] # NoMsg
    /\ Len(inbox) < BusSize
    /\ inbox' = Append(inbox, carrying[t])
    /\ carrying' = [carrying EXCEPT ![t] = NoMsg]
    /\ UNCHANGED <<arrived, stopping, task, pending, registered, active,
                   cancelReq, taking, inlined, dropped, replaced, cutShort, reaps,
                   turnVars>>

\* Mutant: publish_inbound without an overflow timeout.
RepublishWaitsForever(t) == FALSE /\ carrying[t] # NoMsg /\ UNCHANGED vars

\* publish_inbound gave up after the overflow timeout; its False is ignored.
RepublishDropped(t) ==
    /\ carrying[t] # NoMsg
    /\ dropped' = dropped \cup {carrying[t]}
    /\ carrying' = [carrying EXCEPT ![t] = NoMsg]
    /\ UNCHANGED <<inbox, arrived, stopping, task, pending, registered, active,
                   cancelReq, taking, inlined, replaced, cutShort, reaps, turnVars>>

\* A cancel reaches the task in the blocking put: the finally block is left
\* with the rest of the queue unread.
RepublishCancelled(t) ==
    /\ carrying[t] # NoMsg
    /\ t \in cancelReq
    /\ dropped' = dropped \cup {carrying[t]}
    /\ carrying' = [carrying EXCEPT ![t] = NoMsg]
    /\ cutShort' = cutShort \cup ({taking[t]} \ {NoMsg})
    /\ Finish(t)
    /\ UNCHANGED <<inbox, arrived, stopping, pending, registered, taking,
                   inlined, replaced, reaps, turnVars>>

\* Mutant: the finally block pops the queue but need not read it to its end.
CleanupDoneEarly(t) ==
    /\ task[t] = "cleanup"
    /\ carrying[t] = NoMsg
    /\ Finish(t)
    /\ UNCHANGED <<inbox, arrived, stopping, pending, registered, inlined,
                   replaced, reaps, turnVars, cleanupVars>>

\* get_nowait raised QueueEmpty: nothing is left to republish.
CleanupDone(t) ==
    /\ task[t] = "cleanup"
    /\ carrying[t] = NoMsg
    /\ taking[t] # NoMsg => pending[taking[t]] = <<>>
    /\ Finish(t)
    /\ UNCHANGED <<inbox, arrived, stopping, pending, registered, inlined,
                   replaced, reaps, turnVars, cleanupVars>>

-----------------------------------------------------------------------------
LoopStep(m) ==
    \/ HandleStop(m)
    \/ HandleCommandInline(m)
    \/ RouteToPending(m)
    \/ CreateTask(m)

TaskStep(t) ==
    \/ StartDispatch(t)
    \/ CancelUnstarted(t)
    \/ BeginTurn(t)
    \/ EndTurn(t)
    \/ DeliverCancel(t)
    \/ CancelSwallowed(t)
    \/ RepublishNext(t)
    \/ RepublishUnblocks(t)
    \/ RepublishDropped(t)
    \/ RepublishCancelled(t)
    \/ CleanupDone(t)

Next ==
    \/ \E m \in Msgs : Arrive(m) \/ LoopStep(m) \/ TaskStep(m)
                         \/ Drain(m) \/ ReapStale(m)
    \/ StopReturns

Spec == Init /\ [][Next]_vars

\* run_forever keeps consuming, a turn ends (LLM and tool timeouts, iteration
\* bound), the lock and the gate are handed on, timers fire.  Draining and
\* arrivals are not assumed to happen.
Fairness ==
    /\ WF_vars(\E m \in Msgs : LoopStep(m))
    /\ WF_vars(StopReturns)
    /\ \A t \in Msgs \ StopMsgs : WF_vars(TaskStep(t))

FairSpec == Spec /\ Fairness

-----------------------------------------------------------------------------
(* Properties *)

\* Every place where a message m can be, one element per occurrence.
Occurrences(m) ==
    {<<"inbox", i>> : i \in {j \in 1..Len(inbox) : inbox[j] = m}}
    \cup (UNION {{<<"pending", t, i>> :
                    i \in {j \in 1..Len(pending[t]) : pending[t][j] = m}} : t \in Msgs})
    \cup {<<"injected", t>> : t \in {u \in Msgs : m \in injected[u]}}
    \cup {<<"carried", t>> : t \in {u \in Msgs : carrying[u] = m}}
    \cup {<<"task">> : x \in {y \in {m} : task[y] # "none"}}
    \cup {<<"inlined">> : x \in {m} \cap inlined}
    \cup {<<"dropped">> : x \in {m} \cap dropped}

\* Routing, injection, republishing, cancellation and the replacement of
\* pending queues neither duplicate a message nor make it disappear: it is in
\* exactly one place, which may be a queue nobody reads any more (see below).
\* So no message is answered by two turns.
EachMessageOnce ==
    \A m \in arrived : Cardinality(Occurrences(m)) = 1

\* A queue that is registered for a session belongs to a dispatch of that
\* session that has not left its lock block: a follow-up routed there can
\* still be injected or republished.
RegisteredQueueIsLive ==
    \A k \in Keys : registered[k] # NoMsg =>
        /\ task[registered[k]] \in {"waiting", "running"}
        /\ DispatchKey[registered[k]] = k

\* The queue of a finished dispatch that no finally block is reading.
Abandoned(t) ==
    /\ task[t] = "done"
    /\ \A u \in Msgs : ~(task[u] = "cleanup" /\ taking[u] = t)

\* Follow-ups are left behind in two cases only: another dispatch replaced
\* the queue's registry entry while the queue was in use, or the finally block
\* that had popped the queue was cancelled while it waited for room on the
\* bus.  That a finally block popped it is no excuse by itself.
AbandonedOnlyIfReplaced ==
    \A t \in Msgs : Abandoned(t) /\ pending[t] # <<>> => t \in replaced \cup cutShort

\* Both: wherever a follow-up waits, somebody is responsible for it, or one of
\* the two known accidents took that somebody away.
QueuesAccounted == RegisteredQueueIsLive /\ AbandonedOnlyIfReplaced

\* At most one turn runs per session, whatever is cancelled while it waits for
\* the lock or the gate.
OneTurnPerSession ==
    \A t, u \in Running : DispatchKey[t] = DispatchKey[u] => t = u

\* A follow-up is injected into a turn of the session it was routed to, never
\* into another conversation, although registry entries are overwritten and
\* popped by other tasks.
InjectedInOwnSession ==
    \A t \in Msgs : \A m \in injected[t] : RouteKey[m] = DispatchKey[t]

\* Nothing waits for ever: once no more messages arrive, /stop has returned
\* (the tasks it awaits may be waiting for room on the bus that only
\* run_forever could make; the overflow timeout of the bus resolves that), the
\* bus is empty and every dispatch has ended, lock and gate handed on in every
\* order of turns, cancellations and cleanups.  (What became of the follow-ups
\* is QueuesAccounted.)
Quiet ==
    /\ stopping = {}
    /\ inbox = <<>>
    /\ \A t \in Msgs : task[t] \in {"none", "done"}
DispatchSettles == <>[]Quiet

=============================================================================
