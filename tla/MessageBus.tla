----------------------------- MODULE MessageBus -----------------------------
(***************************************************************************)
(* OriginAgent/bus/queue.py: the asyncio message bus between the channels  *)
(* and the agent core.                                                     *)
(*                                                                         *)
(* Three bounded queues ("lanes"): inbound (user messages),                *)
(* inbound_internal (cron, nudges, reminders, subagent results) and        *)
(* outbound.  Every message is published by a coroutine of its own, whose  *)
(* program counter is pub[m]; one coroutine (MessageDispatcher.run_forever)*)
(* consumes the two inbound lanes, one (ChannelManager) consumes outbound. *)
(* A step is the code between two awaits.                                  *)
(***************************************************************************)
EXTENDS Naturals, Sequences, FiniteSets

CONSTANTS
    UserMsgs,       \* messages with is_internal = False
    InternalMsgs,   \* messages with is_internal = True
    OutMsgs,        \* OutboundMessages
    MaxSize,        \* maxsize of each asyncio.Queue
    HasSink,        \* a PersistedMessageSink is configured
    MaxCancels      \* bound: how often consume_inbound is cancelled

ASSUME BusAssumption ==
    /\ UserMsgs \cap InternalMsgs = {}
    /\ UserMsgs \cap OutMsgs = {}
    /\ InternalMsgs \cap OutMsgs = {}
    /\ MaxSize \in Nat \ {0}
    /\ HasSink \in BOOLEAN
    /\ MaxCancels \in Nat

VARIABLES
    pub,          \* [Msgs -> PubStates]: progress of the publish coroutine
    queue,        \* [Lanes -> Seq(Msgs)]: the three asyncio queues
    consumer,     \* consume_inbound: "idle" or "racing" (awaiting asyncio.wait)
    userHeld,     \* the result of a finished user_task (at most one message)
    internalHeld, \* the result of a finished internal_task
    delivered,    \* messages returned to a consumer
    spilled,      \* messages handed to the persistence sink
    stats,        \* the counters of stats() that say what became of a message
    cancels,      \* history: cancellations of consume_inbound so far
    overtaken     \* history: internal messages returned while m was queued

vars == <<pub, queue, consumer, userHeld, internalHeld, delivered, spilled,
          stats, cancels, overtaken>>

consumerVars == <<consumer, userHeld, internalHeld, delivered, cancels, overtaken>>

Msgs  == UserMsgs \cup InternalMsgs \cup OutMsgs
Lanes == {"inbound", "inbound_internal", "outbound"}

\* The queue a message is published to (the is_internal test, and the two
\* publish methods).
Lane(m) == IF m \in UserMsgs THEN "inbound"
           ELSE IF m \in InternalMsgs THEN "inbound_internal"
           ELSE "outbound"
LaneMsgs(l) == {m \in Msgs : Lane(m) = l}

\* "accepted" and "rejected" are the return values True and False; "raised"
\* is a publisher cancelled inside the blocking put.
PubStates == {"new", "subscribers", "blocked", "persisting",
              "accepted", "rejected", "raised"}
Settled   == {"accepted", "rejected", "raised"}

Counters == {"published", "dropped", "persisted", "persist_failures"}

Contains(q, m) == \E i \in 1..Len(q) : q[i] = m
Distinct(q)    == \A i, j \in 1..Len(q) : q[i] = q[j] => i = j
Queued(m)      == Contains(queue[Lane(m)], m)

Full(l) == Len(queue[l]) >= MaxSize

Bump(c, l) == [stats EXCEPT ![c][l] = @ + 1]

TypeOK ==
    /\ pub \in [Msgs -> PubStates]
    /\ queue \in [Lanes -> Seq(Msgs)]
    /\ \A l \in Lanes : queue[l] \in Seq(LaneMsgs(l))
    /\ consumer \in {"idle", "racing"}
    /\ userHeld \in SUBSET UserMsgs
    /\ internalHeld \in SUBSET InternalMsgs
    /\ delivered \in SUBSET Msgs
    /\ spilled \in SUBSET Msgs
    /\ stats \in [Counters -> [Lanes -> Nat]]
    /\ cancels \in Nat
    /\ overtaken \in [UserMsgs -> Nat]

Init ==
    /\ pub = [m \in Msgs |-> "new"]
    /\ queue = [l \in Lanes |-> <<>>]
    /\ consumer = "idle"
    /\ userHeld = {}
    /\ internalHeld = {}
    /\ delivered = {}
    /\ spilled = {}
    /\ stats = [c \in Counters |-> [l \in Lanes |-> 0]]
    /\ cancels = 0
    /\ overtaken = [m \in UserMsgs |-> 0]

-----------------------------------------------------------------------------
(* publish_inbound and publish_outbound *)

\* The call: count it and enter the loop over the subscribers.
Publish(m) ==
    /\ pub[m] = "new"
    /\ pub' = [pub EXCEPT ![m] = "subscribers"]
    /\ stats' = Bump("published", Lane(m))
    /\ UNCHANGED <<queue, spilled, consumerVars>>

\* put_nowait on a lane with room: the call returns True.
Enqueue(m) ==
    /\ ~Full(Lane(m))
    /\ queue' = [queue EXCEPT ![Lane(m)] = Append(@, m)]
    /\ pub' = [pub EXCEPT ![m] = "accepted"]

\* All subscribers were awaited (a failing one is logged and counted, and
\* changes nothing else); then put_nowait.  On QueueFull an internal message is
\* dropped on the spot, any other one waits for room.
SubscribersDone(m) ==
    /\ pub[m] = "subscribers"
    /\ \/ /\ Enqueue(m)
          /\ UNCHANGED stats
       \/ /\ Full(Lane(m))
          /\ m \in InternalMsgs
          /\ pub' = [pub EXCEPT ![m] = "rejected"]
          /\ stats' = Bump("dropped", Lane(m))
          /\ UNCHANGED queue
       \/ /\ Full(Lane(m))
          /\ m \notin InternalMsgs
          /\ pub' = [pub EXCEPT ![m] = "blocked"]
          /\ UNCHANGED <<queue, stats>>
    /\ UNCHANGED <<spilled, consumerVars>>

\* The blocking put found room before the overflow timeout.
PutUnblocks(m) ==
    /\ pub[m] = "blocked"
    /\ Enqueue(m)
    /\ UNCHANGED <<stats, spilled, consumerVars>>

\* Mutant: the put is shielded from the timeout and completes after it.
OverflowTimeoutShielded(m) ==
    /\ pub[m] = "blocked"
    /\ ~Full(Lane(m))
    /\ queue' = [queue EXCEPT ![Lane(m)] = Append(@, m)]
    /\ pub' = [pub EXCEPT ![m] = "rejected"]
    /\ stats' = Bump("dropped", Lane(m))
    /\ UNCHANGED <<spilled, consumerVars>>

\* Mutant: put() without wait_for.
OverflowTimeoutNever(m) == FALSE /\ pub[m] = "blocked" /\ UNCHANGED vars

\* The overflow timeout: spill to the sink, or drop when there is none.  It
\* may win against a slot that was freed but not yet taken.
OverflowTimeout(m) ==
    /\ pub[m] = "blocked"
    /\ IF HasSink
         THEN /\ pub' = [pub EXCEPT ![m] = "persisting"]
              /\ UNCHANGED stats
         ELSE /\ pub' = [pub EXCEPT ![m] = "rejected"]
              /\ stats' = Bump("dropped", Lane(m))
    /\ UNCHANGED <<queue, spilled, consumerVars>>

PersistOk(m) ==
    /\ pub[m] = "persisting"
    /\ spilled' = spilled \cup {m}
    /\ pub' = [pub EXCEPT ![m] = "accepted"]
    /\ stats' = Bump("persisted", Lane(m))
    /\ UNCHANGED <<queue, consumerVars>>

\* The sink raised (or the publisher was cancelled there: BaseException).
PersistFails(m) ==
    /\ pub[m] = "persisting"
    /\ pub' = [pub EXCEPT ![m] = "rejected"]
    /\ stats' = [Bump("persist_failures", Lane(m))
                   EXCEPT !["dropped"][Lane(m)] = @ + 1]
    /\ UNCHANGED <<queue, spilled, consumerVars>>

\* The publisher's task is cancelled while it waits for room; CancelledError
\* is not caught there.
PublisherCancelled(m) ==
    /\ pub[m] = "blocked"
    /\ pub' = [pub EXCEPT ![m] = "raised"]
    /\ UNCHANGED <<queue, stats, spilled, consumerVars>>

-----------------------------------------------------------------------------
(* consume_inbound and consume_outbound *)

\* get_nowait on the user lane succeeds.
ConsumeFast ==
    /\ consumer = "idle"
    /\ queue["inbound"] # <<>>
    /\ delivered' = delivered \cup {Head(queue["inbound"])}
    /\ queue' = [queue EXCEPT !["inbound"] = Tail(@)]
    /\ UNCHANGED <<pub, spilled, stats, consumer, userHeld, internalHeld,
                   cancels, overtaken>>

\* QueueEmpty: create user_task and internal_task and await the first.
ConsumeRace ==
    /\ consumer = "idle"
    /\ queue["inbound"] = <<>>
    /\ consumer' = "racing"
    /\ UNCHANGED <<pub, queue, spilled, stats, userHeld, internalHeld,
                   delivered, cancels, overtaken>>

\* Mutant: user_task gets from the wrong queue.
UserTaskGetInternal ==
    /\ consumer = "racing"
    /\ userHeld = {}
    /\ queue["inbound_internal"] # <<>>
    /\ userHeld' = {Head(queue["inbound_internal"])}
    /\ queue' = [queue EXCEPT !["inbound_internal"] = Tail(@)]
    /\ UNCHANGED <<pub, spilled, stats, consumer, internalHeld, delivered,
                   cancels, overtaken>>

\* user_task runs: inbound.get() takes the head of the user lane.
UserTaskGet ==
    /\ consumer = "racing"
    /\ userHeld = {}
    /\ queue["inbound"] # <<>>
    /\ userHeld' = {Head(queue["inbound"])}
    /\ queue' = [queue EXCEPT !["inbound"] = Tail(@)]
    /\ UNCHANGED <<pub, spilled, stats, consumer, internalHeld, delivered,
                   cancels, overtaken>>

\* internal_task runs.
InternalTaskGet ==
    /\ consumer = "racing"
    /\ internalHeld = {}
    /\ queue["inbound_internal"] # <<>>
    /\ internalHeld' = {Head(queue["inbound_internal"])}
    /\ queue' = [queue EXCEPT !["inbound_internal"] = Tail(@)]
    /\ UNCHANGED <<pub, spilled, stats, consumer, userHeld, delivered,
                   cancels, overtaken>>

\* The race is over and the user task is done: its message is returned;
\* internal_task.cancel() does nothing to a task that is done, and its result
\* is never read.
RaceReturnsUser ==
    /\ consumer = "racing"
    /\ userHeld # {}
    /\ delivered' = delivered \cup userHeld
    /\ consumer' = "idle"
    /\ userHeld' = {}
    /\ internalHeld' = {}
    /\ UNCHANGED <<pub, queue, spilled, stats, cancels, overtaken>>

\* Mutant: the internal message is returned although the user task is done too.
RaceReturnsInternalFirst ==
    /\ consumer = "racing"
    /\ internalHeld # {}
    /\ delivered' = delivered \cup internalHeld
    /\ consumer' = "idle"
    /\ userHeld' = {}
    /\ internalHeld' = {}
    /\ UNCHANGED <<pub, queue, spilled, stats, cancels, overtaken>>

\* Only the internal task is done; user_task.cancel() leaves the user lane as
\* it is.
RaceReturnsInternal ==
    /\ consumer = "racing"
    /\ userHeld = {}
    /\ internalHeld # {}
    /\ delivered' = delivered \cup internalHeld
    /\ consumer' = "idle"
    /\ internalHeld' = {}
    /\ overtaken' = [m \in UserMsgs |->
                       IF Queued(m) THEN overtaken[m] + 1 ELSE overtaken[m]]
    /\ UNCHANGED <<pub, queue, spilled, stats, userHeld, cancels>>

\* run_forever's wait_for(..., timeout=1.0) or a cancellation of the loop:
\* both tasks are cancelled, whatever they hold.
ConsumeCancelled ==
    /\ consumer = "racing"
    /\ cancels < MaxCancels
    /\ consumer' = "idle"
    /\ userHeld' = {}
    /\ internalHeld' = {}
    /\ cancels' = cancels + 1
    /\ UNCHANGED <<pub, queue, spilled, stats, delivered, overtaken>>

ConsumeOutbound ==
    /\ queue["outbound"] # <<>>
    /\ delivered' = delivered \cup {Head(queue["outbound"])}
    /\ queue' = [queue EXCEPT !["outbound"] = Tail(@)]
    /\ UNCHANGED <<pub, spilled, stats, consumer, userHeld, internalHeld,
                   cancels, overtaken>>

-----------------------------------------------------------------------------
PublisherStep(m) ==
    \/ Publish(m)
    \/ SubscribersDone(m)
    \/ PutUnblocks(m)
    \/ OverflowTimeout(m)
    \/ PersistOk(m)
    \/ PersistFails(m)
    \/ PublisherCancelled(m)

ConsumerStep ==
    \/ ConsumeFast
    \/ ConsumeRace
    \/ UserTaskGet
    \/ InternalTaskGet
    \/ RaceReturnsUser
    \/ RaceReturnsInternal
    \/ ConsumeCancelled
    \/ ConsumeOutbound

Next == (\E m \in Msgs : PublisherStep(m)) \/ ConsumerStep

Spec == Init /\ [][Next]_vars

\* The event loop runs a started publisher on: subscribers return, the
\* overflow timer fires and the sink answers.  Nothing is assumed of the
\* consumers.
PublisherFairness ==
    \A m \in Msgs :
        /\ WF_vars(SubscribersDone(m))
        /\ WF_vars(OverflowTimeout(m))
        /\ WF_vars(PersistOk(m) \/ PersistFails(m))

\* The dispatcher loop calls consume_inbound again and again, and a task that
\* can run does run.
ConsumerFairness ==
    /\ WF_vars(ConsumeFast \/ ConsumeRace)
    /\ WF_vars(UserTaskGet)
    /\ WF_vars(InternalTaskGet)
    /\ WF_vars(RaceReturnsUser \/ RaceReturnsInternal)

FairSpec == Spec /\ PublisherFairness /\ ConsumerFairness

-----------------------------------------------------------------------------
(* Properties *)

\* A message is known to the bus or has left it properly.
Held(m)    == m \in userHeld \cup internalHeld
Located(m) == Queued(m) \/ Held(m) \/ m \in delivered \/ m \in spilled

\* "Returns False only when the message was definitively dropped": a message
\* whose publisher has not returned True (it is still waiting, gave up after
\* the overflow timeout, or was cancelled) is in no queue, was not spilled and
\* never reaches a consumer.
RejectedNowhere ==
    \A m \in Msgs : pub[m] # "accepted" => ~Located(m)

\* No message is duplicated: it sits at most once in its queue, and it is
\* never in two of queue, finished get() task, consumer's hands and sink.
NoDuplication ==
    /\ \A l \in Lanes : Distinct(queue[l])
    /\ \A m \in Msgs :
          /\ Queued(m) => ~Held(m) /\ m \notin delivered /\ m \notin spilled
          /\ Held(m) => m \notin delivered /\ m \notin spilled
          /\ m \in delivered => m \notin spilled

\* Both together: what the publisher was told and where the message is agree.
DeliverySound == RejectedNowhere /\ NoDuplication

\* As long as no consume_inbound call was cancelled, every user message that
\* publish_inbound accepted is still in the bus or was handed on, whatever
\* races of user_task and internal_task took place.  Outbound messages are
\* never lost, cancelled consumers or not.
AcceptedKept ==
    \A m \in Msgs :
        /\ pub[m] = "accepted"
        /\ \/ m \in OutMsgs
           \/ m \in UserMsgs /\ cancels = 0
        => Located(m)

\* What holds of the priority of the user lane.  (The bus documents that a
\* pending user message is handed out "before any internal nudge, even if the
\* nudge was enqueued earlier"; but the race of consume_inbound may have taken an
\* internal message when the user message comes, and hands that one out first.)
\* consume_inbound hands out at most one internal message while a given user
\* message waits in its queue, the one its race had taken.
OvertakenAtMostOnce ==
    \A m \in UserMsgs : overtaken[m] <= 1

\* Backpressure: no lane ever holds more than maxsize messages.
WithinCapacity ==
    \A l \in Lanes : Len(queue[l]) <= MaxSize

\* Nothing hangs: publish calls return (the overflow timeout bounds the
\* blocking put), and once the publishers are done both inbound lanes are
\* emptied, whichever of them a race had served last.  (Unending user traffic
\* does keep the internal lane waiting: the fast path looks at inbound only.)
BusSettles ==
    <>[](/\ \A m \in Msgs : pub[m] \in Settled \cup {"new"}
         /\ queue["inbound"] = <<>> /\ queue["inbound_internal"] = <<>>)

=============================================================================
