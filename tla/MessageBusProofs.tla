-------------------------- MODULE MessageBusProofs --------------------------
(***************************************************************************)
(* TLAPS proofs about MessageBus, for every set of messages, queue size,   *)
(* sink configuration and number of cancellations: its invariants, and     *)
(* that it implements LossyLanes.                                          *)
(***************************************************************************)
EXTENDS BusRefinement, SequenceTheorems, TLAPS

-----------------------------------------------------------------------------
(* The two operations on an asyncio.Queue *)

\* Appending a message that is not in a queue keeps it free of duplicates and
\* adds exactly that message.
LEMMA AppendFacts ==
    ASSUME NEW S, NEW q \in Seq(S), NEW x \in S
    PROVE  /\ Append(q, x) \in Seq(S)
           /\ Len(Append(q, x)) = Len(q) + 1
           /\ \A m : Contains(Append(q, x), m) <=> Contains(q, m) \/ m = x
           /\ Distinct(q) /\ ~Contains(q, x) => Distinct(Append(q, x))
  <1> DEFINE r == Append(q, x)
  <1>1. /\ r \in Seq(S)
        /\ Len(q) \in Nat
        /\ Len(r) = Len(q) + 1
        /\ \A i \in 1..Len(q) : r[i] = q[i]
        /\ r[Len(q) + 1] = x
    OBVIOUS
  <1>2. ASSUME NEW m
        PROVE  Contains(r, m) <=> Contains(q, m) \/ m = x
    <2>1. CASE m = x
      <3>1. Len(q) + 1 \in 1..Len(r)
        BY <1>1
      <3> QED BY <2>1, <3>1, <1>1 DEF Contains
    <2>2. CASE m # x
      <3> HIDE DEF r
      <3>1. ASSUME NEW i \in 1..Len(r), r[i] = m PROVE Contains(q, m)
        <4>1. i \in 1..Len(q)
          BY <2>2, <3>1, <1>1
        <4> QED BY <4>1, <3>1, <1>1 DEF Contains
      <3>2. ASSUME NEW i \in 1..Len(q), q[i] = m PROVE Contains(r, m)
        <4>1. i \in 1..Len(r)
          BY <1>1
        <4> QED BY <4>1, <3>2, <1>1 DEF Contains
      <3> QED BY <2>2, <3>1, <3>2 DEF Contains
    <2> QED BY <2>1, <2>2
  <1>3. ASSUME Distinct(q), ~Contains(q, x) PROVE Distinct(r)
    <2> HIDE DEF r
    <2> SUFFICES ASSUME NEW i \in 1..Len(r), NEW j \in 1..Len(r), r[i] = r[j]
                 PROVE  i = j
      BY DEF Distinct
    <2>1. CASE i \in 1..Len(q) /\ j \in 1..Len(q)
      BY <2>1, <1>1, <1>3 DEF Distinct
    <2>2. CASE i \notin 1..Len(q) /\ j \in 1..Len(q)
      <3>1. i = Len(q) + 1
        BY <2>2, <1>1
      <3> QED BY <3>1, <2>2, <1>1, <1>3 DEF Contains
    <2>3. CASE i \in 1..Len(q) /\ j \notin 1..Len(q)
      <3>1. j = Len(q) + 1
        BY <2>3, <1>1
      <3> QED BY <3>1, <2>3, <1>1, <1>3 DEF Contains
    <2>4. CASE i \notin 1..Len(q) /\ j \notin 1..Len(q)
      BY <2>4, <1>1
    <2> QED BY <2>1, <2>2, <2>3, <2>4
  <1> QED BY <1>1, <1>2, <1>3

\* Taking the head of a duplicate-free queue removes exactly that message.
LEMMA TailFacts ==
    ASSUME NEW S, NEW q \in Seq(S), q # <<>>, Distinct(q)
    PROVE  /\ Tail(q) \in Seq(S)
           /\ Len(Tail(q)) = Len(q) - 1
           /\ Head(q) \in S
           /\ Contains(q, Head(q))
           /\ \A m : Contains(Tail(q), m) <=> Contains(q, m) /\ m # Head(q)
           /\ Distinct(Tail(q))
  <1> DEFINE r == Tail(q)
             h == Head(q)
  <1>1. /\ r \in Seq(S)
        /\ Len(q) \in Nat
        /\ Len(q) >= 1
        /\ Len(r) = Len(q) - 1
        /\ h = q[1]
        /\ h \in S
        /\ \A i \in 1..Len(r) : r[i] = q[i + 1]
    OBVIOUS
  <1> HIDE DEF r, h
  <1>2. Contains(q, h)
    BY <1>1 DEF Contains
  <1>3. ASSUME NEW m
        PROVE  Contains(r, m) <=> Contains(q, m) /\ m # h
    <2>1. ASSUME NEW i \in 1..Len(r), r[i] = m
          PROVE  Contains(q, m) /\ m # h
      <3>1. i + 1 \in 1..Len(q) /\ q[i + 1] = m /\ i + 1 # 1 /\ 1 \in 1..Len(q)
        BY <1>1, <2>1
      <3> QED BY <3>1, <1>1 DEF Contains, Distinct
    <2>2. ASSUME NEW i \in 1..Len(q), q[i] = m, m # h
          PROVE  Contains(r, m)
      <3>1. i - 1 \in 1..Len(r) /\ r[i - 1] = q[(i - 1) + 1] /\ (i - 1) + 1 = i
        BY <1>1, <2>2
      <3> QED BY <3>1, <2>2 DEF Contains
    <2> QED BY <2>1, <2>2 DEF Contains
  <1>4. Distinct(r)
    <2> SUFFICES ASSUME NEW i \in 1..Len(r), NEW j \in 1..Len(r), r[i] = r[j]
                 PROVE  i = j
      BY DEF Distinct
    <2>1. i + 1 \in 1..Len(q) /\ j + 1 \in 1..Len(q) /\ q[i + 1] = q[j + 1]
      BY <1>1
    <2>2. i + 1 = j + 1
      BY <2>1 DEF Distinct
    <2> QED BY <2>2, <1>1
  <1> QED BY <1>1, <1>2, <1>3, <1>4 DEF r, h

-----------------------------------------------------------------------------
(* The inductive invariant *)

\* The race's tasks exist only while consume_inbound waits for them.
HeldOnlyWhileRacing ==
    consumer = "idle" => userHeld = {} /\ internalHeld = {}

\* A user message that was overtaken has been accepted, and the race that
\* overtook it is over; the next race only starts on an empty user lane.
OvertakenHistory ==
    \A m \in UserMsgs :
        \/ overtaken[m] = 0
        \/ /\ overtaken[m] = 1
           /\ pub[m] = "accepted"
           /\ consumer = "racing" => ~Queued(m)

\* Of a single message: it is located only if its publisher was told True, it
\* is in one place at most, and a user message that was accepted is located
\* unless a cancelled consume_inbound dropped it.
MessageInv(m) ==
    /\ pub[m] # "accepted" => ~Located(m)
    /\ Queued(m) => ~Held(m) /\ m \notin delivered /\ m \notin spilled
    /\ Held(m) => m \notin delivered /\ m \notin spilled
    /\ m \in delivered => m \notin spilled
    /\ pub[m] = "accepted" /\ (m \in OutMsgs \/ (m \in UserMsgs /\ cancels = 0))
         => Located(m)

BusInv ==
    /\ TypeOK
    /\ HeldOnlyWhileRacing
    /\ \A l \in Lanes : Distinct(queue[l])
    /\ \A m \in Msgs : MessageInv(m)
    /\ OvertakenHistory
    /\ WithinCapacity

\* The type invariant alone is inductive.
LEMMA TypeInit == Init => TypeOK
  BY BusAssumption
  DEF Init, TypeOK, Lanes, LaneMsgs, PubStates, Counters, Msgs

\* What the primitive updates of the state preserve.
LEMMA UpdatesTyped ==
    ASSUME TypeOK, NEW m \in Msgs
    PROVE  /\ Lane(m) \in Lanes
           /\ \A c \in Counters : Bump(c, Lane(m)) \in [Counters -> [Lanes -> Nat]]
           /\ LET q == [queue EXCEPT ![Lane(m)] = Append(@, m)]
              IN  /\ q \in [Lanes -> Seq(Msgs)]
                  /\ \A l \in Lanes : q[l] \in Seq(LaneMsgs(l))
  <1>1. Lane(m) \in Lanes
    BY DEF Lane, Lanes
  <1>2. m \in LaneMsgs(Lane(m))
    BY DEF LaneMsgs
  <1> QED BY <1>1, <1>2 DEF TypeOK, Bump

LEMMA DequeueTyped ==
    ASSUME TypeOK, NEW l \in Lanes, queue[l] # <<>>
    PROVE  /\ Head(queue[l]) \in LaneMsgs(l)
           /\ LET q == [queue EXCEPT ![l] = Tail(@)]
              IN  /\ q \in [Lanes -> Seq(Msgs)]
                  /\ \A k \in Lanes : q[k] \in Seq(LaneMsgs(k))
  BY DEF TypeOK

\* The inbound lane carries user messages, the internal one internal ones.
LEMMA LaneContents ==
    /\ "inbound" \in Lanes /\ LaneMsgs("inbound") = UserMsgs
    /\ "inbound_internal" \in Lanes /\ LaneMsgs("inbound_internal") = InternalMsgs
    /\ "outbound" \in Lanes /\ LaneMsgs("outbound") = OutMsgs
  <1>1. /\ \A m \in UserMsgs : Lane(m) = "inbound"
        /\ \A m \in InternalMsgs : Lane(m) = "inbound_internal"
        /\ \A m \in OutMsgs : Lane(m) = "outbound"
    BY BusAssumption DEF Lane
  <1> QED BY <1>1 DEF Lanes, LaneMsgs, Msgs

LEMMA TypeStep == TypeOK /\ [Next]_vars => TypeOK'
  <1> SUFFICES ASSUME TypeOK, [Next]_vars PROVE TypeOK'
    OBVIOUS
  <1>c. /\ "published" \in Counters /\ "dropped" \in Counters
        /\ "persisted" \in Counters /\ "persist_failures" \in Counters
    BY DEF Counters
  <1>1. ASSUME NEW m \in Msgs, PublisherStep(m) PROVE TypeOK'
    <2>1. CASE Publish(m)
      BY <2>1, <1>c, UpdatesTyped DEF Publish, TypeOK, PubStates, consumerVars
    <2>2. CASE SubscribersDone(m)
      <3>1. CASE Enqueue(m) /\ UNCHANGED stats
        BY <3>1, <2>2, UpdatesTyped
        DEF SubscribersDone, Enqueue, TypeOK, PubStates, consumerVars
      <3>2. CASE pub' = [pub EXCEPT ![m] = "rejected"] /\ UNCHANGED queue
                 /\ stats' = Bump("dropped", Lane(m))
        <4>1. stats' \in [Counters -> [Lanes -> Nat]]
          BY <3>2, <1>c, UpdatesTyped
        <4> QED BY <4>1, <3>2, <2>2
                DEF SubscribersDone, TypeOK, PubStates, consumerVars
      <3>3. CASE pub' = [pub EXCEPT ![m] = "blocked"] /\ UNCHANGED <<queue, stats>>
        BY <3>3, <2>2 DEF SubscribersDone, TypeOK, PubStates, consumerVars
      <3> QED BY <2>2, <3>1, <3>2, <3>3 DEF SubscribersDone
    <2>3. CASE PutUnblocks(m)
      BY <2>3, UpdatesTyped
      DEF PutUnblocks, Enqueue, TypeOK, PubStates, consumerVars
    <2>4. CASE OverflowTimeout(m)
      <3>0. stats' = stats \/ stats' = Bump("dropped", Lane(m))
        BY <2>4 DEF OverflowTimeout
      <3>1. stats' \in [Counters -> [Lanes -> Nat]]
        <4>1. CASE stats' = stats
          BY <4>1 DEF TypeOK
        <4>2. CASE stats' = Bump("dropped", Lane(m))
          BY <4>2, <1>c, UpdatesTyped
        <4> QED BY <3>0, <4>1, <4>2
      <3>2. pub' \in [Msgs -> PubStates]
        BY <2>4 DEF OverflowTimeout, TypeOK, PubStates
      <3> QED BY <3>1, <3>2, <2>4 DEF OverflowTimeout, TypeOK, consumerVars
    <2>5. CASE PersistOk(m)
      BY <2>5, <1>c, UpdatesTyped DEF PersistOk, TypeOK, PubStates, consumerVars
    <2>6. CASE PersistFails(m)
      <3> DEFINE b == Bump("persist_failures", Lane(m))
      <3>1. b \in [Counters -> [Lanes -> Nat]] /\ Lane(m) \in Lanes
        BY <1>c, UpdatesTyped
      <3>2. stats' = [b EXCEPT !["dropped"][Lane(m)] = @ + 1]
        BY <2>6 DEF PersistFails
      <3> HIDE DEF b
      <3>3. stats' \in [Counters -> [Lanes -> Nat]]
        BY <3>1, <3>2, <1>c
      <3> QED BY <3>3, <2>6 DEF PersistFails, TypeOK, PubStates, consumerVars
    <2>7. CASE PublisherCancelled(m)
      BY <2>7 DEF PublisherCancelled, TypeOK, PubStates, consumerVars
    <2> QED BY <1>1, <2>1, <2>2, <2>3, <2>4, <2>5, <2>6, <2>7 DEF PublisherStep
  <1>2. CASE ConsumeFast
    BY <1>2, LaneContents, DequeueTyped DEF ConsumeFast, TypeOK, Msgs
  <1>3. CASE ConsumeRace
    BY <1>3 DEF ConsumeRace, TypeOK
  <1>4. CASE UserTaskGet
    BY <1>4, LaneContents, DequeueTyped DEF UserTaskGet, TypeOK
  <1>5. CASE InternalTaskGet
    BY <1>5, LaneContents, DequeueTyped DEF InternalTaskGet, TypeOK
  <1>6. CASE RaceReturnsUser
    BY <1>6 DEF RaceReturnsUser, TypeOK, Msgs
  <1>7. CASE RaceReturnsInternal
    BY <1>7 DEF RaceReturnsInternal, TypeOK, Msgs
  <1>8. CASE ConsumeCancelled
    BY <1>8 DEF ConsumeCancelled, TypeOK
  <1>9. CASE ConsumeOutbound
    BY <1>9, LaneContents, DequeueTyped DEF ConsumeOutbound, TypeOK, Msgs
  <1>10. CASE UNCHANGED vars
    BY <1>10 DEF vars, TypeOK
  <1> QED
    BY <1>1, <1>2, <1>3, <1>4, <1>5, <1>6, <1>7, <1>8, <1>9, <1>10
    DEF Next, ConsumerStep

\* Every variable of the bus keeps its type; in particular user_task only ever
\* holds user messages and internal_task internal ones.
THEOREM TypeCorrect == Spec => []TypeOK
  BY TypeInit, TypeStep, PTL DEF Spec

-----------------------------------------------------------------------------
(* What a step does to the messages that are queued *)

LEMMA EnqueueEffect ==
    ASSUME TypeOK, \A l \in Lanes : Distinct(queue[l]),
           NEW m \in Msgs, ~Queued(m),
           queue' = [queue EXCEPT ![Lane(m)] = Append(@, m)]
    PROVE  /\ \A k \in Msgs : Queued(k)' <=> Queued(k) \/ k = m
           /\ \A l \in Lanes : Distinct(queue[l])'
           /\ \A l \in Lanes : l # Lane(m) => queue'[l] = queue[l]
           /\ Len(queue'[Lane(m)]) = Len(queue[Lane(m)]) + 1
  <1>1. Lane(m) \in Lanes /\ \A k \in Msgs : Lane(k) \in Lanes
    BY DEF Lane, Lanes
  <1>2. queue[Lane(m)] \in Seq(Msgs)
    BY <1>1 DEF TypeOK
  <1>3. queue'[Lane(m)] = Append(queue[Lane(m)], m)
    BY <1>1 DEF TypeOK
  <1>4. \A l \in Lanes : l # Lane(m) => queue'[l] = queue[l]
    BY <1>1 DEF TypeOK
  <1>5. /\ \A k : Contains(queue'[Lane(m)], k)
                    <=> Contains(queue[Lane(m)], k) \/ k = m
        /\ Distinct(queue'[Lane(m)])
        /\ Len(queue'[Lane(m)]) = Len(queue[Lane(m)]) + 1
    BY <1>1, <1>2, <1>3, AppendFacts DEF Queued
  <1>6. ASSUME NEW k \in Msgs PROVE Queued(k)' <=> Queued(k) \/ k = m
    <2>1. Queued(k)' <=> Contains(queue'[Lane(k)], k)
      BY DEF Queued
    <2>2. CASE Lane(k) = Lane(m)
      BY <2>1, <2>2, <1>5 DEF Queued
    <2>3. CASE Lane(k) # Lane(m)
      BY <2>1, <2>3, <1>1, <1>4 DEF Queued
    <2> QED BY <2>2, <2>3
  <1>7. ASSUME NEW l \in Lanes PROVE Distinct(queue'[l])
    BY <1>4, <1>5
  <1> QED BY <1>4, <1>5, <1>6, <1>7

LEMMA DequeueEffect ==
    ASSUME TypeOK, \A l \in Lanes : Distinct(queue[l]),
           NEW l \in Lanes, queue[l] # <<>>,
           queue' = [queue EXCEPT ![l] = Tail(@)]
    PROVE  /\ Head(queue[l]) \in LaneMsgs(l)
           /\ Queued(Head(queue[l]))
           /\ \A k \in Msgs : Queued(k)' <=> Queued(k) /\ k # Head(queue[l])
           /\ \A j \in Lanes : Distinct(queue[j])'
           /\ \A j \in Lanes : Len(queue'[j]) <= Len(queue[j])
  <1> DEFINE h == Head(queue[l])
  <1>1. \A k \in Msgs : Lane(k) \in Lanes
    BY DEF Lane, Lanes
  <1>2. queue[l] \in Seq(LaneMsgs(l)) /\ Distinct(queue[l])
        /\ \A j \in Lanes : queue[j] \in Seq(LaneMsgs(j))
    BY DEF TypeOK
  <1>3. queue'[l] = Tail(queue[l])
    BY DEF TypeOK
  <1>4. \A j \in Lanes : j # l => queue'[j] = queue[j]
    BY DEF TypeOK
  <1>5. /\ h \in LaneMsgs(l)
        /\ Contains(queue[l], h)
        /\ \A k : Contains(queue'[l], k) <=> Contains(queue[l], k) /\ k # h
        /\ Distinct(queue'[l])
        /\ Len(queue'[l]) = Len(queue[l]) - 1
    BY <1>2, <1>3, TailFacts
  <1> HIDE DEF h
  <1>6. h \in Msgs /\ Lane(h) = l
    BY <1>5 DEF LaneMsgs
  <1>7. ASSUME NEW k \in Msgs PROVE Queued(k)' <=> Queued(k) /\ k # h
    <2>1. Queued(k)' <=> Contains(queue'[Lane(k)], k)
      BY DEF Queued
    <2>2. CASE Lane(k) = l
      BY <2>1, <2>2, <1>5 DEF Queued
    <2>3. CASE Lane(k) # l
      BY <2>1, <2>3, <1>1, <1>4, <1>6 DEF Queued
    <2> QED BY <2>2, <2>3
  <1>8. ASSUME NEW j \in Lanes
        PROVE  Distinct(queue'[j]) /\ Len(queue'[j]) <= Len(queue[j])
    <2>1. Len(queue[j]) \in Nat
      BY <1>2
    <2> QED BY <2>1, <1>4, <1>5
  <1>9. Queued(h)
    BY <1>5, <1>6 DEF Queued
  <1> QED BY <1>5, <1>7, <1>8, <1>9 DEF h

LEMMA SameQueue ==
    ASSUME queue' = queue
    PROVE  /\ \A k \in Msgs : Queued(k)' <=> Queued(k)
           /\ \A j \in Lanes : Distinct(queue[j])' <=> Distinct(queue[j])
  BY DEF Queued

-----------------------------------------------------------------------------
(* BusInv is inductive *)

LEMMA BusInit == Init => BusInv
  <1> SUFFICES ASSUME Init PROVE BusInv
    OBVIOUS
  <1>1. TypeOK
    BY TypeInit
  <1>2. \A l \in Lanes : queue[l] = <<>>
    BY DEF Init
  <1>3. \A m \in Msgs : ~Queued(m) /\ Lane(m) \in Lanes
    <2>1. \A m \in Msgs : Lane(m) \in Lanes
      BY DEF Lane, Lanes
    <2> QED BY <2>1, <1>2 DEF Queued, Contains
  <1>4. \A l \in Lanes : Distinct(queue[l]) /\ Len(queue[l]) <= MaxSize
    BY <1>2, BusAssumption DEF Distinct
  <1>5. \A m \in Msgs : MessageInv(m)
    BY <1>3 DEF Init, MessageInv, Located, Held
  <1>6. OvertakenHistory /\ HeldOnlyWhileRacing
    BY DEF Init, OvertakenHistory, HeldOnlyWhileRacing
  <1> QED BY <1>1, <1>4, <1>5, <1>6 DEF BusInv, WithinCapacity

\* A publisher's step that puts its message into the queue.
LEMMA EnqueueStep ==
    ASSUME BusInv, TypeOK', NEW m \in Msgs, pub[m] # "accepted",
           Enqueue(m), UNCHANGED <<spilled, consumerVars>>
    PROVE  BusInv'
  <1>0. /\ TypeOK
        /\ \A l \in Lanes : Distinct(queue[l])
        /\ \A k \in Msgs : MessageInv(k)
        /\ HeldOnlyWhileRacing /\ OvertakenHistory /\ WithinCapacity
    BY DEF BusInv
  <1>1. ~Located(m) /\ ~Queued(m)
    BY <1>0 DEF MessageInv, Located
  <1>2. /\ \A k \in Msgs : Queued(k)' <=> Queued(k) \/ k = m
        /\ \A l \in Lanes : Distinct(queue[l])'
        /\ \A l \in Lanes : l # Lane(m) => queue'[l] = queue[l]
        /\ Len(queue'[Lane(m)]) = Len(queue[Lane(m)]) + 1
    BY <1>0, <1>1, EnqueueEffect DEF Enqueue
  <1>3. pub' = [pub EXCEPT ![m] = "accepted"] /\ pub \in [Msgs -> PubStates]
    BY <1>0 DEF Enqueue, TypeOK
  <1>4. ASSUME NEW k \in Msgs PROVE MessageInv(k)'
    <2>1. CASE k = m
      BY <2>1, <1>1, <1>2, <1>3 DEF MessageInv, Located, Held, consumerVars
    <2>2. CASE k # m
      BY <2>2, <1>0, <1>2, <1>3 DEF MessageInv, Located, Held, consumerVars
    <2> QED BY <2>1, <2>2
  <1>5. WithinCapacity'
    <2>1. \A l \in Lanes : Len(queue[l]) \in Nat
      BY <1>0 DEF TypeOK
    <2>2. Len(queue[Lane(m)]) < MaxSize /\ Lane(m) \in Lanes
      BY <2>1, BusAssumption DEF Enqueue, Full, Lane, Lanes
    <2>3. ASSUME NEW l \in Lanes PROVE Len(queue'[l]) <= MaxSize
      BY <2>1, <2>2, <1>0, <1>2, BusAssumption DEF WithinCapacity
    <2> QED BY <2>3 DEF WithinCapacity
  <1>6. OvertakenHistory'
    <2> SUFFICES ASSUME NEW k \in UserMsgs, overtaken[k] # 0
                 PROVE  /\ overtaken[k] = 1
                        /\ pub'[k] = "accepted"
                        /\ consumer = "racing" => ~Queued(k)'
      BY DEF OvertakenHistory, consumerVars
    <2>1. k \in Msgs /\ k # m
      BY <1>0 DEF OvertakenHistory, Msgs
    <2> QED BY <2>1, <1>0, <1>2, <1>3 DEF OvertakenHistory
  <1>7. HeldOnlyWhileRacing'
    BY <1>0 DEF HeldOnlyWhileRacing, consumerVars
  <1>8. (\A k \in Msgs : MessageInv(k))'
    BY <1>4
  <1> QED BY <1>2, <1>5, <1>6, <1>7, <1>8
          DEF BusInv

\* A publisher's step that leaves the queues alone: the message moves to
\* another publisher state, "accepted" only if it was spilled.
LEMMA OffQueueStep ==
    ASSUME BusInv, TypeOK', NEW m \in Msgs, pub[m] # "accepted",
           NEW st, pub' = [pub EXCEPT ![m] = st],
           UNCHANGED <<queue, consumerVars>>,
           \/ st # "accepted" /\ spilled' = spilled
           \/ st = "accepted" /\ spilled' = spilled \cup {m}
    PROVE  BusInv'
  <1>0. /\ TypeOK
        /\ \A l \in Lanes : Distinct(queue[l])
        /\ \A k \in Msgs : MessageInv(k)
        /\ HeldOnlyWhileRacing /\ OvertakenHistory /\ WithinCapacity
    BY DEF BusInv
  <1>1. ~Located(m)
    BY <1>0 DEF MessageInv
  <1>2. /\ \A k \in Msgs : Queued(k)' <=> Queued(k)
        /\ \A l \in Lanes : Distinct(queue[l])'
    BY <1>0, SameQueue
  <1>3. pub \in [Msgs -> PubStates]
    BY <1>0 DEF TypeOK
  <1>4. ASSUME NEW k \in Msgs PROVE MessageInv(k)'
    <2>1. CASE k = m
      BY <2>1, <1>1, <1>2, <1>3 DEF MessageInv, Located, Held, consumerVars
    <2>2. CASE k # m
      BY <2>2, <1>0, <1>2, <1>3 DEF MessageInv, Located, Held, consumerVars
    <2> QED BY <2>1, <2>2
  <1>5. OvertakenHistory'
    <2> SUFFICES ASSUME NEW k \in UserMsgs, overtaken[k] # 0
                 PROVE  /\ overtaken[k] = 1
                        /\ pub'[k] = "accepted"
                        /\ consumer = "racing" => ~Queued(k)'
      BY DEF OvertakenHistory, consumerVars
    <2>1. k \in Msgs /\ k # m
      BY <1>0 DEF OvertakenHistory, Msgs
    <2> QED BY <2>1, <1>0, <1>2, <1>3 DEF OvertakenHistory
  <1>6. HeldOnlyWhileRacing' /\ WithinCapacity'
    BY <1>0 DEF HeldOnlyWhileRacing, WithinCapacity, consumerVars
  <1>7. (\A k \in Msgs : MessageInv(k))'
    BY <1>4
  <1> QED BY <1>2, <1>5, <1>6, <1>7
          DEF BusInv

\* A step that takes the head of a lane, for a consumer or for a get() task.
LEMMA DequeueStep ==
    ASSUME BusInv, TypeOK', NEW l \in Lanes, queue[l] # <<>>,
           queue' = [queue EXCEPT ![l] = Tail(@)],
           UNCHANGED <<pub, spilled, cancels, overtaken, consumer>>,
           consumer = "idle" => userHeld' = userHeld /\ internalHeld' = internalHeld,
           LET h == Head(queue[l])
           IN  \/ /\ delivered' = delivered \cup {h}
                  /\ userHeld' = userHeld /\ internalHeld' = internalHeld
               \/ /\ delivered' = delivered
                  /\ userHeld' \cup internalHeld'
                       = (userHeld \cup internalHeld) \cup {h}
    PROVE  BusInv'
  <1> DEFINE h == Head(queue[l])
  <1>0. /\ TypeOK
        /\ \A j \in Lanes : Distinct(queue[j])
        /\ \A k \in Msgs : MessageInv(k)
        /\ HeldOnlyWhileRacing /\ OvertakenHistory /\ WithinCapacity
    BY DEF BusInv
  <1>1. /\ h \in LaneMsgs(l)
        /\ Queued(h)
        /\ \A k \in Msgs : Queued(k)' <=> Queued(k) /\ k # h
        /\ \A j \in Lanes : Distinct(queue[j])'
        /\ \A j \in Lanes : Len(queue'[j]) <= Len(queue[j])
    BY <1>0, DequeueEffect
  <1>h. h \in Msgs
    BY <1>1 DEF LaneMsgs
  <1>2. \/ /\ delivered' = delivered \cup {h}
           /\ userHeld' = userHeld /\ internalHeld' = internalHeld
        \/ /\ delivered' = delivered
           /\ userHeld' \cup internalHeld' = (userHeld \cup internalHeld) \cup {h}
    OBVIOUS
  <1> HIDE DEF h
  <1>3. ASSUME NEW k \in Msgs PROVE MessageInv(k)'
    <2>1. CASE k = h
      BY <2>1, <1>0, <1>1, <1>2, <1>h DEF MessageInv, Located, Held
    <2>2. CASE k # h
      BY <2>2, <1>0, <1>1, <1>2 DEF MessageInv, Located, Held
    <2> QED BY <2>1, <2>2
  <1>4. OvertakenHistory'
    BY <1>0, <1>1 DEF OvertakenHistory, Msgs
  <1>5. HeldOnlyWhileRacing'
    BY <1>0 DEF HeldOnlyWhileRacing
  <1>6. WithinCapacity'
    <2>1. \A j \in Lanes : Len(queue[j]) \in Nat /\ Len(queue'[j]) \in Nat
      BY <1>0 DEF TypeOK
    <2> QED BY <2>1, <1>0, <1>1, BusAssumption DEF WithinCapacity
  <1>7. (\A k \in Msgs : MessageInv(k))'
    BY <1>3
  <1> QED BY <1>1, <1>4, <1>5, <1>6, <1>7 DEF BusInv

\* The publisher's part of the next-state relation.
LEMMA PublisherPreserves ==
    ASSUME BusInv, TypeOK', NEW m \in Msgs, PublisherStep(m)
    PROVE  BusInv'
  <1>0. pub \in [Msgs -> PubStates]
    BY DEF BusInv, TypeOK
  <1>1. CASE Publish(m)
    BY <1>1, OffQueueStep DEF Publish
  <1>2. CASE SubscribersDone(m)
    <2>1. pub[m] # "accepted" /\ UNCHANGED <<spilled, consumerVars>>
      BY <1>2 DEF SubscribersDone
    <2>2. CASE Enqueue(m)
      BY <2>1, <2>2, EnqueueStep
    <2>3. CASE queue' = queue /\ pub' = [pub EXCEPT ![m] = "rejected"]
      BY <2>1, <2>3, OffQueueStep
    <2>4. CASE queue' = queue /\ pub' = [pub EXCEPT ![m] = "blocked"]
      BY <2>1, <2>4, OffQueueStep
    <2> QED BY <1>2, <2>2, <2>3, <2>4 DEF SubscribersDone
  <1>3. CASE PutUnblocks(m)
    BY <1>3, EnqueueStep DEF PutUnblocks
  <1>4. CASE OverflowTimeout(m)
    <2>1. /\ pub[m] # "accepted"
          /\ UNCHANGED <<queue, spilled, consumerVars>>
          /\ \/ pub' = [pub EXCEPT ![m] = "persisting"]
             \/ pub' = [pub EXCEPT ![m] = "rejected"]
      BY <1>4 DEF OverflowTimeout
    <2> QED BY <2>1, OffQueueStep
  <1>5. CASE PersistOk(m)
    BY <1>5, OffQueueStep DEF PersistOk
  <1>6. CASE PersistFails(m)
    BY <1>6, OffQueueStep DEF PersistFails
  <1>7. CASE PublisherCancelled(m)
    BY <1>7, OffQueueStep DEF PublisherCancelled
  <1> QED BY <1>1, <1>2, <1>3, <1>4, <1>5, <1>6, <1>7 DEF PublisherStep

\* The consumers' part.
LEMMA ConsumerPreserves ==
    ASSUME BusInv, TypeOK', ConsumerStep
    PROVE  BusInv'
  <1>0. /\ TypeOK
        /\ \A j \in Lanes : Distinct(queue[j])
        /\ \A k \in Msgs : MessageInv(k)
        /\ HeldOnlyWhileRacing /\ OvertakenHistory /\ WithinCapacity
    BY DEF BusInv
  <1>1. CASE ConsumeFast
    BY <1>1, DequeueStep, LaneContents DEF ConsumeFast
  <1>2. CASE ConsumeRace
    <2>1. \A k \in UserMsgs : ~Queued(k)
      BY <1>2, BusAssumption DEF ConsumeRace, Queued, Lane, Contains
    <2>2. /\ \A k \in Msgs : Queued(k)' <=> Queued(k)
          /\ \A j \in Lanes : Distinct(queue[j])'
      BY <1>0, <1>2, SameQueue DEF ConsumeRace
    <2>3. ASSUME NEW k \in Msgs PROVE MessageInv(k)'
      BY <1>0, <1>2, <2>2 DEF ConsumeRace, MessageInv, Located, Held
    <2>4. OvertakenHistory' /\ HeldOnlyWhileRacing' /\ WithinCapacity'
      BY <1>0, <1>2, <2>1, <2>2
      DEF ConsumeRace, OvertakenHistory, HeldOnlyWhileRacing, WithinCapacity, Msgs
    <2>5. (\A k \in Msgs : MessageInv(k))'
      BY <2>3
    <2> QED BY <2>2, <2>4, <2>5 DEF BusInv
  <1>3. CASE UserTaskGet
    BY <1>3, DequeueStep, LaneContents DEF UserTaskGet
  <1>4. CASE InternalTaskGet
    BY <1>4, DequeueStep, LaneContents DEF InternalTaskGet
  <1>5. CASE RaceReturnsUser \/ RaceReturnsInternal \/ ConsumeCancelled
    <2>1. /\ queue' = queue /\ pub' = pub /\ spilled' = spilled
          /\ consumer = "racing" /\ consumer' = "idle"
          /\ userHeld' = {} /\ internalHeld' = {}
          /\ \/ delivered' = delivered \cup userHeld /\ cancels' = cancels
             \/ /\ delivered' = delivered \cup internalHeld /\ userHeld = {}
                /\ cancels' = cancels
             \/ delivered' = delivered /\ cancels' = cancels + 1
      BY <1>5 DEF RaceReturnsUser, RaceReturnsInternal, ConsumeCancelled
    <2>2. /\ \A k \in Msgs : Queued(k)' <=> Queued(k)
          /\ \A j \in Lanes : Distinct(queue[j])'
      BY <1>0, <2>1, SameQueue
    <2>3. /\ userHeld \in SUBSET UserMsgs /\ internalHeld \in SUBSET InternalMsgs
          /\ cancels \in Nat /\ overtaken \in [UserMsgs -> Nat]
      BY <1>0 DEF TypeOK
    <2>4. ASSUME NEW k \in Msgs PROVE MessageInv(k)'
      <3>1. k \in UserMsgs => k \notin internalHeld
        BY <2>3, BusAssumption
      <3>2. k \in OutMsgs => k \notin internalHeld /\ k \notin userHeld
        BY <2>3, BusAssumption
      <3>3. cancels' = 0 => cancels = 0 /\ cancels' = cancels
        BY <2>1, <2>3
      <3>4. MessageInv(k)
        BY <1>0
      <3> QED BY <2>1, <2>2, <3>1, <3>2, <3>3, <3>4
              DEF MessageInv, Located, Held
    <2>5. OvertakenHistory'
      <3> SUFFICES ASSUME NEW k \in UserMsgs
                   PROVE  \/ overtaken'[k] = 0
                          \/ overtaken'[k] = 1 /\ pub[k] = "accepted"
        BY <2>1 DEF OvertakenHistory
      <3>1. Queued(k) => pub[k] = "accepted"
        BY <1>0 DEF MessageInv, Located, Msgs
      <3>2. Queued(k) => overtaken[k] = 0
        BY <1>0, <2>1 DEF OvertakenHistory
      <3>3. overtaken'[k] = IF RaceReturnsInternal /\ Queued(k)
                              THEN overtaken[k] + 1 ELSE overtaken[k]
        BY <1>5 DEF RaceReturnsUser, RaceReturnsInternal, ConsumeCancelled
      <3>4. overtaken[k] = 0 \/ (overtaken[k] = 1 /\ pub[k] = "accepted")
        BY <1>0 DEF OvertakenHistory
      <3> QED BY <3>1, <3>2, <3>3, <3>4
    <2>6. HeldOnlyWhileRacing' /\ WithinCapacity'
      BY <1>0, <2>1 DEF HeldOnlyWhileRacing, WithinCapacity
    <2>7. (\A k \in Msgs : MessageInv(k))'
      BY <2>4
    <2> QED BY <2>2, <2>5, <2>6, <2>7 DEF BusInv
  <1>6. CASE ConsumeOutbound
    BY <1>6, DequeueStep, LaneContents DEF ConsumeOutbound
  <1> QED BY <1>1, <1>2, <1>3, <1>4, <1>5, <1>6 DEF ConsumerStep

LEMMA BusStep == BusInv /\ [Next]_vars => BusInv'
  <1> SUFFICES ASSUME BusInv, [Next]_vars PROVE BusInv'
    OBVIOUS
  <1>1. TypeOK'
    BY TypeStep DEF BusInv
  <1>2. ASSUME NEW m \in Msgs, PublisherStep(m) PROVE BusInv'
    BY <1>1, <1>2, PublisherPreserves
  <1>3. CASE ConsumerStep
    BY <1>1, <1>3, ConsumerPreserves
  <1>4. CASE UNCHANGED vars
    <2>1. /\ \A k \in Msgs : Queued(k)' <=> Queued(k)
          /\ \A j \in Lanes : Distinct(queue[j])'
      BY <1>4, SameQueue DEF vars, BusInv
    <2>2. ASSUME NEW k \in Msgs PROVE MessageInv(k)'
      BY <1>4, <2>1 DEF BusInv, MessageInv, Located, Held, vars
    <2>3. OvertakenHistory' /\ HeldOnlyWhileRacing' /\ WithinCapacity'
      BY <1>4, <2>1
      DEF BusInv, OvertakenHistory, HeldOnlyWhileRacing, WithinCapacity, vars, Msgs
    <2>4. (\A k \in Msgs : MessageInv(k))'
      BY <2>2
    <2> QED BY <1>1, <2>1, <2>3, <2>4 DEF BusInv
  <1> QED BY <1>2, <1>3, <1>4 DEF Next

LEMMA BusInvariant == Spec => []BusInv
  BY BusInit, BusStep, PTL DEF Spec

\* publish_inbound's False means "definitively dropped": a message whose
\* publisher was not told True never shows up anywhere.
THEOREM RejectedStaysOut == Spec => []RejectedNowhere
  <1>1. BusInv => RejectedNowhere
    BY DEF BusInv, MessageInv, RejectedNowhere
  <1> QED BY <1>1, BusInvariant, PTL

\* No interleaving of publishers, get() tasks and cancellations duplicates a
\* message.
THEOREM NeverDuplicated == Spec => []NoDuplication
  <1>1. BusInv => NoDuplication
    <2> SUFFICES ASSUME BusInv PROVE NoDuplication
      OBVIOUS
    <2>1. \A l \in Lanes : Distinct(queue[l])
      BY DEF BusInv
    <2>2. \A m \in Msgs : MessageInv(m)
      BY DEF BusInv
    <2> QED BY <2>1, <2>2 DEF MessageInv, NoDuplication
  <1> QED BY <1>1, BusInvariant, PTL

\* Both together: what publish_inbound answers is what becomes of the message.
THEOREM DeliveredSoundly == Spec => []DeliverySound
  BY RejectedStaysOut, NeverDuplicated, PTL DEF DeliverySound

\* Accepted user messages survive every race; only a cancelled consume_inbound
\* can lose one.  Accepted outbound messages are never lost.
THEOREM AcceptedSurvives == Spec => []AcceptedKept
  <1>1. BusInv => AcceptedKept
    <2> SUFFICES ASSUME BusInv PROVE AcceptedKept
      OBVIOUS
    <2>1. \A m \in Msgs : MessageInv(m)
      BY DEF BusInv
    <2> SUFFICES ASSUME NEW m \in Msgs, pub[m] = "accepted",
                        m \in OutMsgs \/ (m \in UserMsgs /\ cancels = 0)
                 PROVE  Located(m)
      BY DEF AcceptedKept
    <2> QED BY <2>1 DEF MessageInv
  <1> QED BY <1>1, BusInvariant, PTL

\* The user lane's priority: a waiting user message is overtaken at most once.
THEOREM PriorityBound == Spec => []OvertakenAtMostOnce
  <1>1. BusInv => OvertakenAtMostOnce
    BY DEF BusInv, OvertakenHistory, OvertakenAtMostOnce
  <1> QED BY <1>1, BusInvariant, PTL

\* Backpressure holds on all three lanes.
THEOREM CapacityBound == Spec => []WithinCapacity
  <1>1. BusInv => WithinCapacity
    BY DEF BusInv
  <1> QED BY <1>1, BusInvariant, PTL

-----------------------------------------------------------------------------
(* A finished get() task has one result *)

\* user_task and internal_task hold the result of one get() each.
OneInHand ==
    /\ \A x, y \in userHeld : x = y
    /\ \A x, y \in internalHeld : x = y

LEMMA OneInHandInvariant == Spec => []OneInHand
  <1>1. Init => OneInHand
    BY DEF Init, OneInHand
  <1>2. OneInHand /\ [Next]_vars => OneInHand'
    <2> SUFFICES ASSUME OneInHand, [Next]_vars PROVE OneInHand'
      OBVIOUS
    <2>1. ASSUME NEW m \in Msgs, PublisherStep(m) PROVE OneInHand'
      BY <2>1 DEF PublisherStep, Publish, SubscribersDone, PutUnblocks,
         OverflowTimeout, PersistOk, PersistFails, PublisherCancelled,
         consumerVars, OneInHand
    <2>2. CASE ConsumerStep
      BY <2>2 DEF ConsumerStep, ConsumeFast, ConsumeRace, UserTaskGet,
         InternalTaskGet, RaceReturnsUser, RaceReturnsInternal,
         ConsumeCancelled, ConsumeOutbound, OneInHand
    <2>3. CASE UNCHANGED vars
      BY <2>3 DEF vars, OneInHand
    <2> QED BY <2>1, <2>2, <2>3 DEF Next
  <1> QED BY <1>1, <1>2, PTL DEF Spec

-----------------------------------------------------------------------------
(* Sequences with a message in front *)

\* What it means for a lane to have a message in hand.
LEMMA FrontFacts ==
    ASSUME NEW S, NEW q \in Seq(S), NEW x \in S
    PROVE  /\ <<>> \o q = q
           /\ <<x>> \o q # <<>>
           /\ Head(<<x>> \o q) = x
           /\ Tail(<<x>> \o q) = q
  <1> DEFINE r == <<x>> \o q
  <1>0. <<>> \o q = q
    BY ConcatEmptySeq
  <1>1. <<x>> \in Seq(S) /\ Len(<<x>>) = 1 /\ <<x>>[1] = x
    OBVIOUS
  <1>2. /\ r \in Seq(S)
        /\ Len(r) = 1 + Len(q)
        /\ \A i \in 1..(1 + Len(q)) : r[i] = IF i <= 1 THEN <<x>>[i] ELSE q[i - 1]
    BY <1>1, ConcatProperties
  <1>3. Len(q) \in Nat
    OBVIOUS
  <1> HIDE DEF r
  <1>4. r # <<>> /\ Head(r) = x
    BY <1>1, <1>2, <1>3
  <1>5. Tail(r) = q
    <2>1. /\ Tail(r) \in Seq(S)
          /\ Len(Tail(r)) = Len(r) - 1
          /\ \A i \in 1..Len(Tail(r)) : Tail(r)[i] = r[i + 1]
      BY <1>2, <1>4, HeadTailProperties
    <2>2. Len(Tail(r)) = Len(q)
      BY <2>1, <1>2, <1>3
    <2>3. \A i \in 1..Len(q) : Tail(r)[i] = q[i]
      BY <2>1, <2>2, <1>2, <1>3
    <2> QED BY <2>1, <2>2, <2>3, SeqEqual
  <1> QED BY <1>0, <1>4, <1>5 DEF r

\* Taking the head of a queue into hand moves nothing.
LEMMA TakenInHand ==
    ASSUME NEW S, NEW q \in Seq(S), q # <<>>
    PROVE  <<Head(q)>> \o Tail(q) = q
  <1> DEFINE r == <<Head(q)>> \o Tail(q)
  <1>1. /\ Head(q) \in S /\ Head(q) = q[1] /\ Len(q) \in Nat /\ Len(q) >= 1
        /\ Tail(q) \in Seq(S)
        /\ Len(Tail(q)) = Len(q) - 1
        /\ \A i \in 1..Len(Tail(q)) : Tail(q)[i] = q[i + 1]
    BY HeadTailProperties
  <1>2. <<Head(q)>> \in Seq(S) /\ Len(<<Head(q)>>) = 1
        /\ <<Head(q)>>[1] = Head(q)
    BY <1>1
  <1>3. /\ r \in Seq(S)
        /\ Len(r) = 1 + Len(Tail(q))
        /\ \A i \in 1..(1 + Len(Tail(q))) :
              r[i] = IF i <= 1 THEN <<Head(q)>>[i] ELSE Tail(q)[i - 1]
    BY <1>1, <1>2, ConcatProperties
  <1> HIDE DEF r
  <1>4. Len(r) = Len(q)
    BY <1>1, <1>3
  <1>5. ASSUME NEW i \in 1..Len(r) PROVE r[i] = q[i]
    <2>1. CASE i = 1
      BY <2>1, <1>1, <1>2, <1>3, <1>4
    <2>2. CASE i # 1
      <3>1. i - 1 \in 1..Len(Tail(q)) /\ (i - 1) + 1 = i /\ ~(i <= 1)
        BY <2>2, <1>1, <1>4
      <3> QED BY <3>1, <1>1, <1>3, <1>4
    <2> QED BY <2>1, <2>2
  <1> QED BY <1>3, <1>4, <1>5, SeqEqual DEF r

\* An append at the end does not see what is in front.
LEMMA AppendBehind ==
    ASSUME NEW S, NEW p \in Seq(S), NEW q \in Seq(S), NEW x \in S
    PROVE  p \o Append(q, x) = Append(p \o q, x)
  <1>1. Append(q, x) = q \o <<x>>
    BY AppendIsConcat
  <1>2. p \o q \in Seq(S) /\ <<x>> \in Seq(S)
    BY ConcatProperties
  <1>3. Append(p \o q, x) = (p \o q) \o <<x>>
    BY <1>2, AppendIsConcat
  <1> QED BY <1>1, <1>2, <1>3, ConcatAssociative

-----------------------------------------------------------------------------
(* The abstract state *)

fateBar == [m \in Msgs |-> AbstractFate(m)]
laneBar == [l \in Lanes |-> AbstractLane(l)]

\* The fate of a message is a matter of its publisher and its place.
LEMMA SameFate ==
    ASSUME NEW m \in Msgs,
           pub'[m] = pub[m],
           m \in delivered' <=> m \in delivered,
           m \in spilled' <=> m \in spilled,
           (Queued(m) \/ Held(m))' <=> Queued(m) \/ Held(m)
    PROVE  AbstractFate(m)' = AbstractFate(m)
  BY DEF AbstractFate

LEMMA SameLanes ==
    ASSUME queue' = queue, userHeld' = userHeld, internalHeld' = internalHeld
    PROVE  laneBar' = laneBar
  BY DEF laneBar, AbstractLane

\* A publisher's step changes the fate of its own message only.
LEMMA OneFateTurns ==
    ASSUME TypeOK, NEW m \in Msgs, NEW st, pub' = [pub EXCEPT ![m] = st],
           \A k \in Msgs \ {m} : (Queued(k)' <=> Queued(k))
                                /\ (k \in spilled' <=> k \in spilled),
           UNCHANGED consumerVars
    PROVE  fateBar' = [fateBar EXCEPT ![m] = AbstractFate(m)']
  <1>1. ASSUME NEW k \in Msgs, k # m PROVE AbstractFate(k)' = AbstractFate(k)
    <2>1. /\ pub'[k] = pub[k]
          /\ k \in delivered' <=> k \in delivered
          /\ k \in spilled' <=> k \in spilled
          /\ (Queued(k) \/ Held(k))' <=> Queued(k) \/ Held(k)
      BY <1>1 DEF TypeOK, consumerVars, Held
    <2> QED BY <2>1, SameFate
  <1>2. fateBar' = [k \in Msgs |-> AbstractFate(k)']
    BY DEF fateBar
  <1> QED BY <1>1, <1>2 DEF fateBar

LEMMA PublisherRefines ==
    ASSUME BusInv, BusInv', NEW m \in Msgs, PublisherStep(m)
    PROVE  Promise!Next \/ UNCHANGED <<fateBar, laneBar, cancels>>
  <1>0. /\ TypeOK /\ pub \in [Msgs -> PubStates] /\ queue \in [Lanes -> Seq(Msgs)]
        /\ UNCHANGED consumerVars
        /\ UNCHANGED <<userHeld, internalHeld, cancels>>
    BY DEF BusInv, TypeOK, PublisherStep, Publish, SubscribersDone, PutUnblocks,
       OverflowTimeout, PersistOk, PersistFails, PublisherCancelled, consumerVars
  <1>1. CASE Publish(m)
    <2>1. fateBar' = [fateBar EXCEPT ![m] = AbstractFate(m)'] /\ laneBar' = laneBar
      BY <1>0, <1>1, OneFateTurns, SameQueue, SameLanes DEF Publish
    <2>2. fateBar[m] = "new" /\ AbstractFate(m)' = "offered"
      BY <1>0, <1>1 DEF Publish, fateBar, AbstractFate
    <2>3. Promise!Offer(m)
      BY <1>0, <2>1, <2>2 DEF Promise!Offer, Promise!Turns, fateBar, laneBar
    <2> QED BY <2>3 DEF Promise!Next
  <1>2. ASSUME Enqueue(m), pub[m] \in {"subscribers", "blocked"},
               UNCHANGED spilled
        PROVE  Promise!Next
    <2>1. ~Queued(m)
      BY <1>2 DEF BusInv, MessageInv, Located
    <2>2. /\ \A k \in Msgs : Queued(k)' <=> Queued(k) \/ k = m
          /\ \A l \in Lanes : l # Lane(m) => queue'[l] = queue[l]
      BY <1>0, <1>2, <2>1, EnqueueEffect DEF Enqueue, BusInv
    <2>3. fateBar' = [fateBar EXCEPT ![m] = AbstractFate(m)']
      BY <1>0, <1>2, <2>2, OneFateTurns DEF Enqueue
    <2>4. fateBar[m] = "offered"
      BY <1>2 DEF fateBar, AbstractFate
    <2>5. AbstractFate(m)' = "accepted"
      <3>1. MessageInv(m)' /\ Queued(m)' /\ pub'[m] = "accepted"
        BY <1>0, <1>2, <2>2 DEF BusInv, Enqueue
      <3> QED BY <3>1 DEF MessageInv, AbstractFate
    <2>6. Lane(m) \in Lanes
      BY DEF Lane, Lanes
    <2>7. ASSUME NEW l \in Lanes
          PROVE  AbstractLane(l)' = IF l = Lane(m) THEN Append(AbstractLane(l), m)
                                                   ELSE AbstractLane(l)
      <3> DEFINE p == IF l = "inbound" THEN InHand(userHeld)
                      ELSE IF l = "inbound_internal" THEN InHand(internalHeld)
                      ELSE <<>>
      <3>1. p \in Seq(Msgs) /\ queue[l] \in Seq(Msgs)
        <4>1. /\ userHeld \in SUBSET Msgs /\ internalHeld \in SUBSET Msgs
          BY <1>0 DEF TypeOK, Msgs
        <4>2. \A S \in SUBSET Msgs : InHand(S) \in Seq(Msgs)
          BY DEF InHand
        <4> QED BY <1>0, <4>1, <4>2
      <3>2. AbstractLane(l) = p \o queue[l] /\ AbstractLane(l)' = p \o queue'[l]
        BY <1>0 DEF AbstractLane
      <3> HIDE DEF p
      <3>3. CASE l = Lane(m)
        <4>1. queue'[l] = Append(queue[l], m)
          BY <1>0, <1>2, <3>3 DEF Enqueue
        <4> QED BY <4>1, <3>1, <3>2, <3>3, AppendBehind
      <3>4. CASE l # Lane(m)
        BY <2>2, <3>2, <3>4
      <3> QED BY <3>3, <3>4
    <2>8. laneBar' = [laneBar EXCEPT ![Lane(m)] = Append(@, m)]
      <3>1. laneBar' = [l \in Lanes |-> AbstractLane(l)']
        BY DEF laneBar
      <3> QED BY <3>1, <2>6, <2>7 DEF laneBar
    <2>9. Promise!Accept(m)
      BY <1>0, <2>3, <2>4, <2>5, <2>8 DEF Promise!Accept, Promise!Turns, fateBar, laneBar
    <2> QED BY <2>9 DEF Promise!Next
  <1>3. ASSUME NEW st \in {"rejected", "raised"}, pub' = [pub EXCEPT ![m] = st],
               pub[m] \in {"subscribers", "blocked", "persisting"},
               UNCHANGED <<queue, spilled>>
        PROVE  Promise!Next
    <2>1. fateBar' = [fateBar EXCEPT ![m] = AbstractFate(m)'] /\ laneBar' = laneBar
      BY <1>0, <1>3, OneFateTurns, SameQueue, SameLanes
    <2>2. fateBar[m] = "offered" /\ AbstractFate(m)' = "refused"
      BY <1>0, <1>3 DEF fateBar, AbstractFate
    <2>3. Promise!Refuse(m)
      BY <1>0, <2>1, <2>2 DEF Promise!Refuse, Promise!Turns, fateBar, laneBar
    <2> QED BY <2>3 DEF Promise!Next
  <1>4. ASSUME NEW st \in {"blocked", "persisting"}, pub' = [pub EXCEPT ![m] = st],
               pub[m] \in {"subscribers", "blocked"},
               UNCHANGED <<queue, spilled>>
        PROVE  UNCHANGED <<fateBar, laneBar, cancels>>
    <2>1. fateBar' = [fateBar EXCEPT ![m] = AbstractFate(m)'] /\ laneBar' = laneBar
      BY <1>0, <1>4, OneFateTurns, SameQueue, SameLanes
    <2>2. fateBar[m] = "offered" /\ AbstractFate(m)' = "offered"
      BY <1>0, <1>4 DEF fateBar, AbstractFate
    <2> QED BY <1>0, <2>1, <2>2 DEF fateBar
  <1>5. CASE PersistOk(m)
    <2>1. fateBar' = [fateBar EXCEPT ![m] = AbstractFate(m)'] /\ laneBar' = laneBar
      BY <1>0, <1>5, OneFateTurns, SameQueue, SameLanes DEF PersistOk
    <2>2. fateBar[m] = "offered"
      BY <1>0, <1>5 DEF fateBar, AbstractFate, PersistOk
    <2>3. AbstractFate(m)' = "spilled"
      <3>1. MessageInv(m)' /\ m \in spilled' /\ pub'[m] = "accepted"
        BY <1>0, <1>5 DEF BusInv, PersistOk
      <3> QED BY <3>1 DEF MessageInv, AbstractFate
    <2>4. Promise!Spill(m)
      BY <1>0, <2>1, <2>2, <2>3 DEF Promise!Spill, Promise!Turns, fateBar, laneBar
    <2> QED BY <2>4 DEF Promise!Next
  <1>6. CASE SubscribersDone(m) \/ PutUnblocks(m)
    BY <1>2, <1>3, <1>4, <1>6 DEF SubscribersDone, PutUnblocks
  <1>7. CASE OverflowTimeout(m) \/ PersistFails(m) \/ PublisherCancelled(m)
    BY <1>3, <1>4, <1>7 DEF OverflowTimeout, PersistFails, PublisherCancelled
  <1> QED BY <1>1, <1>5, <1>6, <1>7 DEF PublisherStep

\* What is in hand, in front of its queue: nothing between two races, and the
\* one message a finished task holds otherwise.
LEMMA LaneShapes ==
    ASSUME TypeOK, OneInHand
    PROVE  /\ \A l \in Lanes : queue[l] \in Seq(Msgs)
           /\ userHeld = {} => AbstractLane("inbound") = queue["inbound"]
           /\ internalHeld = {}
                => AbstractLane("inbound_internal") = queue["inbound_internal"]
           /\ AbstractLane("outbound") = queue["outbound"]
           /\ \A u \in userHeld : /\ userHeld = {u} /\ u \in Msgs
                                  /\ AbstractLane("inbound") = <<u>> \o queue["inbound"]
           /\ \A u \in internalHeld :
                 /\ internalHeld = {u} /\ u \in Msgs
                 /\ AbstractLane("inbound_internal")
                      = <<u>> \o queue["inbound_internal"]
  <1>1. \A l \in Lanes : queue[l] \in Seq(Msgs)
    BY DEF TypeOK
  <1>2. \A l \in Lanes : <<>> \o queue[l] = queue[l]
    BY <1>1, ConcatEmptySeq
  <1>3. userHeld \subseteq Msgs /\ internalHeld \subseteq Msgs
    BY DEF TypeOK, Msgs
  <1>4. /\ \A u \in userHeld : userHeld = {u} /\ InHand(userHeld) = <<u>>
        /\ \A u \in internalHeld : internalHeld = {u} /\ InHand(internalHeld) = <<u>>
    BY DEF OneInHand, InHand
  <1>5. InHand({}) = <<>>
    BY DEF InHand
  <1> QED BY <1>1, <1>2, <1>3, <1>4, <1>5 DEF AbstractLane, Lanes

\* A message taken from its queue and handed to its consumer at once.
LEMMA DirectHandOut ==
    ASSUME BusInv, OneInHand, BusInv', OneInHand',
           NEW l \in {"inbound", "outbound"}, queue[l] # <<>>,
           l = "inbound" => userHeld = {},
           queue' = [queue EXCEPT ![l] = Tail(@)],
           delivered' = delivered \cup {Head(queue[l])},
           UNCHANGED <<pub, spilled, userHeld, internalHeld, cancels>>
    PROVE  Promise!Next
  <1>0. TypeOK /\ (\A j \in Lanes : Distinct(queue[j])) /\ l \in Lanes
    BY DEF BusInv, Lanes
  <1>h. PICK h \in Msgs : h = Head(queue[l])
    BY <1>0, DequeueEffect DEF LaneMsgs
  <1>1. /\ Queued(h)
        /\ \A k \in Msgs : Queued(k)' <=> Queued(k) /\ k # h
    BY <1>0, <1>h, DequeueEffect
  <1>2. AbstractLane(l) = queue[l] /\ AbstractLane(l)' = queue'[l]
    BY <1>0, LaneShapes, TakenInHand, ConcatEmptySeq
    DEF AbstractLane, InHand, TypeOK, BusInv
  <1>3. queue'[l] = Tail(queue[l]) /\ \A j \in Lanes \ {l} : queue'[j] = queue[j]
    BY <1>0 DEF TypeOK
  <1>4. \A j \in Lanes \ {l} : AbstractLane(j)' = AbstractLane(j)
    BY <1>3 DEF AbstractLane
  <1>5. laneBar' = [j \in Lanes |-> IF j \in {l} \cup {} THEN Tail(laneBar[j])
                                                         ELSE laneBar[j]]
    <2>1. laneBar' = [j \in Lanes |-> AbstractLane(j)']
      BY DEF laneBar
    <2> QED BY <2>1, <1>0, <1>2, <1>3, <1>4 DEF laneBar
  <1>6. AbstractFate(h)' = "delivered"
    <2>1. BusInv' /\ h \in delivered'
      BY <1>h
    <2>2. MessageInv(h) /\ MessageInv(h)'
      BY <1>1 DEF BusInv
    <2> QED BY <2>1, <2>2, <1>1 DEF MessageInv, Located, AbstractFate
  <1>7. ASSUME NEW k \in Msgs, k # h PROVE AbstractFate(k)' = AbstractFate(k)
    BY <1>h, <1>1, <1>7, SameFate DEF Held
  <1>8. laneBar[l] # <<>> /\ Head(laneBar[l]) = h
    BY <1>0, <1>h, <1>2 DEF laneBar
  <1>9. fateBar' = [k \in Msgs |->
                      IF \E j \in {l} : k = Head(laneBar[j]) THEN "delivered"
                      ELSE IF \E j \in {} : k = Head(laneBar[j]) THEN "lost"
                      ELSE fateBar[k]]
    <2>1. fateBar' = [k \in Msgs |-> AbstractFate(k)']
      BY DEF fateBar
    <2> QED BY <2>1, <1>6, <1>7, <1>8 DEF fateBar
  <1>10. Promise!HandOut({l}, {})
    BY <1>5, <1>8, <1>9 DEF Promise!HandOut, fateBar, laneBar
  <1>11. Promise!Deliver(l)
    BY <1>10 DEF Promise!Deliver
  <1> QED BY <1>0, <1>11 DEF Promise!Next

\* A get() task that finishes moves no message: it is still first in its lane.
LEMMA TaskStutters ==
    ASSUME BusInv, OneInHand, BusInv', OneInHand',
           UserTaskGet \/ InternalTaskGet
    PROVE  UNCHANGED <<fateBar, laneBar, cancels>>
  <1>0. TypeOK /\ TypeOK' /\ (\A j \in Lanes : Distinct(queue[j]))
        /\ "inbound" \in Lanes /\ "inbound_internal" \in Lanes
    BY DEF BusInv, Lanes
  <1>1. PICK l \in {"inbound", "inbound_internal"} :
            /\ queue[l] # <<>>
            /\ queue' = [queue EXCEPT ![l] = Tail(@)]
            /\ UNCHANGED <<pub, spilled, delivered, cancels>>
            /\ \/ /\ l = "inbound" /\ userHeld = {} /\ internalHeld' = internalHeld
                  /\ userHeld' = {Head(queue[l])}
               \/ /\ l = "inbound_internal" /\ internalHeld = {} /\ userHeld' = userHeld
                  /\ internalHeld' = {Head(queue[l])}
    BY DEF UserTaskGet, InternalTaskGet
  <1> DEFINE h == Head(queue[l])
  <1>2. /\ h \in Msgs /\ Queued(h)
        /\ \A k \in Msgs : Queued(k)' <=> Queued(k) /\ k # h
    BY <1>0, <1>1, DequeueEffect DEF LaneMsgs
  <1>3. \A k \in Msgs : (Queued(k) \/ Held(k))' <=> Queued(k) \/ Held(k)
    BY <1>1, <1>2 DEF Held
  <1>4. \A k \in Msgs : AbstractFate(k)' = AbstractFate(k)
    BY <1>1, <1>3, SameFate
  <1>5. queue'[l] = Tail(queue[l]) /\ \A j \in Lanes \ {l} : queue'[j] = queue[j]
    BY <1>0, <1>1 DEF TypeOK
  <1>6. AbstractLane(l)' = <<h>> \o Tail(queue[l])
    BY <1>1, <1>5 DEF AbstractLane, InHand
  <1>7. AbstractLane(l)' = AbstractLane(l)
    <2>1. AbstractLane(l) = queue[l] /\ queue[l] \in Seq(Msgs)
      BY <1>0, <1>1, LaneShapes
    <2> QED BY <2>1, <1>1, <1>6, TakenInHand
  <1>8. ASSUME NEW j \in Lanes, j # l PROVE AbstractLane(j)' = AbstractLane(j)
    <2>1. /\ queue'[j] = queue[j]
          /\ j = "inbound" => userHeld' = userHeld
          /\ j = "inbound_internal" => internalHeld' = internalHeld
      BY <1>1, <1>5, <1>8
    <2> QED BY <2>1 DEF AbstractLane
  <1>9. \A j \in Lanes : AbstractLane(j)' = AbstractLane(j)
    BY <1>7, <1>8
  <1> QED BY <1>1, <1>4, <1>9 DEF fateBar, laneBar

\* The end of a race: what the tasks hold is handed out or lost.
LEMMA RaceEnds ==
    ASSUME BusInv, OneInHand, BusInv', OneInHand',
           NEW D \in SUBSET {"inbound", "inbound_internal"},
           NEW L \in SUBSET {"inbound", "inbound_internal"},
           D \cap L = {},
           "inbound" \in D \cup L <=> userHeld # {},
           "inbound_internal" \in D \cup L <=> internalHeld # {},
           userHeld' = {}, internalHeld' = {},
           delivered' = delivered \cup (IF "inbound" \in D THEN userHeld ELSE {})
                                  \cup (IF "inbound_internal" \in D THEN internalHeld ELSE {}),
           UNCHANGED <<pub, spilled, queue>>
    PROVE  Promise!HandOut(D, L)
  <1>0. /\ TypeOK /\ TypeOK' /\ "inbound" \in Lanes /\ "inbound_internal" \in Lanes
        /\ \A j \in Lanes : queue[j] \in Seq(Msgs)
        /\ userHeld \subseteq UserMsgs /\ internalHeld \subseteq InternalMsgs
        /\ userHeld \subseteq Msgs /\ internalHeld \subseteq Msgs
    BY DEF BusInv, Lanes, TypeOK, Msgs
  <1>1. /\ AbstractLane("inbound")' = queue["inbound"]
        /\ AbstractLane("inbound_internal")' = queue["inbound_internal"]
    <2>1. OneInHand' /\ TypeOK'
      BY <1>0
    <2> QED BY <1>0, ConcatEmptySeq DEF AbstractLane, InHand
  <1>2. ASSUME NEW l \in D \cup L
        PROVE  /\ AbstractLane(l) # <<>>
               /\ Tail(AbstractLane(l)) = AbstractLane(l)'
               /\ \A k : k = Head(AbstractLane(l))
                           <=> k \in IF l = "inbound" THEN userHeld ELSE internalHeld
    <2>1. CASE l = "inbound"
      <3>1. PICK u \in userHeld : TRUE
        BY <2>1
      <3>2. /\ userHeld = {u} /\ u \in Msgs
            /\ AbstractLane(l) = <<u>> \o queue["inbound"]
        BY <2>1, <3>1, <1>0, LaneShapes
      <3>3. AbstractLane(l) # <<>> /\ Head(AbstractLane(l)) = u
            /\ Tail(AbstractLane(l)) = queue["inbound"]
        BY <3>2, <1>0, FrontFacts
      <3> QED BY <2>1, <3>2, <3>3, <1>1
    <2>2. CASE l = "inbound_internal"
      <3>1. PICK u \in internalHeld : TRUE
        BY <2>2
      <3>2. /\ internalHeld = {u} /\ u \in Msgs
            /\ AbstractLane(l) = <<u>> \o queue["inbound_internal"]
        BY <2>2, <3>1, <1>0, LaneShapes
      <3>3. AbstractLane(l) # <<>> /\ Head(AbstractLane(l)) = u
            /\ Tail(AbstractLane(l)) = queue["inbound_internal"]
        BY <3>2, <1>0, FrontFacts
      <3> QED BY <2>2, <3>2, <3>3, <1>1
    <2> QED BY <2>1, <2>2
  <1>3. ASSUME NEW l \in Lanes, l \notin D \cup L
        PROVE  AbstractLane(l)' = AbstractLane(l)
    BY <1>3 DEF AbstractLane, Lanes, InHand
  <1>4. laneBar' = [l \in Lanes |-> IF l \in D \cup L THEN Tail(laneBar[l])
                                                      ELSE laneBar[l]]
    <2>1. laneBar' = [l \in Lanes |-> AbstractLane(l)']
      BY DEF laneBar
    <2> QED BY <2>1, <1>2, <1>3 DEF laneBar
  <1>5. ASSUME NEW k \in Msgs
        PROVE  AbstractFate(k)' =
                  IF \E l \in D : k = Head(AbstractLane(l)) THEN "delivered"
                  ELSE IF \E l \in L : k = Head(AbstractLane(l)) THEN "lost"
                  ELSE AbstractFate(k)
    <2>0. MessageInv(k) /\ MessageInv(k)' /\ (Queued(k)' <=> Queued(k))
      BY SameQueue DEF BusInv
    <2>1. /\ (\E l \in D : k = Head(AbstractLane(l)))
               <=> \/ "inbound" \in D /\ k \in userHeld
                   \/ "inbound_internal" \in D /\ k \in internalHeld
          /\ (\E l \in L : k = Head(AbstractLane(l)))
               <=> \/ "inbound" \in L /\ k \in userHeld
                   \/ "inbound_internal" \in L /\ k \in internalHeld
      BY <1>2
    <2>2. ~(k \in userHeld /\ k \in internalHeld)
      BY <1>0, BusAssumption
    <2>3. CASE \E l \in D : k = Head(AbstractLane(l))
      <3>1. k \in delivered' /\ Held(k)
        BY <2>1, <2>3 DEF Held
      <3> QED BY <3>1, <2>0, <2>3 DEF MessageInv, Located, AbstractFate
    <2>4. CASE /\ ~\E l \in D : k = Head(AbstractLane(l))
               /\ \E l \in L : k = Head(AbstractLane(l))
      <3>1. Held(k)
        BY <2>1, <2>4 DEF Held
      <3>2. k \notin delivered /\ k \notin spilled /\ ~Queued(k) /\ pub[k] = "accepted"
        BY <3>1, <2>0 DEF MessageInv, Located
      <3>3. k \notin delivered'
        BY <3>2, <2>1, <2>2, <2>4
      <3>4. ~Held(k)'
        BY DEF Held
      <3> QED BY <3>2, <3>3, <3>4, <2>0, <2>4 DEF AbstractFate
    <2>5. CASE /\ ~\E l \in D : k = Head(AbstractLane(l))
               /\ ~\E l \in L : k = Head(AbstractLane(l))
      <3>1. k \notin userHeld /\ k \notin internalHeld
        BY <2>1, <2>5
      <3>2. AbstractFate(k)' = AbstractFate(k)
        BY <3>1, <2>0, SameFate DEF Held
      <3> QED BY <3>2, <2>5
    <2> QED BY <2>3, <2>4, <2>5
  <1>6. fateBar' = [k \in Msgs |->
                      IF \E l \in D : k = Head(laneBar[l]) THEN "delivered"
                      ELSE IF \E l \in L : k = Head(laneBar[l]) THEN "lost"
                      ELSE fateBar[k]]
    <2>1. fateBar' = [k \in Msgs |-> AbstractFate(k)']
      BY DEF fateBar
    <2>2. \A l \in D \cup L : l \in Lanes /\ laneBar[l] = AbstractLane(l)
      BY <1>0 DEF laneBar
    <2>3. \A k \in Msgs : fateBar[k] = AbstractFate(k)
      BY DEF fateBar
    <2> QED BY <2>1, <2>2, <2>3, <1>5
  <1>7. \A l \in D \cup L : laneBar[l] # <<>>
    BY <1>0, <1>2 DEF laneBar
  <1> QED BY <1>4, <1>6, <1>7 DEF Promise!HandOut, fateBar, laneBar

LEMMA ConsumerRefines ==
    ASSUME BusInv, OneInHand, BusInv', OneInHand', ConsumerStep
    PROVE  Promise!Next \/ UNCHANGED <<fateBar, laneBar, cancels>>
  <1>0. HeldOnlyWhileRacing /\ "inbound" \in Lanes /\ "inbound_internal" \in Lanes
    BY DEF BusInv, Lanes
  <1>1. CASE ConsumeFast
    BY <1>0, <1>1, DirectHandOut DEF ConsumeFast, HeldOnlyWhileRacing
  <1>2. CASE ConsumeRace
    <2>1. \A k \in Msgs : AbstractFate(k)' = AbstractFate(k)
      BY <1>2, SameFate, SameQueue DEF ConsumeRace, Held
    <2> QED BY <1>2, <2>1, SameLanes DEF ConsumeRace, fateBar
  <1>3. CASE UserTaskGet \/ InternalTaskGet
    BY <1>3, TaskStutters
  <1>4. CASE RaceReturnsUser
    <2> DEFINE L == IF internalHeld = {} THEN {} ELSE {"inbound_internal"}
    <2>1. Promise!HandOut({"inbound"}, L)
      BY <1>4, RaceEnds DEF RaceReturnsUser
    <2>2. L \in SUBSET LostBeside("inbound")
      BY DEF LostBeside
    <2>3. Promise!Deliver("inbound")
      BY <1>4, <2>1, <2>2 DEF Promise!Deliver, RaceReturnsUser
    <2> QED BY <1>0, <2>3 DEF Promise!Next
  <1>5. CASE RaceReturnsInternal
    <2>1. Promise!HandOut({"inbound_internal"}, {})
      BY <1>5, RaceEnds DEF RaceReturnsInternal
    <2>2. Promise!Deliver("inbound_internal")
      BY <1>5, <2>1 DEF Promise!Deliver, RaceReturnsInternal
    <2> QED BY <1>0, <2>2 DEF Promise!Next
  <1>6. CASE ConsumeCancelled
    <2> DEFINE L == (IF userHeld = {} THEN {} ELSE {"inbound"})
                    \cup (IF internalHeld = {} THEN {} ELSE {"inbound_internal"})
    <2>1. Promise!HandOut({}, L)
      BY <1>6, RaceEnds DEF ConsumeCancelled
    <2>2. L \in SUBSET {"inbound", "inbound_internal"}
      OBVIOUS
    <2>3. Promise!CancelConsumer
      BY <1>6, <2>1, <2>2 DEF Promise!CancelConsumer, ConsumeCancelled
    <2> QED BY <2>3 DEF Promise!Next
  <1>7. CASE ConsumeOutbound
    BY <1>7, DirectHandOut DEF ConsumeOutbound
  <1> QED BY <1>1, <1>2, <1>3, <1>4, <1>5, <1>6, <1>7 DEF ConsumerStep

\* consume_inbound, consume_outbound and the two publish methods, with all
\* their tasks and timeouts, keep the promise of LossyLanes: lanes are first
\* in, first out, nothing is handed out twice, nothing that was refused is
\* handed out, and a message is lost in two steps only: an internal one in the
\* step that delivers a user message, an inbound one in the step that cancels
\* a waiting consumer.
THEOREM BusImplementsLanes == Spec => BusKeepsPromise
  <1>1. Init => Promise!Init
    <2> SUFFICES ASSUME Init PROVE Promise!Init
      OBVIOUS
    <2>1. \A m \in Msgs : AbstractFate(m) = "new"
      BY DEF Init, AbstractFate
    <2>2. \A l \in Lanes : AbstractLane(l) = <<>>
      <3>1. <<>> \o <<>> = <<>>
        BY ConcatEmptySeq
      <3> QED BY <3>1 DEF Init, AbstractLane, InHand
    <2> QED BY <2>1, <2>2 DEF Init, Promise!Init
  <1>2. BusInv /\ OneInHand /\ BusInv' /\ OneInHand' /\ [Next]_vars
          => [Promise!Next]_(Promise!vars)
    <2> SUFFICES ASSUME BusInv, OneInHand, BusInv', OneInHand', [Next]_vars
                 PROVE  Promise!Next \/ UNCHANGED <<fateBar, laneBar, cancels>>
      BY DEF Promise!vars, fateBar, laneBar
    <2>1. ASSUME NEW m \in Msgs, PublisherStep(m)
          PROVE  Promise!Next \/ UNCHANGED <<fateBar, laneBar, cancels>>
      BY <2>1, PublisherRefines
    <2>2. CASE ConsumerStep
      BY <2>2, ConsumerRefines
    <2>3. CASE UNCHANGED vars
      <3>1. \A k \in Msgs : AbstractFate(k)' = AbstractFate(k)
        BY <2>3, SameFate, SameQueue DEF vars, Held
      <3> QED BY <2>3, <3>1, SameLanes DEF vars, fateBar
    <2> QED BY <2>1, <2>2, <2>3 DEF Next
  <1> QED
    BY <1>1, <1>2, BusInvariant, OneInHandInvariant, PTL
    DEF Spec, BusKeepsPromise, Promise!Spec
=============================================================================
