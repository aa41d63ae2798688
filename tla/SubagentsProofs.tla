-------------------------- MODULE SubagentsProofs --------------------------
(***************************************************************************)
(* Proofs about Subagents, for every tree of subagents, any bounds on      *)
(* their number, nesting and queue, and any number of crashes and          *)
(* swallowed cancellations.                                                *)
(***************************************************************************)
EXTENDS Subagents, TLAPS

\* The life of a subagent: what is recorded of it, and whether it has a live
\* file, at every point of its task.  A live file outlasts its task only after
\* a cancellation before the first step, and until the next restart.
LifeOf(t) ==
    /\ pc[t] = "none" => rec[t] = "none" /\ t \notin live
    /\ pc[t] = "scheduled" => rec[t] = "spawned" /\ t \in live
    /\ pc[t] = "running" => rec[t] = "running" /\ t \in live
    /\ pc[t] \in {"ended", "gone"} =>
         /\ rec[t] \in Final \/ t \in early
         /\ t \in live => t \in early
         /\ rec[t] \in Final \/ t \in live
    /\ pc[t] = "lost" => /\ rec[t] \in Final \/ t \in torn \/ (~up /\ t \in live)
                         /\ up => t \notin live
    /\ t \in Registered => up
    /\ t \in cancelling => pc[t] \in {"scheduled", "running"}

\* A subagent has a result once it ended by itself, and not before.
ResultOf(t) ==
    /\ pc[t] \in {"none", "scheduled", "running"} => result[t] = "none"
    /\ rec[t] = "cancelled" => result[t] = "none"
    /\ rec[t] = "finished" => result[t] # "none" \/ t \in torn

QueuedInv == \A i \in 1..Len(queue) : result[queue[i]] # "none"

\* A descendant of a subagent that swallowed its cancellation.
Stray(t) == \A S \in SUBSET Tasks : HoldsStrays(S) => t \in S

\* While /stop waits, what still runs of the chat is awaited, and was told to
\* end or has swallowed that, or is a stray, or is registered elsewhere.
StopInv ==
    /\ \A c \in stopping : \A t \in OfChat(c) :
         pc[t] \in {"scheduled", "running"} =>
           \/ t \in awaited[c] /\ (t \in cancelling \/ t \in deaf)
           \/ Stray(t) \/ t \in Rekeyed
    /\ \A t \in outlived : Stray(t) \/ t \in Rekeyed

SubInv ==
    /\ TypeOK
    /\ \A t \in Tasks : LifeOf(t) /\ ResultOf(t)
    /\ QueuedInv
    /\ StopInv

----------------------------------------------------------------------------
\* The steps, one by one.  Dies is part of each of the three crashes.
LEMMA StepCases ==
  ASSUME [Next]_vars
  PROVE  \/ \E t \in Tasks : Spawn(t)
         \/ \E t \in Tasks : Start(t)
         \/ \E t \in Tasks : Finish(t)
         \/ \E t \in Tasks : CancelDelivered(t)
         \/ \E t \in Tasks : CancelSwallowed(t)
         \/ \E t \in Tasks : Cleanup(t)
         \/ \E c \in Chats : StopBegins(c)
         \/ \E c \in Chats : StopReturns(c)
         \/ TakeResult \/ LoseResult
         \/ \E t \in Tasks : \/ KeepResult(t) \/ InjectResult(t)
                             \/ RepublishResult(t) \/ DropResult(t)
         \/ Crash
         \/ \E t \in Tasks : CrashInSpawn(t)
         \/ \E t \in Tasks : CrashInEnding(t)
         \/ Restart
         \/ UNCHANGED vars
BY DEF Next

Marks == early \subseteq Tasks /\ deaf \subseteq Tasks /\ torn \subseteq Tasks /\ outlived \subseteq Tasks

LEMMA MarksType == TypeOK <=>
    /\ up \in BOOLEAN
    /\ pc \in [Tasks -> {"none", "scheduled", "running", "ended", "gone", "lost"}]
    /\ cancelling \subseteq Tasks
    /\ rec \in [Tasks -> {"none", "spawned", "running"} \cup Final]
    /\ live \subseteq Tasks
    /\ children \in [Tasks -> 0..MaxChildren]
    /\ awaited \in [Chats -> SUBSET Tasks]
    /\ stopping \subseteq Chats
    /\ queue \in Seq(Tasks) /\ Len(queue) <= QueueMax
    /\ result \in [Tasks -> {"none", "queued", "handled", "pending"} \cup Outcomes]
    /\ busy \in 0..MaxBusy
    /\ faults \in 0..MaxFaults
    /\ Marks
<1>1. {early, deaf, torn, outlived} \subseteq {X : X \in SUBSET Tasks} <=> Marks
  BY DEF Marks
<1> QED BY <1>1 DEF TypeOK

LEMMA TypeStep ==
  ASSUME TypeOK, [Next]_vars
  PROVE  TypeOK'
<1> DEFINE Places == {"none", "queued", "handled", "pending", "kept", "injected", "dropped",
                      "stopped", "lost"}
           T == /\ up' \in BOOLEAN
                /\ pc' \in [Tasks -> {"none", "scheduled", "running", "ended", "gone", "lost"}]
                /\ cancelling' \subseteq Tasks
                /\ rec' \in [Tasks -> {"none", "spawned", "running"} \cup Final]
                /\ live' \subseteq Tasks
                /\ children' \in [Tasks -> 0..MaxChildren]
                /\ awaited' \in [Chats -> SUBSET Tasks]
                /\ stopping' \subseteq Chats
                /\ queue' \in Seq(Tasks) /\ Len(queue') <= QueueMax
                /\ result' \in [Tasks -> Places]
                /\ busy' \in 0..MaxBusy
                /\ faults' \in 0..MaxFaults
                /\ Marks'
<1> SUFFICES T
  <2>1. T => TypeOK'
    BY DEF TypeOK, Marks, Final, Outcomes
  <2> QED BY <2>1
<1>0. {MaxChildren, QueueMax, MaxBusy, MaxFaults} \subseteq Nat
  BY SubagentsAssumption
<1>r. result \in [Tasks -> Places]
  BY MarksType DEF Outcomes
<1>p. ASSUME NEW t \in Tasks, Publish(t)
      PROVE  /\ queue' \in Seq(Tasks) /\ Len(queue') <= QueueMax
             /\ result' \in [Tasks -> Places]
  <2>1. queue \in Seq(Tasks) /\ Len(queue) <= QueueMax
    BY MarksType
  <2>2. queue' = queue \/ (Len(queue) < QueueMax /\ queue' = Append(queue, t))
    BY <1>p DEF Publish
  <2>3. result' \in [Tasks -> Places]
    BY <1>p, <1>r DEF Publish, SetResult
  <2> QED BY <1>0, <2>1, <2>2, <2>3
<1> HIDE DEF Places
<1>1. ASSUME NEW t \in Tasks, Spawn(t)
      PROVE  T
  <2>1. children' \in [Tasks -> 0..MaxChildren]
    <3>1. CASE children' = children
      BY <3>1, MarksType
    <3>2. CASE /\ children[Parent[t]] < MaxChildren
               /\ children' = [children EXCEPT ![Parent[t]] = children[Parent[t]] + 1]
      <4>1. Parent[t] \in Tasks => children[Parent[t]] + 1 \in 0..MaxChildren
        BY <3>2, <1>0, MarksType
      <4> QED BY <3>2, <4>1, MarksType
    <3> QED BY <1>1, <3>1, <3>2 DEF Spawn
  <2> QED BY <1>1, <1>r, <2>1, MarksType DEF Spawn, Marks, Final
<1>2. ASSUME NEW t \in Tasks, Start(t)
      PROVE  T
  BY <1>2, <1>r, MarksType DEF Start, Marks, Final
<1>3. ASSUME NEW t \in Tasks, Finish(t)
      PROVE  T
  BY <1>3, <1>p, MarksType DEF Finish, Marks, Final
<1>4. ASSUME NEW t \in Tasks, CancelDelivered(t)
      PROVE  T
  BY <1>4, <1>r, MarksType DEF CancelDelivered, Marks, Final
<1>5. ASSUME NEW t \in Tasks, CancelSwallowed(t)
      PROVE  T
  BY <1>5, <1>0, <1>r, MarksType DEF CancelSwallowed, Fault, Marks
<1>6. ASSUME NEW t \in Tasks, Cleanup(t)
      PROVE  T
  BY <1>6, <1>r, MarksType DEF Cleanup, Marks
<1>7. ASSUME NEW c \in Chats, StopBegins(c)
      PROVE  T
  <2>1. Targets(c) \subseteq Tasks
    BY DEF Targets, Under
  <2>2. result' \in [Tasks -> Places]
    BY <1>7, <1>r DEF StopBegins, Places
  <2> QED BY <1>7, <2>1, <2>2, MarksType DEF StopBegins, Marks
<1>8. ASSUME NEW c \in Chats, StopReturns(c)
      PROVE  T
  BY <1>8, <1>r, MarksType DEF StopReturns, OfChat, Marks
<1>9. CASE TakeResult \/ LoseResult
  <2>1. queue' \in Seq(Tasks) /\ Len(queue') <= QueueMax /\ Head(queue) \in Tasks
    <3>1. queue \in Seq(Tasks) /\ Len(queue) <= QueueMax /\ queue # <<>> /\ queue' = Tail(queue)
      BY <1>9, MarksType DEF TakeResult, LoseResult
    <3> QED BY <3>1, <1>0
  <2>2. result' \in [Tasks -> Places]
    BY <1>9, <1>r, <2>1 DEF TakeResult, LoseResult, SetResult, Places
  <2>3. busy' \in 0..MaxBusy /\ faults' \in 0..MaxFaults
    BY <1>9, <1>0, MarksType DEF TakeResult, LoseResult, Fault
  <2> QED BY <1>9, <2>1, <2>2, <2>3, MarksType DEF TakeResult, LoseResult, RestOfResult, Marks
<1>10. ASSUME NEW t \in Tasks,
              KeepResult(t) \/ InjectResult(t) \/ RepublishResult(t) \/ DropResult(t)
       PROVE  T
  <2>1. /\ queue' \in Seq(Tasks) /\ Len(queue') <= QueueMax
        /\ result' \in [Tasks -> Places]
    <3>1. CASE RepublishResult(t)
      BY <3>1, <1>p DEF RepublishResult
    <3>2. CASE KeepResult(t) \/ InjectResult(t) \/ DropResult(t)
      BY <3>2, <1>r, MarksType DEF KeepResult, InjectResult, DropResult, SetResult, Places
    <3> QED BY <1>10, <3>1, <3>2
  <2>2. busy' \in 0..MaxBusy /\ faults' \in 0..MaxFaults
    BY <1>10, <1>0, MarksType DEF KeepResult, InjectResult, RepublishResult, DropResult, Fault
  <2> QED BY <1>10, <2>1, <2>2, MarksType
          DEF KeepResult, InjectResult, RepublishResult, DropResult, RestOfResult, Marks
<1>11. ASSUME Dies, rec' \in [Tasks -> {"none", "spawned", "running"} \cup Final],
              live' \subseteq Tasks, torn' \subseteq Tasks
       PROVE  T
  <2>1. faults' \in 0..MaxFaults
    BY <1>11, <1>0, MarksType DEF Dies, Fault
  <2>2. queue' \in Seq(Tasks) /\ Len(queue') <= QueueMax
    BY <1>11, <1>0 DEF Dies
  <2>3. children' \in [Tasks -> 0..MaxChildren]
    BY <1>11, <1>0 DEF Dies
  <2>4. result' \in [Tasks -> Places]
    BY <1>11, <1>r DEF Dies, Places
  <2> QED BY <1>11, <2>1, <2>2, <2>3, <2>4, MarksType DEF Dies, Marks
<1>12. CASE Crash
  BY <1>11, <1>12, MarksType DEF Crash, Marks
<1>13. ASSUME NEW t \in Tasks, CrashInSpawn(t)
       PROVE  T
  BY <1>11, <1>13, MarksType DEF CrashInSpawn, Marks
<1>14. ASSUME NEW t \in Tasks, CrashInEnding(t)
       PROVE  T
  BY <1>11, <1>14, MarksType DEF CrashInEnding, Marks, Final
<1>15. CASE Restart
  BY <1>15, <1>r, MarksType DEF Restart, Marks, Final
<1>16. CASE UNCHANGED vars
  BY <1>16, <1>r, MarksType DEF vars, Marks
<1> HIDE DEF T
<1> QED BY <1>1, <1>2, <1>3, <1>4, <1>5, <1>6, <1>7, <1>8, <1>9, <1>10, <1>12, <1>13, <1>14,
          <1>15, <1>16, StepCases

----------------------------------------------------------------------------
LEMMA LifeStep ==
  ASSUME TypeOK, \A t \in Tasks : LifeOf(t), [Next]_vars, NEW u \in Tasks
  PROVE  LifeOf(u)'
<1> USE MarksType DEF LifeOf, Registered
<1>0. LifeOf(u)
  OBVIOUS
<1>1. ASSUME NEW t \in Tasks, Spawn(t)
      PROVE  LifeOf(u)'
  BY <1>0, <1>1 DEF Spawn
<1>2. ASSUME NEW t \in Tasks, Start(t)
      PROVE  LifeOf(u)'
  BY <1>0, <1>2 DEF Start
<1>3. ASSUME NEW t \in Tasks, Finish(t)
      PROVE  LifeOf(u)'
  BY <1>0, <1>3 DEF Finish, Final
<1>4. ASSUME NEW t \in Tasks, CancelDelivered(t)
      PROVE  LifeOf(u)'
  BY <1>0, <1>4 DEF CancelDelivered, Final
<1>5. ASSUME NEW t \in Tasks, CancelSwallowed(t)
      PROVE  LifeOf(u)'
  BY <1>0, <1>5 DEF CancelSwallowed
<1>6. ASSUME NEW t \in Tasks, Cleanup(t)
      PROVE  LifeOf(u)'
  BY <1>0, <1>6 DEF Cleanup
<1>7. ASSUME NEW c \in Chats, StopBegins(c)
      PROVE  LifeOf(u)'
  BY <1>0, <1>7 DEF StopBegins, Targets
<1>8. ASSUME NEW c \in Chats, StopReturns(c)
      PROVE  LifeOf(u)'
  BY <1>0, <1>8 DEF StopReturns
<1>9. CASE UNCHANGED RestOfResult
  BY <1>0, <1>9 DEF RestOfResult
<1>10. CASE Crash
  BY <1>0, <1>10 DEF Crash, Dies
<1>11. ASSUME NEW t \in Tasks, CrashInSpawn(t)
       PROVE  LifeOf(u)'
  BY <1>0, <1>11 DEF CrashInSpawn, Dies
<1>12. ASSUME NEW t \in Tasks, CrashInEnding(t)
       PROVE  LifeOf(u)'
  BY <1>0, <1>12 DEF CrashInEnding, Dies, Final
<1>13. CASE Restart
  BY <1>0, <1>13 DEF Restart, Final
<1>14. CASE UNCHANGED vars
  BY <1>9, <1>14 DEF vars, RestOfResult
<1> QED BY <1>1, <1>2, <1>3, <1>4, <1>5, <1>6, <1>7, <1>8, <1>9, <1>10, <1>11, <1>12, <1>13,
          <1>14, StepCases
        DEF TakeResult, LoseResult, KeepResult, InjectResult, RepublishResult, DropResult

LEMMA ResultStep ==
  ASSUME TypeOK, \A t \in Tasks : LifeOf(t) /\ ResultOf(t), QueuedInv, [Next]_vars,
         NEW u \in Tasks
  PROVE  ResultOf(u)'
<1> USE MarksType DEF ResultOf
<1>0. ResultOf(u) /\ LifeOf(u)
  OBVIOUS
<1>1. ASSUME NEW t \in Tasks, Spawn(t) \/ Start(t)
      PROVE  ResultOf(u)'
  BY <1>0, <1>1 DEF Spawn, Start
<1>2. ASSUME NEW t \in Tasks, Finish(t)
      PROVE  ResultOf(u)'
  BY <1>0, <1>2 DEF Finish, Publish, SetResult
<1>3. ASSUME NEW t \in Tasks, CancelDelivered(t)
      PROVE  ResultOf(u)'
  BY <1>0, <1>3 DEF CancelDelivered, LifeOf
<1>4. ASSUME NEW t \in Tasks, CancelSwallowed(t) \/ Cleanup(t)
      PROVE  ResultOf(u)'
  BY <1>0, <1>4 DEF CancelSwallowed, Cleanup
<1>5. ASSUME NEW c \in Chats, StopBegins(c) \/ StopReturns(c)
      PROVE  ResultOf(u)'
  BY <1>0, <1>5 DEF StopBegins, StopReturns
\* A result that is somewhere goes elsewhere.
<1>m. ASSUME NEW t \in Tasks, NEW x, result[t] # "none", x # "none",
             result' = [result EXCEPT ![t] = x], UNCHANGED <<pc, rec, torn>>
      PROVE  ResultOf(u)'
  BY <1>0, <1>m
<1>6. CASE TakeResult \/ LoseResult
  <2>1. /\ queue \in Seq(Tasks) /\ queue # <<>>
        /\ \E x \in {"handled", "pending", "lost"} :
             result' = [result EXCEPT ![Head(queue)] = x]
        /\ UNCHANGED <<pc, rec, torn>>
    BY <1>6 DEF TakeResult, LoseResult, SetResult, RestOfResult
  <2>2. Head(queue) = queue[1] /\ 1 \in 1..Len(queue)
    BY <2>1
  <2>3. result[Head(queue)] # "none" /\ Head(queue) \in Tasks
    BY <2>1, <2>2 DEF QueuedInv
  <2> QED BY <1>m, <2>1, <2>3
<1>7. ASSUME NEW t \in Tasks,
             KeepResult(t) \/ InjectResult(t) \/ RepublishResult(t) \/ DropResult(t)
      PROVE  ResultOf(u)'
  <2>1. /\ result[t] # "none" /\ UNCHANGED <<pc, rec, torn>>
        /\ \E x \in {"kept", "injected", "queued", "dropped", "lost"} :
             result' = [result EXCEPT ![t] = x]
    BY <1>7 DEF KeepResult, InjectResult, RepublishResult, DropResult, Publish, SetResult,
       RestOfResult
  <2> QED BY <1>m, <2>1
<1>8. CASE Crash
  BY <1>0, <1>8 DEF Crash, Dies, Registered
<1>9. ASSUME NEW t \in Tasks, CrashInSpawn(t)
      PROVE  ResultOf(u)'
  BY <1>0, <1>9 DEF CrashInSpawn, Dies, Registered
<1>10. ASSUME NEW t \in Tasks, CrashInEnding(t)
       PROVE  ResultOf(u)'
  BY <1>0, <1>10 DEF CrashInEnding, Dies, Registered
<1>11. CASE Restart
  BY <1>0, <1>11 DEF Restart
<1>12. CASE UNCHANGED vars
  BY <1>0, <1>12 DEF vars
<1> QED BY <1>1, <1>2, <1>3, <1>4, <1>5, <1>6, <1>7, <1>8, <1>9, <1>10, <1>11, <1>12, StepCases

\* A result never goes back to "none", and one enters the queue only with it.
LEMMA QueuedStep ==
  ASSUME TypeOK, QueuedInv, [Next]_vars
  PROVE  QueuedInv'
<1>0. queue \in Seq(Tasks)
  BY MarksType
<1>1. ASSUME NEW u \in Tasks, result[u] # "none"
      PROVE  result'[u] # "none"
  <2>1. \/ result' = result
        \/ \E t \in Tasks, x \in {"queued", "dropped", "kept", "injected", "lost"} :
             result' = [result EXCEPT ![t] = x]
        \/ TakeResult \/ LoseResult \/ (\E c \in Chats : StopBegins(c)) \/ Dies
    BY StepCases DEF Spawn, Start, Finish, Publish, SetResult, CancelDelivered,
       CancelSwallowed, Cleanup, StopReturns, KeepResult, InjectResult, RepublishResult,
       DropResult, Crash, CrashInSpawn, CrashInEnding, Restart, vars
  <2>2. CASE result' = result
    BY <1>1, <2>2
  <2>3. ASSUME NEW t \in Tasks, NEW x \in {"queued", "dropped", "kept", "injected", "lost"},
               result' = [result EXCEPT ![t] = x]
        PROVE  result'[u] # "none"
    BY <1>1, <2>3, MarksType
  <2>4. CASE TakeResult \/ LoseResult
    BY <1>1, <2>4, MarksType DEF TakeResult, LoseResult, SetResult
  <2>5. ASSUME NEW c \in Chats, StopBegins(c)
        PROVE  result'[u] # "none"
    BY <1>1, <2>5 DEF StopBegins
  <2>6. CASE Dies
    BY <1>1, <2>6 DEF Dies
  <2> QED BY <2>1, <2>2, <2>3, <2>4, <2>5, <2>6
<1>2. \/ queue' = queue \/ queue' = <<>>
      \/ queue # <<>> /\ queue' = Tail(queue)
      \/ \E t \in Tasks : queue' = Append(queue, t) /\ result'[t] # "none"
  <2>1. ASSUME NEW t \in Tasks, Publish(t)
        PROVE  queue' = queue \/ (queue' = Append(queue, t) /\ result'[t] # "none")
    BY <2>1, MarksType DEF Publish, SetResult
  <2>2. CASE \E t \in Tasks : Finish(t) \/ RepublishResult(t)
    BY <2>1, <2>2 DEF Finish, RepublishResult
  <2>3. CASE TakeResult \/ LoseResult
    BY <2>3 DEF TakeResult, LoseResult
  <2>4. CASE Dies
    BY <2>4 DEF Dies
  <2>5. CASE UNCHANGED queue
    BY <2>5
  <2> QED BY <2>2, <2>3, <2>4, <2>5, StepCases
          DEF Spawn, Start, CancelDelivered, CancelSwallowed, Cleanup, StopBegins, StopReturns,
          KeepResult, InjectResult, DropResult, Crash, CrashInSpawn, CrashInEnding, Restart, vars
<1>3. CASE queue' = queue \/ queue' = <<>>
  BY <1>0, <1>1, <1>3 DEF QueuedInv
<1>4. CASE queue # <<>> /\ queue' = Tail(queue)
  <2>1. \A i \in 1..Len(queue') : i + 1 \in 1..Len(queue) /\ queue'[i] = queue[i + 1]
    BY <1>0, <1>4
  <2> QED BY <1>0, <1>1, <2>1 DEF QueuedInv
<1>5. ASSUME NEW t \in Tasks, queue' = Append(queue, t) /\ result'[t] # "none"
      PROVE  QueuedInv'
  <2>1. \A i \in 1..Len(queue') : (i \in 1..Len(queue) /\ queue'[i] = queue[i]) \/ queue'[i] = t
    BY <1>0, <1>5
  <2> QED BY <1>0, <1>1, <1>5, <2>1 DEF QueuedInv
<1> QED BY <1>2, <1>3, <1>4, <1>5

----------------------------------------------------------------------------
\* The more subagents swallowed their cancellation, the more are strays.
LEMMA StrayStays ==
  ASSUME deaf \subseteq deaf', NEW t, Stray(t)
  PROVE  Stray(t)'
BY DEF Stray, HoldsStrays

LEMMA StrayChild ==
  ASSUME NEW t \in Tasks, Parent[t] \in deaf \/ Stray(Parent[t])
  PROVE  Stray(t)
BY DEF Stray, HoldsStrays

LEMMA StopStep ==
  ASSUME TypeOK, \A t \in Tasks : LifeOf(t), StopInv, [Next]_vars
  PROVE  StopInv'
<1> DEFINE Left(t) == pc[t] \in {"scheduled", "running"}
           Held(c, t) == \/ t \in awaited[c] /\ (t \in cancelling \/ t \in deaf)
                         \/ Stray(t) \/ t \in Rekeyed
<1>0. /\ \A c \in stopping : c \in Chats /\ \A t \in OfChat(c) : Left(t) => Held(c, t)
      /\ \A t \in outlived : Stray(t) \/ t \in Rekeyed
      /\ \A c : OfChat(c)' = OfChat(c)
      /\ Rekeyed' = Rekeyed
  BY MarksType DEF StopInv, OfChat, Rekeyed
<1>a. \A c, t : t \in OfChat(c) <=> t \in Tasks /\ ChatOf[t] = c
  BY DEF OfChat
<1>d. deaf \subseteq deaf'
  BY StepCases DEF Spawn, Start, Finish, CancelDelivered, CancelSwallowed, Cleanup,
     StopBegins, StopReturns, TakeResult, LoseResult, KeepResult, InjectResult,
     RepublishResult, DropResult, RestOfResult, Crash, CrashInSpawn, CrashInEnding, Dies,
     Restart, vars
<1>s. \A t : Stray(t) => Stray(t)'
  BY <1>d, StrayStays
<1>o. ASSUME outlived' = outlived
      PROVE  \A t \in outlived' : (Stray(t) \/ t \in Rekeyed)'
  BY <1>0, <1>o, <1>s
\* Nobody new is left, and whoever is left is still held.
<1>k. ASSUME stopping' \subseteq stopping, outlived' = outlived, awaited' = awaited,
             \A t \in Tasks : Left(t)' => Left(t) /\ (t \in cancelling => t \in cancelling' \cup deaf')
      PROVE  StopInv'
  <2>1. ASSUME NEW c \in stopping', NEW t \in OfChat(c)', Left(t)'
        PROVE  Held(c, t)'
    <3>1. c \in stopping /\ t \in OfChat(c) /\ t \in Tasks
      BY <1>0, <1>a, <1>k, <2>1
    <3>2. Left(t) /\ Held(c, t)
      BY <1>0, <1>k, <2>1, <3>1
    <3> QED BY <1>0, <1>d, <1>k, <1>s, <2>1, <3>1, <3>2
  <2> QED BY <1>k, <1>o, <2>1 DEF StopInv
<1>1. ASSUME NEW t \in Tasks, Spawn(t)
      PROVE  StopInv'
  <2>1. /\ pc' = [pc EXCEPT ![t] = "scheduled"] /\ cancelling' = cancelling
        /\ deaf' = deaf /\ awaited' = awaited /\ stopping' = stopping /\ outlived' = outlived
        /\ \/ Parent[t] = Root /\ (~Halted(KeyOf[ChatOf[t]]) \/ ~Halted(SessionOf[t]))
           \/ Parent[t] # Root /\ pc[Parent[t]] = "running" /\ Parent[t] \notin cancelling
    BY <1>1 DEF Spawn
  <2>2. ASSUME ChatOf[t] \in stopping PROVE Stray(t) \/ t \in Rekeyed
    <3>1. CASE Parent[t] = Root
      <4>1. Halted(KeyOf[ChatOf[t]])
        BY <2>2 DEF Halted
      <4> QED BY <2>1, <3>1, <4>1 DEF Rekeyed
    <3>2. CASE Parent[t] # Root
      <4>1. /\ Parent[t] \in Tasks /\ ChatOf[Parent[t]] = ChatOf[t]
            /\ SessionOf[Parent[t]] = SessionOf[t]
        BY <3>2, SubagentsAssumption
      <4>2. Parent[t] \in deaf \/ Stray(Parent[t]) \/ Parent[t] \in Rekeyed
        BY <1>0, <1>a, <2>1, <2>2, <3>2, <4>1
      <4>3. Parent[t] \in Rekeyed => t \in Rekeyed
        BY <4>1 DEF Rekeyed
      <4> QED BY <4>2, <4>3, StrayChild
    <3> QED BY <3>1, <3>2
  <2>3. ASSUME NEW c \in stopping', NEW u \in OfChat(c)', Left(u)'
        PROVE  Held(c, u)'
    <3>1. u \in OfChat(c) /\ u \in Tasks /\ ChatOf[u] = c /\ c \in stopping
      BY <1>0, <1>a, <2>1, <2>3
    <3>2. CASE u = t
      BY <2>2, <3>1, <3>2, <1>0, <1>s
    <3>3. CASE u # t
      <4>1. Left(u)
        BY <2>1, <2>3, <3>1, <3>3, MarksType
      <4> QED BY <4>1, <3>1, <1>0, <1>s, <2>1
    <3> QED BY <3>2, <3>3
  <2> QED BY <1>o, <2>1, <2>3 DEF StopInv
<1>2. ASSUME NEW t \in Tasks, Start(t)
      PROVE  StopInv'
  BY <1>2, <1>k, MarksType DEF Start
<1>3. ASSUME NEW t \in Tasks, Finish(t)
      PROVE  StopInv'
  BY <1>3, <1>k, MarksType DEF Finish
<1>4. ASSUME NEW t \in Tasks, CancelDelivered(t) \/ CancelSwallowed(t) \/ Cleanup(t)
      PROVE  StopInv'
  BY <1>4, <1>k, MarksType DEF CancelDelivered, CancelSwallowed, Cleanup
<1>5. ASSUME NEW c \in Chats, StopBegins(c)
      PROVE  StopInv'
  <2>1. /\ stopping' = {c} /\ pc' = pc /\ outlived' = outlived
        /\ cancelling' = cancelling \cup Targets(c) /\ awaited'[c] = Targets(c)
    BY <1>5, MarksType DEF StopBegins
  <2>2. ASSUME NEW t \in OfChat(c)', Left(t)' PROVE Held(c, t)'
    <3>1. t \in Tasks /\ ChatOf[t] = c /\ Left(t)
      BY <1>0, <1>a, <2>1, <2>2
    <3>2. CASE t \in Rekeyed
      BY <1>0, <3>2
    <3>3. CASE t \notin Rekeyed
      BY <2>1, <3>1, <3>3 DEF Rekeyed, Targets, Under
    <3> QED BY <3>2, <3>3
  <2> QED BY <1>o, <2>1, <2>2 DEF StopInv
<1>6. ASSUME NEW c \in Chats, StopReturns(c)
      PROVE  StopInv'
  <2>1. /\ stopping' = {} /\ c \in stopping
        /\ \A t \in awaited[c] : pc[t] \in {"ended", "gone"}
        /\ outlived' = outlived \cup {t \in OfChat(c) : Left(t)}
    BY <1>6 DEF StopReturns
  <2>2. \A t \in outlived' : Stray(t) \/ t \in Rekeyed
    BY <2>1, <1>0
  <2> QED BY <1>0, <2>1, <2>2, <1>s DEF StopInv
<1>7. ASSUME Dies
      PROVE  StopInv'
  BY <1>7, <1>o DEF Dies, StopInv
<1>8. CASE Restart \/ UNCHANGED vars \/ UNCHANGED RestOfResult
  BY <1>8, <1>k DEF Restart, RestOfResult, vars
<1> QED BY <1>1, <1>2, <1>3, <1>4, <1>5, <1>6, <1>7, <1>8, StepCases
        DEF Crash, CrashInSpawn, CrashInEnding, TakeResult, LoseResult, KeepResult,
        InjectResult, RepublishResult, DropResult

----------------------------------------------------------------------------
LEMMA SubInit == Init => SubInv
<1> SUFFICES ASSUME Init PROVE SubInv
  OBVIOUS
<1>0. {MaxChildren, QueueMax, MaxBusy, MaxFaults} \subseteq Nat
  BY SubagentsAssumption
<1>1. TypeOK
  <2>1. queue \in Seq(Tasks) /\ Len(queue) <= QueueMax
    BY <1>0 DEF Init
  <2>2. children \in [Tasks -> 0..MaxChildren] /\ faults \in 0..MaxFaults
    BY <1>0 DEF Init
  <2> QED BY <1>0, <2>1, <2>2, MarksType DEF Init, Marks
<1>2. \A t \in Tasks : LifeOf(t) /\ ResultOf(t)
  BY DEF Init, LifeOf, ResultOf, Registered
<1>3. QueuedInv /\ StopInv
  BY DEF Init, QueuedInv, StopInv
<1> QED BY <1>1, <1>2, <1>3 DEF SubInv

LEMMA SubNext == SubInv /\ [Next]_vars => SubInv'
<1> SUFFICES ASSUME SubInv, [Next]_vars PROVE SubInv'
  OBVIOUS
<1> USE DEF SubInv
<1>1. TypeOK'
  BY TypeStep
<1>2. \A t \in Tasks : LifeOf(t)'
  BY LifeStep
<1>3. \A t \in Tasks : ResultOf(t)'
  BY ResultStep
<1>4. QueuedInv' /\ StopInv'
  BY QueuedStep, StopStep
<1> QED BY <1>1, <1>2, <1>3, <1>4

LEMMA SubInvariant == Spec => []SubInv
BY SubInit, SubNext, PTL DEF Spec

\* The bookkeeping of the subagents keeps its types: no queue of results
\* beyond its size, no child count beyond max_children_per_subagent.
THEOREM SubagentTypes == Spec => []TypeOK
<1>1. SubInv => TypeOK
  BY DEF SubInv
<1> QED BY <1>1, SubInvariant, PTL

\* tasks.jsonl tells how every subagent ended, whatever the order of its
\* cancellation, its end, a crash and the reconciliation after it
\* (_record_terminal_task, reconcile_live_state).
THEOREM RecordsTold == Spec => []RecordsTell
<1>1. SubInv => RecordsTell
  BY MarksType DEF SubInv, LifeOf, RecordsTell, Registered
<1> QED BY <1>1, SubInvariant, PTL

\* A result is announced for the subagents recorded as ended by themselves,
\* and for no cancelled one (_run_subagent, _announce_result).
THEOREM ResultsFollow == Spec => []ResultsAgree
<1>1. SubInv => ResultsAgree
  BY DEF SubInv, ResultOf, ResultsAgree
<1> QED BY <1>1, SubInvariant, PTL

\* When /stop returns, whatever still runs of the subagents its chat asked for
\* descends from one that swallowed its cancellation, or is registered under a
\* tenant's key that /stop does not look under (cancel_by_session).
THEOREM StopFinal == Spec => []StopIsFinal
<1>1. SubInv => StopIsFinal
  BY DEF SubInv, StopInv, Stray, StopIsFinal
<1> QED BY <1>1, SubInvariant, PTL
=============================================================================
