-------------------------- MODULE DispatcherProofs --------------------------
(***************************************************************************)
(* Proofs about Dispatcher, for any messages, session keys, tenant         *)
(* resolution, queue sizes, gate and injection limits.                     *)
(*                                                                         *)
(* Everything rests on one fact: a message is in one place only.  That a   *)
(* dispatch task is created at most once, that its pending queue is its    *)
(* own, and that the lock's row names it once all follow from it.          *)
(***************************************************************************)
EXTENDS Dispatcher, FiniteSetTheorems, SequenceTheorems, TLAPS

Kinds == {"inbox", "pending", "injected", "carried", "task", "inlined", "dropped"}
Spots == Msgs \cup {NoMsg}

Among(m, s) == \E i \in 1..Len(s) : s[i] = m
Once(s)     == \A i, j \in 1..Len(s) : s[i] = s[j] => i = j

\* Message m is in the place of that kind, t's when the kind has one per task.
In(kind, t, m) ==
    \/ kind = "inbox"    /\ t = NoMsg /\ Among(m, inbox)
    \/ kind = "pending"  /\ t \in Msgs /\ Among(m, pending[t])
    \/ kind = "injected" /\ t \in Msgs /\ m \in injected[t]
    \/ kind = "carried"  /\ t \in Msgs /\ m = carrying[t]
    \/ kind = "task"     /\ t = NoMsg /\ task[m] # "none"
    \/ kind = "inlined"  /\ t = NoMsg /\ m \in inlined
    \/ kind = "dropped"  /\ t = NoMsg /\ m \in dropped

Apart ==
    \A m \in Msgs, a, c \in Kinds, b, d \in Spots :
        In(a, b, m) /\ In(c, d, m) => a = c /\ b = d

ArrivedInv ==
    \A m \in Msgs : m \in arrived <=> \E a \in Kinds, b \in Spots : In(a, b, m)

OnceInv == Once(inbox) /\ \A t \in Msgs : Once(pending[t])

PlaceInv == Apart /\ ArrivedInv /\ OnceInv

\* The row of a session's lock: the dispatches of the session between their
\* start and the finally block, each once, and the turn is the head's.
LockInv ==
    /\ \A k \in Keys : Once(lock[k])
    /\ \A k \in Keys : \A i \in 1..Len(lock[k]) :
         task[lock[k][i]] \in {"waiting", "running"} /\ DispatchKey[lock[k][i]] = k
    /\ \A t \in Msgs : task[t] \in {"waiting", "running"} => Among(t, lock[DispatchKey[t]])
    /\ \A t \in Msgs : task[t] = "running" => lock[DispatchKey[t]][1] = t

\* A follow-up waits in a queue of the session it was routed to.
PendingInOwnSession ==
    \A t \in Msgs : \A i \in 1..Len(pending[t]) : RouteKey[pending[t][i]] = DispatchKey[t]

\* What a task has to show for its state, and who answers for its queue.
TaskInv ==
    \A t \in Msgs :
        /\ task[t] \in {"none", "created"} => pending[t] = <<>>
        /\ task[t] \in {"none", "created", "waiting", "running"} => taking[t] = NoMsg
        /\ carrying[t] # NoMsg => task[t] = "cleanup"
        /\ task[t] \in {"waiting", "running"} =>
             registered[DispatchKey[t]] = t \/ t \in replaced \/ \E u \in Msgs : taking[u] = t
        /\ task[t] \in {"cleanup", "done"} =>
             pending[t] = <<>> \/ t \in replaced \/ \E u \in Msgs : taking[u] = t

\* A queue that a finally block popped is registered no more, and is empty
\* when that block has ended, unless it was cut short.
Popped(u) ==
    taking[u] # NoMsg =>
        /\ task[taking[u]] \notin {"none", "created"}
        /\ \A k \in Keys : registered[k] # taking[u]
        /\ task[u] = "done" => pending[taking[u]] = <<>> \/ taking[u] \in cutShort

PopInv == \A u \in Msgs : Popped(u)

DispInv ==
    /\ TypeOK
    /\ PlaceInv
    /\ LockInv
    /\ RegisteredQueueIsLive
    /\ PendingInOwnSession
    /\ InjectedInOwnSession
    /\ TaskInv
    /\ PopInv
-----------------------------------------------------------------------------
(* Sequences *)

LEMMA AppendFacts ==
  ASSUME NEW s \in Seq(Msgs), NEW m \in Msgs
  PROVE  /\ Append(s, m) \in Seq(Msgs)
         /\ \A x : Among(x, Append(s, m)) <=> Among(x, s) \/ x = m
         /\ Once(s) /\ ~Among(m, s) => Once(Append(s, m))
<1>1. /\ Append(s, m) \in Seq(Msgs) /\ Len(s) \in Nat /\ Len(Append(s, m)) = Len(s) + 1
      /\ \A i \in 1..Len(s) : Append(s, m)[i] = s[i]
      /\ Append(s, m)[Len(s) + 1] = m
  OBVIOUS
<1>2. ASSUME NEW x PROVE Among(x, Append(s, m)) <=> Among(x, s) \/ x = m
  BY <1>1 DEF Among
<1>3. Once(s) /\ ~Among(m, s) => Once(Append(s, m))
  BY <1>1 DEF Among, Once
<1> QED BY <1>1, <1>2, <1>3

\* The first n elements are taken.
LEMMA DropFacts ==
  ASSUME NEW s \in Seq(Msgs), NEW n \in Nat, n <= Len(s), Once(s)
  PROVE  LET d == SubSeq(s, n + 1, Len(s))
         IN  /\ d \in Seq(Msgs) /\ Once(d)
             /\ \A x : Among(x, d) <=> Among(x, s) /\ x \notin {s[i] : i \in 1..n}
<1> DEFINE d == SubSeq(s, n + 1, Len(s))
<1>1. /\ d \in Seq(Msgs) /\ Len(s) \in Nat /\ Len(d) = Len(s) - n
      /\ \A i \in 1..Len(d) : d[i] = s[n + i] /\ n + i \in 1..Len(s)
  OBVIOUS
<1>2. Once(d)
  <2>1. ASSUME NEW i \in 1..Len(d), NEW j \in 1..Len(d), d[i] = d[j]
        PROVE  i = j
    <3>1. s[n + i] = s[n + j] /\ n + i \in 1..Len(s) /\ n + j \in 1..Len(s)
      BY <1>1, <2>1
    <3>2. n + i = n + j
      BY <3>1 DEF Once
    <3> QED BY <3>2, <1>1
  <2> QED BY <2>1 DEF Once
<1>3. ASSUME NEW x PROVE Among(x, d) <=> Among(x, s) /\ x \notin {s[i] : i \in 1..n}
  <2>1. ASSUME NEW i \in 1..Len(d), d[i] = x PROVE Among(x, s) /\ x \notin {s[j] : j \in 1..n}
    <3>1. s[n + i] = x /\ n + i \in 1..Len(s)
      BY <1>1, <2>1
    <3>2. ASSUME NEW j \in 1..n, s[j] = x PROVE FALSE
      <4>1. j \in 1..Len(s)
        BY <1>1
      <4>2. j = n + i
        BY <3>1, <3>2, <4>1 DEF Once
      <4> QED BY <4>2, <1>1
    <3> QED BY <3>1, <3>2 DEF Among
  <2>2. ASSUME NEW i \in 1..Len(s), s[i] = x, x \notin {s[j] : j \in 1..n} PROVE Among(x, d)
    <3>1. i - n \in 1..Len(d) /\ n + (i - n) = i
      BY <1>1, <2>2
    <3>2. d[i - n] = x
      BY <1>1, <2>2, <3>1
    <3> QED BY <3>1, <3>2 DEF Among
  <2> QED BY <2>1, <2>2 DEF Among
<1> QED BY <1>1, <1>2, <1>3

LEMMA TailFacts ==
  ASSUME NEW s \in Seq(Msgs), s # <<>>, Once(s)
  PROVE  /\ Head(s) \in Msgs /\ Among(Head(s), s)
         /\ Tail(s) \in Seq(Msgs) /\ Once(Tail(s))
         /\ \A x : Among(x, Tail(s)) <=> Among(x, s) /\ x # Head(s)
<1>1. /\ Len(s) \in Nat /\ 1 <= Len(s) /\ Head(s) = s[1] /\ Tail(s) = SubSeq(s, 2, Len(s))
      /\ Head(s) \in Msgs
  OBVIOUS
<1>2. {s[i] : i \in 1..1} = {Head(s)}
  BY <1>1
<1>3. 1 + 1 = 2 /\ 1 \in Nat
  OBVIOUS
<1>4. /\ Tail(s) \in Seq(Msgs) /\ Once(Tail(s))
      /\ \A x : Among(x, Tail(s)) <=> Among(x, s) /\ x \notin {s[i] : i \in 1..1}
  <2>1. LET d == SubSeq(s, 1 + 1, Len(s))
        IN  /\ d \in Seq(Msgs) /\ Once(d)
            /\ \A x : Among(x, d) <=> Among(x, s) /\ x \notin {s[i] : i \in 1..1}
    BY <1>1, <1>3, DropFacts, Zenon
  <2>2. SubSeq(s, 1 + 1, Len(s)) = Tail(s)
    BY <1>1, <1>3
  <2> QED BY <2>1, <2>2, Zenon
<1> QED BY <1>1, <1>2, <1>4 DEF Among

\* A task leaves the row of the lock: the others keep their order.
LEMMA WithoutFacts ==
  ASSUME NEW s \in Seq(Msgs), NEW t \in Msgs, Among(t, s), Once(s)
  PROVE  /\ Without(s, t) \in Seq(Msgs) /\ Once(Without(s, t))
         /\ \A x : Among(x, Without(s, t)) <=> Among(x, s) /\ x # t
         /\ s[1] # t => Without(s, t)[1] = s[1]
<1> DEFINE n == CHOOSE j \in 1..Len(s) : s[j] = t
           w == SubSeq(s, 1, n - 1) \o SubSeq(s, n + 1, Len(s))
<1>1. n \in 1..Len(s) /\ s[n] = t /\ Len(s) \in Nat
  BY DEF Among
<1>2. Without(s, t) = w
  BY DEF Without
<1> HIDE DEF n
<1>3. /\ w \in Seq(Msgs) /\ Len(w) = Len(s) - 1
      /\ \A i \in 1..(n - 1) : w[i] = s[i]
      /\ \A i \in n..(Len(s) - 1) : w[i] = s[i + 1]
  <2> DEFINE a == SubSeq(s, 1, n - 1)
             b == SubSeq(s, n + 1, Len(s))
  <2>1. a \in Seq(Msgs) /\ Len(a) = n - 1 /\ \A i \in 1..(n - 1) : a[i] = s[i]
    BY <1>1
  <2>2. b \in Seq(Msgs) /\ Len(b) = Len(s) - n /\ \A i \in 1..(Len(s) - n) : b[i] = s[i + n]
    BY <1>1
  <2> HIDE DEF a, b
  <2>3. /\ a \o b \in Seq(Msgs) /\ Len(a \o b) = Len(s) - 1
        /\ \A i \in 1..(n - 1) : (a \o b)[i] = a[i]
        /\ \A i \in n..(Len(s) - 1) : (a \o b)[i] = b[i - (n - 1)]
    <3>1. a \o b \in Seq(Msgs) /\ Len(a \o b) = Len(a) + Len(b)
      BY <2>1, <2>2
    <3>2. \A i \in 1..Len(a) + Len(b) :
            (a \o b)[i] = IF i <= Len(a) THEN a[i] ELSE b[i - Len(a)]
      BY <2>1, <2>2, ConcatProperties
    <3> QED BY <1>1, <2>1, <2>2, <3>1, <3>2
  <2>4. \A i \in n..(Len(s) - 1) : /\ i - (n - 1) \in 1..(Len(s) - n)
                                   /\ (i - (n - 1)) + n = i + 1
    BY <1>1
  <2> QED BY <2>1, <2>2, <2>3, <2>4 DEF a, b
<1> HIDE DEF w
<1> DEFINE f(i) == IF i < n THEN i ELSE i + 1
<1>4. \A i \in 1..Len(w) : w[i] = s[f(i)] /\ f(i) \in 1..Len(s) /\ f(i) # n
  BY <1>1, <1>3
<1>5. \A i, j \in 1..Len(w) : f(i) = f(j) => i = j
  BY <1>1, <1>3
<1>6. \A i \in 1..Len(s) : i # n => \E j \in 1..Len(w) : f(j) = i
  <2>1. ASSUME NEW i \in 1..Len(s), i # n PROVE \E j \in 1..Len(w) : f(j) = i
    <3>1. CASE i < n
      BY <3>1, <1>1, <1>3
    <3>2. CASE i > n
      <4>1. i - 1 \in 1..Len(w) /\ f(i - 1) = i
        BY <3>2, <1>1, <1>3
      <4> QED BY <4>1
    <3> QED BY <3>1, <3>2, <2>1, <1>1
  <2> QED BY <2>1
<1>7. Once(w)
  <2>1. ASSUME NEW i \in 1..Len(w), NEW j \in 1..Len(w), w[i] = w[j] PROVE i = j
    <3>1. f(i) = f(j)
      BY <1>4, <2>1 DEF Once
    <3> QED BY <3>1, <1>5
  <2> QED BY <2>1 DEF Once
<1>8. ASSUME NEW x PROVE Among(x, w) <=> Among(x, s) /\ x # t
  <2>1. ASSUME NEW i \in 1..Len(w), w[i] = x PROVE Among(x, s) /\ x # t
    BY <1>1, <1>4, <2>1 DEF Among, Once
  <2>2. ASSUME NEW i \in 1..Len(s), s[i] = x, x # t PROVE Among(x, w)
    <3>1. PICK j \in 1..Len(w) : f(j) = i
      BY <1>1, <1>6, <2>2
    <3>2. w[j] = x
      BY <1>4, <2>2, <3>1
    <3> QED BY <3>2 DEF Among
  <2> QED BY <2>1, <2>2 DEF Among
<1>9. s[1] # t => w[1] = s[1]
  BY <1>1, <1>3
<1> QED BY <1>2, <1>3, <1>7, <1>8, <1>9
-----------------------------------------------------------------------------
(* The steps, one by one *)

LEMMA StepCases ==
  ASSUME [Next]_vars
  PROVE  \/ \E m \in Msgs : Arrive(m)
         \/ \E m \in Msgs : HandleStop(m)
         \/ \E m \in Msgs : HandleCommandInline(m)
         \/ \E m \in Msgs : RouteToPending(m)
         \/ \E m \in Msgs : CreateTask(m)
         \/ \E t \in Msgs : ReapStale(t)
         \/ \E t \in Msgs : StartDispatch(t)
         \/ \E t \in Msgs : CancelUnstarted(t)
         \/ \E t \in Msgs : BeginTurn(t)
         \/ \E t \in Msgs : Drain(t)
         \/ \E t \in Msgs : EndTurn(t)
         \/ \E t \in Msgs : DeliverCancel(t)
         \/ \E t \in Msgs : CancelSwallowed(t)
         \/ \E t \in Msgs : RepublishNext(t)
         \/ \E t \in Msgs : RepublishUnblocks(t)
         \/ \E t \in Msgs : RepublishDropped(t)
         \/ \E t \in Msgs : RepublishCancelled(t)
         \/ \E t \in Msgs : CleanupDone(t)
         \/ StopReturns
         \/ UNCHANGED vars
BY DEF Next, LoopStep, TaskStep

\* The number of follow-ups a Drain takes.
Taken(t) == IF Len(pending[t]) < MaxDrain THEN Len(pending[t]) ELSE MaxDrain

LEMMA DrainFacts ==
  ASSUME TypeOK, OnceInv, NEW t \in Msgs, Drain(t)
  PROVE  LET X == {pending[t][i] : i \in 1..Taken(t)}
         IN  /\ X \subseteq Msgs /\ \A x \in X : Among(x, pending[t])
             /\ injected' = [injected EXCEPT ![t] = injected[t] \cup X]
             /\ \E s \in Seq(Msgs) :
                  /\ pending' = [pending EXCEPT ![t] = s] /\ Once(s)
                  /\ \A x : Among(x, s) <=> Among(x, pending[t]) /\ x \notin X
<1> DEFINE n == Taken(t)
           X == {pending[t][i] : i \in 1..n}
           s == SubSeq(pending[t], n + 1, Len(pending[t]))
<1>1. pending[t] \in Seq(Msgs) /\ Once(pending[t])
  BY DEF TypeOK, OnceInv
<1>2. n \in Nat /\ n <= Len(pending[t])
  BY <1>1, DispatcherAssumption DEF Taken
<1>3. /\ injected' = [injected EXCEPT ![t] = injected[t] \cup X]
      /\ pending' = [pending EXCEPT ![t] = s]
  BY DEF Drain, Taken
<1> HIDE DEF n
<1>4. s \in Seq(Msgs) /\ Once(s) /\ \A x : Among(x, s) <=> Among(x, pending[t]) /\ x \notin X
  BY <1>1, <1>2, DropFacts, Zenon
<1>5. X \subseteq Msgs /\ \A x \in X : Among(x, pending[t])
  BY <1>1, <1>2 DEF Among
<1> HIDE DEF s
<1> QED BY <1>3, <1>4, <1>5 DEF n

LEMMA TypeStep ==
  ASSUME TypeOK, OnceInv, LockInv, [Next]_vars
  PROVE  TypeOK'
<1> USE DispatcherAssumption
<1>1. ASSUME NEW m \in Msgs, Arrive(m)
      PROVE  TypeOK'
  BY <1>1, AppendFacts DEF TypeOK, Arrive, turnVars, cleanupVars
<1>r. ASSUME NEW m \in Msgs, Receive(m)
      PROVE  inbox' \in Seq(Msgs)
  BY <1>r DEF TypeOK, Receive
<1>2. ASSUME NEW m \in Msgs, HandleStop(m)
      PROVE  TypeOK'
  <2>1. active[RouteKey[m]] \subseteq Msgs
    BY DEF TypeOK
  <2> QED BY <1>2, <1>r, <2>1 DEF TypeOK, HandleStop, turnVars, cleanupVars
<1>3. ASSUME NEW m \in Msgs, HandleCommandInline(m)
      PROVE  TypeOK'
  BY <1>3, <1>r DEF TypeOK, HandleCommandInline, turnVars, cleanupVars
<1>4. ASSUME NEW m \in Msgs, RouteToPending(m)
      PROVE  TypeOK'
  <2>1. PICK o \in Msgs : pending' = [pending EXCEPT ![o] = Append(pending[o], m)]
    BY <1>4 DEF TypeOK, RouteToPending, Busy
  <2>2. pending' \in [Msgs -> Seq(Msgs)]
    BY <2>1 DEF TypeOK
  <2> QED BY <1>4, <1>r, <2>2 DEF TypeOK, RouteToPending, turnVars, cleanupVars
<1>5. ASSUME NEW m \in Msgs, CreateTask(m)
      PROVE  TypeOK'
  BY <1>5, <1>r DEF TypeOK, CreateTask, TaskStates, turnVars, cleanupVars
<1>6. ASSUME NEW t \in Msgs, ReapStale(t)
      PROVE  TypeOK'
  BY <1>6 DEF TypeOK, ReapStale, turnVars, cleanupVars
<1>7. ASSUME NEW t \in Msgs, StartDispatch(t)
      PROVE  TypeOK'
  <2>1. lock' \in [Keys -> Seq(Msgs)] /\ cycles' = cycles /\ injected' = injected
    BY <1>7 DEF TypeOK, StartDispatch
  <2>2. /\ replaced' \in SUBSET Msgs /\ registered' \in [Keys -> Msgs \cup {NoMsg}]
        /\ task' \in [Msgs -> TaskStates]
    BY <1>7 DEF TypeOK, StartDispatch, TaskStates
  <2> QED BY <1>7, <2>1, <2>2 DEF TypeOK, StartDispatch, cleanupVars
<1>8. ASSUME NEW t \in Msgs, CancelUnstarted(t)
      PROVE  TypeOK'
  BY <1>8 DEF TypeOK, CancelUnstarted, Finish, TaskStates, turnVars, cleanupVars
<1>9. ASSUME NEW t \in Msgs, BeginTurn(t)
      PROVE  TypeOK'
  BY <1>9 DEF TypeOK, BeginTurn, TaskStates, turnVars, cleanupVars
<1>10. ASSUME NEW t \in Msgs, Drain(t)
       PROVE  TypeOK'
  <2>1. pending' \in [Msgs -> Seq(Msgs)] /\ injected' \in [Msgs -> SUBSET Msgs]
    <3> DEFINE X == {pending[t][i] : i \in 1..Taken(t)}
    <3>1. X \subseteq Msgs /\ injected' = [injected EXCEPT ![t] = injected[t] \cup X]
      BY <1>10, DrainFacts, Zenon
    <3>2. PICK s \in Seq(Msgs) : pending' = [pending EXCEPT ![t] = s]
      BY <1>10, DrainFacts, Zenon
    <3> HIDE DEF X
    <3> QED BY <3>1, <3>2 DEF TypeOK
  <2>2. cycles' \in [Msgs -> Nat]
    <3>1. cycles' = [cycles EXCEPT ![t] = cycles[t] + 1]
      BY <1>10, Zenon DEF Drain
    <3>2. cycles \in [Msgs -> Nat]
      BY DEF TypeOK
    <3> QED BY <3>1, <3>2
  <2> QED BY <1>10, <2>1, <2>2 DEF TypeOK, Drain, cleanupVars
<1>l. ASSUME NEW t \in Msgs, task[t] \in {"waiting", "running"}, Leave(t)
      PROVE  /\ task' \in [Msgs -> TaskStates] /\ lock' \in [Keys -> Seq(Msgs)]
             /\ taking' \in [Msgs -> Spots] /\ registered' \in [Keys -> Spots]
  <2> DEFINE k == DispatchKey[t]
  <2>1. k \in Keys /\ lock[k] \in Seq(Msgs) /\ Once(lock[k]) /\ Among(t, lock[k])
    BY <1>l DEF TypeOK, LockInv
  <2>2. Without(lock[k], t) \in Seq(Msgs)
    BY <2>1, WithoutFacts
  <2> QED BY <1>l, <2>1, <2>2 DEF TypeOK, Leave, TaskStates, Spots
<1>11. ASSUME NEW t \in Msgs, EndTurn(t)
       PROVE  TypeOK'
  BY <1>11, <1>l DEF TypeOK, EndTurn, Spots
<1>12. ASSUME NEW t \in Msgs, DeliverCancel(t)
       PROVE  TypeOK'
  BY <1>12, <1>l DEF TypeOK, DeliverCancel, Spots
<1>13. ASSUME NEW t \in Msgs, CancelSwallowed(t)
       PROVE  TypeOK'
  BY <1>13 DEF TypeOK, CancelSwallowed, turnVars
<1>14. ASSUME NEW t \in Msgs, RepublishNext(t)
       PROVE  TypeOK'
  <2>1. PICK o \in Msgs : /\ pending[o] # <<>>
                          /\ pending' = [pending EXCEPT ![o] = Tail(pending[o])]
                          /\ \/ inbox' = Append(inbox, Head(pending[o])) /\ carrying' = carrying
                             \/ /\ carrying' = [carrying EXCEPT ![t] = Head(pending[o])]
                                /\ inbox' = inbox
    BY <1>14 DEF TypeOK, RepublishNext
  <2>2. pending[o] \in Seq(Msgs) /\ Head(pending[o]) \in Msgs /\ Tail(pending[o]) \in Seq(Msgs)
    BY <2>1 DEF TypeOK
  <2>3. inbox' \in Seq(Msgs) /\ carrying' \in [Msgs -> Spots] /\ pending' \in [Msgs -> Seq(Msgs)]
    <3>1. inbox \in Seq(Msgs) /\ Append(inbox, Head(pending[o])) \in Seq(Msgs)
      BY <2>2, AppendFacts DEF TypeOK
    <3>2. carrying \in [Msgs -> Spots] /\ Head(pending[o]) \in Spots
      BY <2>2 DEF TypeOK, Spots
    <3>3. pending \in [Msgs -> Seq(Msgs)]
      BY DEF TypeOK
    <3> QED BY <2>1, <2>2, <3>1, <3>2, <3>3
  <2> QED BY <1>14, <2>3 DEF TypeOK, RepublishNext, turnVars, Spots
<1>15. ASSUME NEW t \in Msgs, RepublishUnblocks(t)
       PROVE  TypeOK'
  <2>1. inbox' \in Seq(Msgs)
    <3>1. carrying[t] \in Msgs /\ inbox \in Seq(Msgs) /\ inbox' = Append(inbox, carrying[t])
      BY <1>15 DEF TypeOK, RepublishUnblocks
    <3> QED BY <3>1
  <2>2. carrying' \in [Msgs -> Spots]
    BY <1>15 DEF TypeOK, RepublishUnblocks, Spots
  <2> QED BY <1>15, <2>1, <2>2 DEF TypeOK, RepublishUnblocks, turnVars, Spots
<1>16. ASSUME NEW t \in Msgs, RepublishDropped(t)
       PROVE  TypeOK'
  BY <1>16 DEF TypeOK, RepublishDropped, turnVars
<1>17. ASSUME NEW t \in Msgs, RepublishCancelled(t)
       PROVE  TypeOK'
  BY <1>17 DEF TypeOK, RepublishCancelled, Finish, TaskStates, turnVars
<1>18. ASSUME NEW t \in Msgs, CleanupDone(t)
       PROVE  TypeOK'
  BY <1>18 DEF TypeOK, CleanupDone, Finish, TaskStates, turnVars, cleanupVars
<1>19. CASE StopReturns \/ UNCHANGED vars
  BY <1>19 DEF TypeOK, StopReturns, vars, turnVars, cleanupVars
<1> QED BY <1>1, <1>2, <1>3, <1>4, <1>5, <1>6, <1>7, <1>8, <1>9, <1>10, <1>11, <1>12, <1>13,
           <1>14, <1>15, <1>16, <1>17, <1>18, <1>19, StepCases
-----------------------------------------------------------------------------
(* A message is in one place *)

\* The messages X move from one place to another and nothing else does.
Moves(X, a, b, c, d) ==
    \A m \in Msgs, k \in Kinds, t \in Spots :
        In(k, t, m)' <=> \/ In(k, t, m) /\ ~(k = a /\ t = b /\ m \in X)
                         \/ k = c /\ t = d /\ m \in X

LEMMA MoveKeeps ==
  ASSUME Apart, ArrivedInv, NEW X \in SUBSET Msgs,
         NEW a \in Kinds, NEW b \in Spots, NEW c \in Kinds, NEW d \in Spots,
         a # c, \A m \in X : In(a, b, m),
         Moves(X, a, b, c, d), arrived' = arrived
  PROVE  Apart' /\ ArrivedInv'
<1>1. \A m \in X, k \in Kinds, t \in Spots : In(k, t, m)' <=> k = c /\ t = d
  BY DEF Moves, Apart
<1>2. \A m \in Msgs \ X, k \in Kinds, t \in Spots : In(k, t, m)' <=> In(k, t, m)
  BY DEF Moves
<1>3. Apart'
  BY <1>1, <1>2 DEF Apart
<1>4. ArrivedInv'
  BY <1>1, <1>2 DEF ArrivedInv
<1> QED BY <1>3, <1>4

\* No message moves.
LEMMA StillKeeps ==
  ASSUME PlaceInv, TypeOK,
         inbox' = inbox, arrived' = arrived, pending' = pending, injected' = injected,
         carrying' = carrying, inlined' = inlined, dropped' = dropped,
         \A m \in Msgs : task'[m] = "none" <=> task[m] = "none"
  PROVE  PlaceInv'
<1>1. \A m \in Msgs, k \in Kinds, t \in Spots : In(k, t, m)' <=> In(k, t, m)
  BY DEF In
<1>2. Apart' /\ ArrivedInv'
  BY <1>1 DEF PlaceInv, Apart, ArrivedInv
<1> QED BY <1>2 DEF PlaceInv, OnceInv

\* run_forever takes m off the bus.
LEMMA ReceiveFacts ==
  ASSUME TypeOK, PlaceInv, NEW m \in Msgs, Receive(m)
  PROVE  /\ In("inbox", NoMsg, m) /\ Once(inbox)'
         /\ \A x : Among(x, inbox') <=> Among(x, inbox) /\ x # m
         /\ task[m] = "none" /\ \A t \in Msgs : ~Among(m, pending[t])
<1>1. /\ inbox \in Seq(Msgs) /\ inbox # <<>> /\ m = Head(inbox) /\ inbox' = Tail(inbox)
      /\ Once(inbox)
  BY DEF TypeOK, PlaceInv, OnceInv, Receive
<1>2. Among(m, inbox) /\ Once(inbox') /\ \A x : Among(x, inbox') <=> Among(x, inbox) /\ x # m
  BY <1>1, TailFacts
<1>3. In("inbox", NoMsg, m)
  BY <1>2 DEF In
<1>4. Once(inbox)'
  BY <1>2 DEF Once
<1>5. NoMsg \in Spots /\ Msgs \subseteq Spots /\ {"inbox", "task", "pending"} \subseteq Kinds
  BY DEF Spots, Kinds
<1>6. ~In("task", NoMsg, m) /\ \A t \in Msgs : ~In("pending", t, m)
  BY <1>3, <1>5, Zenon DEF PlaceInv, Apart
<1> QED BY <1>2, <1>3, <1>4, <1>6 DEF In

LEMMA PlaceStep ==
  ASSUME TypeOK, TaskInv, PlaceInv, [Next]_vars
  PROVE  PlaceInv'
<1>k. /\ NoMsg \in Spots /\ Msgs \subseteq Spots /\ NoMsg \notin Msgs
      /\ "inbox" \in Kinds /\ "pending" \in Kinds /\ "injected" \in Kinds /\ "carried" \in Kinds
      /\ "task" \in Kinds /\ "inlined" \in Kinds /\ "dropped" \in Kinds
  BY DispatcherAssumption DEF Spots, Kinds
<1>t. /\ inbox \in Seq(Msgs) /\ pending \in [Msgs -> Seq(Msgs)] /\ task \in [Msgs -> TaskStates]
      /\ injected \in [Msgs -> SUBSET Msgs] /\ carrying \in [Msgs -> Spots]
  BY DEF TypeOK, Spots
<1>p. Apart /\ ArrivedInv /\ OnceInv /\ Once(inbox) /\ \A t \in Msgs : Once(pending[t])
  BY DEF PlaceInv, OnceInv
<1>m. ASSUME NEW X \in SUBSET Msgs, NEW a \in Kinds, NEW b \in Spots, NEW c \in Kinds,
             NEW d \in Spots, a # c, \A m \in X : In(a, b, m),
             Moves(X, a, b, c, d), arrived' = arrived, OnceInv'
      PROVE  PlaceInv'
  BY <1>m, <1>p, MoveKeeps DEF PlaceInv
<1>1. ASSUME NEW m \in Msgs, Arrive(m)
      PROVE  PlaceInv'
  <2>1. /\ m \notin arrived /\ arrived' = arrived \cup {m} /\ inbox' = Append(inbox, m)
        /\ pending' = pending /\ injected' = injected /\ carrying' = carrying /\ task' = task
        /\ inlined' = inlined /\ dropped' = dropped
    BY <1>1 DEF Arrive, turnVars, cleanupVars
  <2>2. \A k \in Kinds, t \in Spots : ~In(k, t, m)
    BY <1>p, <2>1 DEF ArrivedInv
  <2>3. ~Among(m, inbox)
    BY <2>2, <1>k DEF In
  <2>4. Once(inbox') /\ \A x : Among(x, inbox') <=> Among(x, inbox) \/ x = m
    BY <1>p, <1>t, <2>1, <2>3, AppendFacts
  <2>5. \A x \in Msgs, k \in Kinds, t \in Spots :
          In(k, t, x)' <=> In(k, t, x) \/ (k = "inbox" /\ t = NoMsg /\ x = m)
    BY <2>1, <2>4 DEF In
  <2>6. Apart'
    BY <1>p, <2>2, <2>5 DEF Apart
  <2>7. ArrivedInv'
    BY <1>p, <1>k, <2>1, <2>2, <2>5 DEF ArrivedInv
  <2>8. OnceInv'
    BY <1>p, <2>1, <2>4 DEF OnceInv, Once
  <2> QED BY <2>6, <2>7, <2>8 DEF PlaceInv
<1>2. ASSUME NEW m \in Msgs, HandleStop(m) \/ HandleCommandInline(m)
      PROVE  PlaceInv'
  <2>1. /\ Receive(m) /\ inlined' = inlined \cup {m} /\ arrived' = arrived
        /\ pending' = pending /\ injected' = injected /\ carrying' = carrying /\ task' = task
        /\ dropped' = dropped
    BY <1>2 DEF HandleStop, HandleCommandInline, turnVars, cleanupVars
  <2>2. /\ In("inbox", NoMsg, m) /\ Once(inbox)'
        /\ \A x : Among(x, inbox') <=> Among(x, inbox) /\ x # m
    BY <2>1, ReceiveFacts
  <2>3. Moves({m}, "inbox", NoMsg, "inlined", NoMsg)
    BY <2>1, <2>2 DEF Moves, In
  <2>4. OnceInv'
    BY <1>p, <2>1, <2>2 DEF OnceInv, Once
  <2> QED BY <1>k, <1>m, <2>1, <2>2, <2>3, <2>4
<1>3. ASSUME NEW m \in Msgs, RouteToPending(m)
      PROVE  PlaceInv'
  <2>1. PICK o \in Msgs : pending' = [pending EXCEPT ![o] = Append(pending[o], m)]
    BY <1>3, DispatcherAssumption DEF TypeOK, RouteToPending, Busy
  <2>2. /\ Receive(m) /\ inlined' = inlined /\ arrived' = arrived
        /\ injected' = injected /\ carrying' = carrying /\ task' = task /\ dropped' = dropped
    BY <1>3 DEF RouteToPending, turnVars, cleanupVars
  <2>3. /\ In("inbox", NoMsg, m) /\ Once(inbox)' /\ ~Among(m, pending[o])
        /\ \A x : Among(x, inbox') <=> Among(x, inbox) /\ x # m
    BY <2>2, ReceiveFacts
  <2>4. /\ Once(pending'[o]) /\ \A x : Among(x, pending'[o]) <=> Among(x, pending[o]) \/ x = m
        /\ \A t \in Msgs : t # o => pending'[t] = pending[t]
    BY <1>p, <1>t, <2>1, <2>3, AppendFacts
  <2>5. Moves({m}, "inbox", NoMsg, "pending", o)
    <3> SUFFICES ASSUME NEW x \in Msgs, NEW k \in Kinds, NEW t \in Spots
                 PROVE  In(k, t, x)' <=> \/ In(k, t, x) /\ ~(k = "inbox" /\ t = NoMsg /\ x = m)
                                         \/ k = "pending" /\ t = o /\ x = m
      BY DEF Moves
    <3>1. CASE k = "pending" /\ t \in Msgs
      BY <2>4, <3>1 DEF In
    <3>2. CASE ~(k = "pending" /\ t \in Msgs)
      BY <2>2, <2>3, <3>2 DEF In
    <3> QED BY <3>1, <3>2
  <2>6. OnceInv'
    BY <1>p, <2>3, <2>4 DEF OnceInv, Once
  <2> QED BY <1>k, <1>m, <2>2, <2>3, <2>5, <2>6
<1>4. ASSUME NEW m \in Msgs, CreateTask(m)
      PROVE  PlaceInv'
  <2>1. /\ Receive(m) /\ inlined' = inlined /\ arrived' = arrived
        /\ pending' = pending /\ injected' = injected /\ carrying' = carrying
        /\ task' = [task EXCEPT ![m] = "created"] /\ dropped' = dropped
    BY <1>4 DEF CreateTask, turnVars, cleanupVars
  <2>2. /\ In("inbox", NoMsg, m) /\ Once(inbox)'
        /\ \A x : Among(x, inbox') <=> Among(x, inbox) /\ x # m
    BY <2>1, ReceiveFacts
  <2>3. Moves({m}, "inbox", NoMsg, "task", NoMsg)
    BY <1>t, <2>1, <2>2 DEF Moves, In
  <2>4. OnceInv'
    BY <1>p, <2>1, <2>2 DEF OnceInv, Once
  <2> QED BY <1>k, <1>m, <2>1, <2>2, <2>3, <2>4
<1>5. ASSUME NEW t \in Msgs, Drain(t)
      PROVE  PlaceInv'
  <2> DEFINE X == {pending[t][i] : i \in 1..Taken(t)}
  <2>1. /\ X \subseteq Msgs /\ \A x \in X : Among(x, pending[t])
        /\ injected' = [injected EXCEPT ![t] = injected[t] \cup X]
    BY <1>5, <1>p, DrainFacts, Zenon
  <2>2. PICK s \in Seq(Msgs) :
          /\ pending' = [pending EXCEPT ![t] = s] /\ Once(s)
          /\ \A x : Among(x, s) <=> Among(x, pending[t]) /\ x \notin X
    BY <1>5, <1>p, DrainFacts, Zenon
  <2> HIDE DEF X
  <2>3. /\ inbox' = inbox /\ arrived' = arrived /\ carrying' = carrying /\ task' = task
        /\ inlined' = inlined /\ dropped' = dropped
    BY <1>5 DEF Drain, cleanupVars
  <2>4. pending'[t] = s /\ \A u \in Msgs : u # t => pending'[u] = pending[u]
    BY <1>t, <2>2
  <2>5. /\ injected'[t] = injected[t] \cup X
        /\ \A u \in Msgs : u # t => injected'[u] = injected[u]
    BY <1>t, <2>1
  <2>6. Moves(X, "pending", t, "injected", t)
    <3> SUFFICES ASSUME NEW x \in Msgs, NEW k \in Kinds, NEW u \in Spots
                 PROVE  In(k, u, x)' <=> \/ In(k, u, x) /\ ~(k = "pending" /\ u = t /\ x \in X)
                                         \/ k = "injected" /\ u = t /\ x \in X
      BY DEF Moves
    <3>1. CASE k = "pending"
      BY <2>2, <2>4, <3>1 DEF In
    <3>2. CASE k = "injected"
      BY <2>5, <3>2 DEF In
    <3>3. CASE k \notin {"pending", "injected"}
      BY <2>3, <3>3 DEF In
    <3> QED BY <3>1, <3>2, <3>3
  <2>7. OnceInv'
    BY <1>p, <2>2, <2>3, <2>4 DEF OnceInv, Once
  <2>8. \A x \in X : In("pending", t, x)
    BY <2>1 DEF In
  <2> QED BY <1>k, <1>m, <2>1, <2>3, <2>6, <2>7, <2>8
<1>6. ASSUME NEW t \in Msgs, RepublishNext(t)
      PROVE  PlaceInv'
  <2> DEFINE o == taking[t]
             x == Head(pending[o])
  <2>1. /\ o \in Msgs /\ pending[o] # <<>> /\ carrying[t] = NoMsg
        /\ pending' = [pending EXCEPT ![o] = Tail(pending[o])]
        /\ \/ inbox' = Append(inbox, x) /\ carrying' = carrying
           \/ carrying' = [carrying EXCEPT ![t] = x] /\ inbox' = inbox
        /\ inlined' = inlined /\ arrived' = arrived /\ injected' = injected
        /\ task' = task /\ dropped' = dropped
    BY <1>6 DEF TypeOK, RepublishNext, turnVars
  <2>2. /\ x \in Msgs /\ Among(x, pending[o]) /\ Once(Tail(pending[o]))
        /\ \A y : Among(y, Tail(pending[o])) <=> Among(y, pending[o]) /\ y # x
    BY <1>t, <1>p, <2>1, TailFacts
  <2> HIDE DEF o, x
  <2>3. /\ pending'[o] = Tail(pending[o])
        /\ \A u \in Msgs : u # o => pending'[u] = pending[u]
    BY <1>t, <2>1
  <2>4. In("pending", o, x) /\ ~Among(x, inbox)
    <3>1. In("pending", o, x)
      BY <2>1, <2>2 DEF In
    <3>2. ~In("inbox", NoMsg, x)
      BY <1>k, <1>p, <2>1, <2>2, <3>1 DEF Apart
    <3> QED BY <3>1, <3>2 DEF In
  <2>5. CASE inbox' = Append(inbox, x) /\ carrying' = carrying
    <3>1. Once(inbox') /\ \A y : Among(y, inbox') <=> Among(y, inbox) \/ y = x
      BY <1>t, <1>p, <2>2, <2>4, <2>5, AppendFacts
    <3>2. Moves({x}, "pending", o, "inbox", NoMsg)
      <4> SUFFICES ASSUME NEW y \in Msgs, NEW k \in Kinds, NEW u \in Spots
                   PROVE  In(k, u, y)' <=> \/ In(k, u, y) /\ ~(k = "pending" /\ u = o /\ y = x)
                                           \/ k = "inbox" /\ u = NoMsg /\ y = x
        BY DEF Moves
      <4>1. CASE k = "pending"
        BY <2>2, <2>3, <4>1 DEF In
      <4>2. CASE k # "pending"
        BY <2>1, <2>5, <3>1, <4>2 DEF In
      <4> QED BY <4>1, <4>2
    <3>3. OnceInv'
      BY <1>p, <2>2, <2>3, <3>1 DEF OnceInv, Once
    <3> QED BY <1>k, <1>m, <2>1, <2>2, <2>4, <3>2, <3>3
  <2>6. CASE carrying' = [carrying EXCEPT ![t] = x] /\ inbox' = inbox
    <3>1. carrying'[t] = x /\ \A u \in Msgs : u # t => carrying'[u] = carrying[u]
      BY <1>t, <2>6
    <3>2. Moves({x}, "pending", o, "carried", t)
      <4> SUFFICES ASSUME NEW y \in Msgs, NEW k \in Kinds, NEW u \in Spots
                   PROVE  In(k, u, y)' <=> \/ In(k, u, y) /\ ~(k = "pending" /\ u = o /\ y = x)
                                           \/ k = "carried" /\ u = t /\ y = x
        BY DEF Moves
      <4>1. CASE k = "pending"
        BY <2>2, <2>3, <4>1 DEF In
      <4>2. CASE k = "carried"
        BY <1>k, <2>1, <3>1, <4>2 DEF In
      <4>3. CASE k \notin {"pending", "carried"}
        BY <2>1, <2>6, <4>3 DEF In
      <4> QED BY <4>1, <4>2, <4>3
    <3>3. OnceInv'
      BY <1>p, <2>2, <2>3, <2>6 DEF OnceInv, Once
    <3> QED BY <1>k, <1>m, <2>1, <2>2, <2>4, <3>2, <3>3
  <2> QED BY <2>1, <2>5, <2>6
<1>7. ASSUME NEW t \in Msgs, RepublishUnblocks(t)
      PROVE  PlaceInv'
  <2> DEFINE x == carrying[t]
  <2>1. /\ x \in Msgs /\ inbox' = Append(inbox, x) /\ carrying' = [carrying EXCEPT ![t] = NoMsg]
        /\ inlined' = inlined /\ arrived' = arrived /\ injected' = injected
        /\ pending' = pending /\ task' = task /\ dropped' = dropped
    BY <1>7 DEF TypeOK, RepublishUnblocks, turnVars
  <2> HIDE DEF x
  <2>2. carrying'[t] = NoMsg /\ \A u \in Msgs : u # t => carrying'[u] = carrying[u]
    BY <1>t, <2>1
  <2>3. In("carried", t, x)
    BY <2>1 DEF In, x
  <2>4. ~Among(x, inbox)
    <3>1. ~In("inbox", NoMsg, x)
      BY <1>k, <1>p, <2>1, <2>3 DEF Apart
    <3> QED BY <3>1 DEF In
  <2>5. Once(inbox') /\ \A y : Among(y, inbox') <=> Among(y, inbox) \/ y = x
    BY <1>t, <1>p, <2>1, <2>4, AppendFacts
  <2>6. Moves({x}, "carried", t, "inbox", NoMsg)
    <3> SUFFICES ASSUME NEW y \in Msgs, NEW k \in Kinds, NEW u \in Spots
                 PROVE  In(k, u, y)' <=> \/ In(k, u, y) /\ ~(k = "carried" /\ u = t /\ y = x)
                                         \/ k = "inbox" /\ u = NoMsg /\ y = x
      BY DEF Moves
    <3>1. CASE k = "carried"
      BY <1>k, <2>2, <3>1 DEF In, x
    <3>2. CASE k # "carried"
      BY <2>1, <2>5, <3>2 DEF In
    <3> QED BY <3>1, <3>2
  <2>7. OnceInv'
    BY <1>p, <2>1, <2>5 DEF OnceInv, Once
  <2> QED BY <1>k, <1>m, <2>1, <2>3, <2>6, <2>7
<1>8. ASSUME NEW t \in Msgs, RepublishDropped(t) \/ RepublishCancelled(t)
      PROVE  PlaceInv'
  <2> DEFINE x == carrying[t]
  <2>1. /\ x \in Msgs /\ dropped' = dropped \cup {x}
        /\ carrying' = [carrying EXCEPT ![t] = NoMsg]
        /\ inlined' = inlined /\ arrived' = arrived /\ injected' = injected
        /\ pending' = pending /\ inbox' = inbox
        /\ task' = task \/ task' = [task EXCEPT ![t] = "done"]
    BY <1>8 DEF TypeOK, RepublishDropped, RepublishCancelled, Finish, turnVars
  <2> HIDE DEF x
  <2>2. carrying'[t] = NoMsg /\ \A u \in Msgs : u # t => carrying'[u] = carrying[u]
    BY <1>t, <2>1
  <2>3. In("carried", t, x)
    BY <2>1 DEF In, x
  <2>4. \A y \in Msgs : task'[y] = "none" <=> task[y] = "none"
    <3>1. task[t] = "cleanup"
      BY <2>1, <1>k DEF TaskInv, x
    <3> QED BY <1>t, <2>1, <3>1
  <2>5. Moves({x}, "carried", t, "dropped", NoMsg)
    <3> SUFFICES ASSUME NEW y \in Msgs, NEW k \in Kinds, NEW u \in Spots
                 PROVE  In(k, u, y)' <=> \/ In(k, u, y) /\ ~(k = "carried" /\ u = t /\ y = x)
                                         \/ k = "dropped" /\ u = NoMsg /\ y = x
      BY DEF Moves
    <3>1. CASE k = "carried"
      BY <1>k, <2>2, <3>1 DEF In, x
    <3>2. CASE k # "carried"
      BY <2>1, <2>4, <3>2 DEF In
    <3> QED BY <3>1, <3>2
  <2>6. OnceInv'
    BY <1>p, <2>1 DEF OnceInv, Once
  <2> QED BY <1>k, <1>m, <2>1, <2>3, <2>5, <2>6
<1>9. ASSUME NEW t \in Msgs, \/ StartDispatch(t) \/ CancelUnstarted(t) \/ BeginTurn(t)
                             \/ EndTurn(t) \/ DeliverCancel(t) \/ CleanupDone(t)
      PROVE  PlaceInv'
  <2>1. /\ inbox' = inbox /\ arrived' = arrived /\ pending' = pending /\ injected' = injected
        /\ carrying' = carrying /\ inlined' = inlined /\ dropped' = dropped
        /\ task[t] # "none" /\ \E s \in TaskStates \ {"none"} : task' = [task EXCEPT ![t] = s]
    BY <1>9 DEF StartDispatch, CancelUnstarted, BeginTurn, EndTurn, DeliverCancel, CleanupDone,
                Leave, Finish, TaskStates, turnVars, cleanupVars
  <2>2. \A m \in Msgs : task'[m] = "none" <=> task[m] = "none"
    BY <1>t, <2>1
  <2> QED BY <2>1, <2>2, StillKeeps
<1>10. ASSUME NEW t \in Msgs, ReapStale(t) \/ CancelSwallowed(t)
       PROVE  PlaceInv'
  BY <1>10, StillKeeps DEF ReapStale, CancelSwallowed, turnVars, cleanupVars
<1>11. CASE StopReturns \/ UNCHANGED vars
  BY <1>11, StillKeeps DEF StopReturns, vars, turnVars, cleanupVars
<1> QED BY <1>1, <1>2, <1>3, <1>4, <1>5, <1>6, <1>7, <1>8, <1>9, <1>10, <1>11, StepCases
-----------------------------------------------------------------------------
(* The lock, the registry and the queues *)

\* How the state of a task changes, and what of the lock, the registry and the
\* popped queue goes with it.
LEMMA TaskMoves ==
  ASSUME TypeOK, PlaceInv, TaskInv, [Next]_vars
  PROVE  \/ /\ task' = task /\ lock' = lock /\ registered' = registered /\ taking' = taking
         \/ \E t \in Msgs : /\ task[t] \in {"none", "created", "cleanup"}
                            /\ \/ task[t] = "none" /\ task' = [task EXCEPT ![t] = "created"]
                               \/ task[t] # "none" /\ task' = [task EXCEPT ![t] = "done"]
                            /\ lock' = lock /\ registered' = registered /\ taking' = taking
         \/ \E t \in Msgs : StartDispatch(t)
         \/ \E t \in Msgs : BeginTurn(t)
         \/ \E t \in Msgs : /\ task[t] \in {"waiting", "running"} /\ Leave(t)
                            /\ replaced' = replaced /\ pending' = pending
                            /\ carrying' = carrying /\ injected' = injected
<1>1. ASSUME NEW m \in Msgs, CreateTask(m)
      PROVE  /\ task[m] = "none" /\ task' = [task EXCEPT ![m] = "created"]
             /\ lock' = lock /\ registered' = registered /\ taking' = taking
  <2>1. task[m] = "none"
    BY <1>1, ReceiveFacts DEF CreateTask
  <2> QED BY <1>1, <2>1 DEF CreateTask, turnVars, cleanupVars
<1>2. ASSUME NEW t \in Msgs, CancelUnstarted(t) \/ RepublishCancelled(t) \/ CleanupDone(t)
      PROVE  /\ task[t] \in {"created", "cleanup"} /\ task' = [task EXCEPT ![t] = "done"]
             /\ lock' = lock /\ registered' = registered /\ taking' = taking
  BY <1>2 DEF TaskInv, CancelUnstarted, RepublishCancelled, CleanupDone, Finish, turnVars,
              cleanupVars
<1>3. ASSUME NEW t \in Msgs, EndTurn(t) \/ DeliverCancel(t)
      PROVE  /\ task[t] \in {"waiting", "running"} /\ Leave(t)
             /\ replaced' = replaced /\ pending' = pending
             /\ carrying' = carrying /\ injected' = injected
  BY <1>3 DEF EndTurn, DeliverCancel
<1>4. ASSUME NEW t \in Msgs, \/ Arrive(t) \/ HandleStop(t) \/ HandleCommandInline(t)
                             \/ RouteToPending(t) \/ ReapStale(t) \/ Drain(t)
                             \/ CancelSwallowed(t) \/ RepublishNext(t) \/ RepublishUnblocks(t)
                             \/ RepublishDropped(t)
      PROVE  task' = task /\ lock' = lock /\ registered' = registered /\ taking' = taking
  BY <1>4 DEF Arrive, HandleStop, HandleCommandInline, RouteToPending, ReapStale, Drain,
              CancelSwallowed, RepublishNext, RepublishUnblocks, RepublishDropped, turnVars,
              cleanupVars
<1>5. CASE StopReturns \/ UNCHANGED vars
  BY <1>5 DEF StopReturns, vars, turnVars, cleanupVars
<1> QED BY <1>1, <1>2, <1>3, <1>4, <1>5, StepCases

\* The parts of LockInv, for one row.
RowInv(k) ==
    /\ Once(lock[k])
    /\ \A x : Among(x, lock[k]) <=>
         x \in Msgs /\ task[x] \in {"waiting", "running"} /\ DispatchKey[x] = k
    /\ \A x \in Msgs : task[x] = "running" /\ DispatchKey[x] = k => lock[k][1] = x

LEMMA LockRows ==
  ASSUME TypeOK, LockInv
  PROVE  \A k \in Keys : RowInv(k)
<1>0. \A k \in Keys : lock[k] \in Seq(Msgs)
  BY DEF TypeOK
<1>1. \A k \in Keys : \A i : i \in 1..Len(lock[k]) => lock[k][i] \in Msgs
  BY <1>0
<1>2. \A t \in Msgs : DispatchKey[t] \in Keys
  BY DispatcherAssumption
<1> QED BY <1>1, <1>2 DEF LockInv, RowInv, Among

LEMMA LockStep ==
  ASSUME TypeOK, TypeOK', PlaceInv, TaskInv, LockInv, [Next]_vars
  PROVE  LockInv'
<1> SUFFICES ASSUME NEW k \in Keys PROVE RowInv(k)'
  <2> SUFFICES ASSUME \A k \in Keys : RowInv(k)' PROVE LockInv'
    OBVIOUS
  <2>1. \A k \in Keys : \A i : i \in 1..Len(lock'[k]) => lock'[k][i] \in Msgs
    BY DEF TypeOK
  <2>2. \A t \in Msgs : DispatchKey[t] \in Keys
    BY DispatcherAssumption
  <2> QED BY <2>1, <2>2 DEF LockInv, RowInv, Among
<1>0. /\ task \in [Msgs -> TaskStates] /\ lock \in [Keys -> Seq(Msgs)] /\ RowInv(k)
      /\ \A t \in Msgs : DispatchKey[t] \in Keys
  BY LockRows, DispatcherAssumption DEF TypeOK
<1>1. CASE task' = task /\ lock' = lock
  BY <1>0, <1>1 DEF RowInv, Once
<1>2. ASSUME NEW t \in Msgs, task[t] \in {"none", "created", "cleanup"}, lock' = lock,
             NEW s \in {"created", "done"}, task' = [task EXCEPT ![t] = s]
      PROVE  RowInv(k)'
  BY <1>0, <1>2 DEF RowInv, Once
<1>3. ASSUME NEW t \in Msgs, StartDispatch(t)
      PROVE  RowInv(k)'
  <2>1. /\ task[t] = "created" /\ task' = [task EXCEPT ![t] = "waiting"]
        /\ lock' = [lock EXCEPT ![DispatchKey[t]] = Append(lock[DispatchKey[t]], t)]
    BY <1>3 DEF StartDispatch
  <2>2. CASE k # DispatchKey[t]
    <3>1. lock'[k] = lock[k]
      BY <1>0, <2>1, <2>2
    <3> QED BY <1>0, <2>1, <2>2, <3>1 DEF RowInv, Once
  <2>3. CASE k = DispatchKey[t]
    <3>1. lock'[k] = Append(lock[k], t) /\ lock[k] \in Seq(Msgs)
      BY <1>0, <2>1, <2>3
    <3>2. ~Among(t, lock[k])
      BY <1>0, <2>1 DEF RowInv
    <3>3. Once(lock'[k]) /\ \A x : Among(x, lock'[k]) <=> Among(x, lock[k]) \/ x = t
      BY <1>0, <3>1, <3>2, AppendFacts DEF RowInv
    <3>4. ASSUME NEW x \in Msgs, task'[x] = "running", DispatchKey[x] = k
          PROVE  lock'[k][1] = x
      <4>1. task[x] = "running"
        BY <1>0, <2>1, <3>4
      <4>2. Among(x, lock[k]) /\ lock[k][1] = x
        BY <1>0, <3>4, <4>1 DEF RowInv
      <4>3. 1 \in 1..Len(lock[k])
        BY <3>1, <4>2 DEF Among
      <4> QED BY <3>1, <4>2, <4>3
    <3>5. \A x : Among(x, lock'[k]) <=>
                   x \in Msgs /\ task'[x] \in {"waiting", "running"} /\ DispatchKey[x] = k
      BY <1>0, <2>1, <2>3, <3>3 DEF RowInv
    <3> QED BY <3>3, <3>4, <3>5 DEF RowInv, Once
  <2> QED BY <2>2, <2>3
<1>4. ASSUME NEW t \in Msgs, BeginTurn(t)
      PROVE  RowInv(k)'
  <2>1. /\ task[t] = "waiting" /\ task' = [task EXCEPT ![t] = "running"] /\ lock' = lock
        /\ Head(lock[DispatchKey[t]]) = t
    BY <1>4 DEF BeginTurn, turnVars
  <2>2. DispatchKey[t] = k => lock[k][1] = t
    <3>1. DispatchKey[t] = k => Among(t, lock[k])
      BY <1>0, <2>1 DEF RowInv
    <3>2. lock[k] \in Seq(Msgs)
      BY <1>0
    <3> QED BY <2>1, <3>1, <3>2 DEF Among
  <2>3. \A x : Among(x, lock[k]) <=>
                 x \in Msgs /\ task'[x] \in {"waiting", "running"} /\ DispatchKey[x] = k
    BY <1>0, <2>1 DEF RowInv
  <2>4. ASSUME NEW x \in Msgs, task'[x] = "running", DispatchKey[x] = k
        PROVE  lock[k][1] = x
    BY <1>0, <2>1, <2>2, <2>4 DEF RowInv
  <2> QED BY <1>0, <2>1, <2>3, <2>4 DEF RowInv, Once
<1>5. ASSUME NEW t \in Msgs, task[t] \in {"waiting", "running"}, Leave(t)
      PROVE  RowInv(k)'
  <2>1. /\ task' = [task EXCEPT ![t] = "cleanup"]
        /\ lock' = [lock EXCEPT ![DispatchKey[t]] = Without(lock[DispatchKey[t]], t)]
    BY <1>5 DEF Leave
  <2>2. CASE k # DispatchKey[t]
    <3>1. lock'[k] = lock[k]
      BY <1>0, <2>1, <2>2
    <3> QED BY <1>0, <2>1, <2>2, <3>1 DEF RowInv, Once
  <2>3. CASE k = DispatchKey[t]
    <3>1. lock'[k] = Without(lock[k], t) /\ lock[k] \in Seq(Msgs)
      BY <1>0, <2>1, <2>3
    <3>2. Among(t, lock[k]) /\ Once(lock[k])
      BY <1>0, <1>5, <2>3 DEF RowInv
    <3>3. /\ Once(lock'[k]) /\ \A x : Among(x, lock'[k]) <=> Among(x, lock[k]) /\ x # t
          /\ lock[k][1] # t => lock'[k][1] = lock[k][1]
      BY <3>1, <3>2, WithoutFacts
    <3>4. ASSUME NEW x \in Msgs, task'[x] = "running", DispatchKey[x] = k
          PROVE  lock'[k][1] = x
      <4>1. task[x] = "running" /\ x # t
        BY <1>0, <2>1, <3>4
      <4> QED BY <1>0, <3>3, <3>4, <4>1 DEF RowInv
    <3>5. \A x : Among(x, lock'[k]) <=>
                   x \in Msgs /\ task'[x] \in {"waiting", "running"} /\ DispatchKey[x] = k
      BY <1>0, <2>1, <2>3, <3>3 DEF RowInv
    <3> QED BY <3>3, <3>4, <3>5 DEF RowInv, Once
  <2> QED BY <2>2, <2>3
<1> QED BY <1>1, <1>2, <1>3, <1>4, <1>5, TaskMoves
LEMMA RegisteredStep ==
  ASSUME TypeOK, PlaceInv, TaskInv, RegisteredQueueIsLive, [Next]_vars
  PROVE  RegisteredQueueIsLive'
<1> SUFFICES ASSUME NEW k \in Keys, registered'[k] # NoMsg
             PROVE  /\ task'[registered'[k]] \in {"waiting", "running"}
                    /\ DispatchKey[registered'[k]] = k
  BY DEF RegisteredQueueIsLive
<1>0. /\ task \in [Msgs -> TaskStates] /\ registered \in [Keys -> Spots]
      /\ registered[k] # NoMsg =>
           /\ registered[k] \in Msgs /\ DispatchKey[registered[k]] = k
           /\ task[registered[k]] \in {"waiting", "running"}
      /\ \A t \in Msgs : DispatchKey[t] \in Keys
  BY DispatcherAssumption DEF TypeOK, RegisteredQueueIsLive, Spots
<1>1. CASE task' = task /\ registered' = registered
  BY <1>0, <1>1
<1>2. ASSUME NEW t \in Msgs, task[t] \in {"none", "created", "cleanup"}, registered' = registered,
             NEW s \in {"created", "done"}, task' = [task EXCEPT ![t] = s]
      PROVE  /\ task'[registered'[k]] \in {"waiting", "running"}
             /\ DispatchKey[registered'[k]] = k
  BY <1>0, <1>2
<1>3. ASSUME NEW t \in Msgs, StartDispatch(t)
      PROVE  /\ task'[registered'[k]] \in {"waiting", "running"}
             /\ DispatchKey[registered'[k]] = k
  BY <1>0, <1>3 DEF StartDispatch
<1>4. ASSUME NEW t \in Msgs, BeginTurn(t)
      PROVE  /\ task'[registered'[k]] \in {"waiting", "running"}
             /\ DispatchKey[registered'[k]] = k
  BY <1>0, <1>4 DEF BeginTurn
<1>5. ASSUME NEW t \in Msgs, Leave(t)
      PROVE  /\ task'[registered'[k]] \in {"waiting", "running"}
             /\ DispatchKey[registered'[k]] = k
  BY <1>0, <1>5 DEF Leave
<1> QED BY <1>1, <1>2, <1>3, <1>4, <1>5, TaskMoves

\* How the pending queues change.
LEMMA QueueMoves ==
  ASSUME TypeOK, PlaceInv, [Next]_vars
  PROVE  \/ pending' = pending /\ injected' = injected
         \/ \E m \in Msgs, o \in Msgs :
              /\ o = registered[RouteKey[m]] /\ injected' = injected
              /\ pending' = [pending EXCEPT ![o] = Append(pending[o], m)]
              /\ UNCHANGED <<task, registered, taking, carrying, replaced>>
         \/ \E t \in Msgs : Drain(t)
         \/ \E o \in Msgs :
              /\ pending[o] # <<>> /\ injected' = injected
              /\ pending' = [pending EXCEPT ![o] = Tail(pending[o])]
<1>1. ASSUME NEW m \in Msgs, RouteToPending(m)
      PROVE  /\ registered[RouteKey[m]] \in Msgs /\ injected' = injected
             /\ pending' = [pending EXCEPT ![registered[RouteKey[m]]] =
                              Append(pending[registered[RouteKey[m]]], m)]
             /\ UNCHANGED <<task, registered, taking, carrying, replaced>>
  BY <1>1, DispatcherAssumption DEF TypeOK, RouteToPending, Busy, turnVars, cleanupVars
<1>2. ASSUME NEW t \in Msgs, RepublishNext(t)
      PROVE  /\ taking[t] \in Msgs /\ pending[taking[t]] # <<>> /\ injected' = injected
             /\ pending' = [pending EXCEPT ![taking[t]] = Tail(pending[taking[t]])]
  BY <1>2 DEF TypeOK, RepublishNext, turnVars
<1>3. ASSUME NEW t \in Msgs, \/ Arrive(t) \/ HandleStop(t) \/ HandleCommandInline(t)
                             \/ CreateTask(t) \/ ReapStale(t) \/ StartDispatch(t)
                             \/ CancelUnstarted(t) \/ BeginTurn(t) \/ EndTurn(t)
                             \/ DeliverCancel(t) \/ CancelSwallowed(t) \/ RepublishUnblocks(t)
                             \/ RepublishDropped(t) \/ RepublishCancelled(t) \/ CleanupDone(t)
      PROVE  pending' = pending /\ injected' = injected
  BY <1>3 DEF Arrive, HandleStop, HandleCommandInline, CreateTask, ReapStale, StartDispatch,
              CancelUnstarted, BeginTurn, EndTurn, DeliverCancel, CancelSwallowed,
              RepublishUnblocks, RepublishDropped, RepublishCancelled, CleanupDone, turnVars
<1>4. CASE StopReturns \/ UNCHANGED vars
  BY <1>4 DEF StopReturns, vars, turnVars
<1> QED BY <1>1, <1>2, <1>3, <1>4, StepCases

LEMMA SessionStep ==
  ASSUME TypeOK, PlaceInv, RegisteredQueueIsLive, PendingInOwnSession, InjectedInOwnSession,
         [Next]_vars
  PROVE  PendingInOwnSession' /\ InjectedInOwnSession'
<1> DEFINE Own(t, s) == \A x : Among(x, s) => RouteKey[x] = DispatchKey[t]
<1>0. /\ pending \in [Msgs -> Seq(Msgs)] /\ injected \in [Msgs -> SUBSET Msgs]
      /\ \A t \in Msgs : Own(t, pending[t]) /\ Once(pending[t])
      /\ \A t \in Msgs : \A x \in injected[t] : RouteKey[x] = DispatchKey[t]
  BY DEF TypeOK, PlaceInv, OnceInv, PendingInOwnSession, InjectedInOwnSession, Among
<1> SUFFICES ASSUME NEW t \in Msgs
             PROVE  /\ Own(t, pending'[t])
                    /\ \A x \in injected'[t] : RouteKey[x] = DispatchKey[t]
  BY DEF PendingInOwnSession, InjectedInOwnSession, Among
<1>1. CASE pending' = pending /\ injected' = injected
  BY <1>0, <1>1
<1>2. ASSUME NEW m \in Msgs, NEW o \in Msgs, o = registered[RouteKey[m]], injected' = injected,
             pending' = [pending EXCEPT ![o] = Append(pending[o], m)]
      PROVE  /\ Own(t, pending'[t])
             /\ \A x \in injected'[t] : RouteKey[x] = DispatchKey[t]
  <2>1. DispatchKey[o] = RouteKey[m]
    BY <1>2, DispatcherAssumption DEF RegisteredQueueIsLive
  <2>2. \A x : Among(x, Append(pending[o], m)) => Among(x, pending[o]) \/ x = m
    BY <1>0, AppendFacts
  <2>3. Own(o, Append(pending[o], m))
    BY <1>0, <2>1, <2>2
  <2>4. pending'[t] = IF t = o THEN Append(pending[o], m) ELSE pending[t]
    BY <1>0, <1>2
  <2> QED BY <1>0, <1>2, <2>3, <2>4
<1>3. ASSUME NEW u \in Msgs, Drain(u)
      PROVE  /\ Own(t, pending'[t])
             /\ \A x \in injected'[t] : RouteKey[x] = DispatchKey[t]
  <2> DEFINE X == {pending[u][i] : i \in 1..Taken(u)}
  <2>1. OnceInv
    BY DEF PlaceInv
  <2>2. /\ \A x \in X : Among(x, pending[u])
        /\ injected' = [injected EXCEPT ![u] = injected[u] \cup X]
    BY <1>3, <2>1, DrainFacts, Zenon
  <2>3. PICK s \in Seq(Msgs) :
          /\ pending' = [pending EXCEPT ![u] = s]
          /\ \A x : Among(x, s) <=> Among(x, pending[u]) /\ x \notin X
    BY <1>3, <2>1, DrainFacts, Zenon
  <2> HIDE DEF X
  <2>4. Own(u, s) /\ \A x \in X : RouteKey[x] = DispatchKey[u]
    BY <1>0, <2>2, <2>3
  <2>5. /\ pending'[t] = IF t = u THEN s ELSE pending[t]
        /\ injected'[t] = IF t = u THEN injected[t] \cup X ELSE injected[t]
    BY <1>0, <2>2, <2>3
  <2> QED BY <1>0, <2>4, <2>5
<1>4. ASSUME NEW o \in Msgs, pending[o] # <<>>, injected' = injected,
             pending' = [pending EXCEPT ![o] = Tail(pending[o])]
      PROVE  /\ Own(t, pending'[t])
             /\ \A x \in injected'[t] : RouteKey[x] = DispatchKey[t]
  <2>1. Own(o, Tail(pending[o]))
    BY <1>0, <1>4, TailFacts
  <2>2. pending'[t] = IF t = o THEN Tail(pending[o]) ELSE pending[t]
    BY <1>0, <1>4
  <2> QED BY <1>0, <1>4, <2>1, <2>2
<1> QED BY <1>1, <1>2, <1>3, <1>4, QueueMoves
\* Somebody else answers, or answered, for t's queue.
Replaced(t) == t \in replaced \/ \E u \in Msgs : taking[u] = t

TaskOf(t) ==
    /\ task[t] \in {"none", "created"} => pending[t] = <<>>
    /\ task[t] \in {"none", "created", "waiting", "running"} => taking[t] = NoMsg
    /\ carrying[t] # NoMsg => task[t] = "cleanup"
    /\ task[t] \in {"waiting", "running"} => registered[DispatchKey[t]] = t \/ Replaced(t)
    /\ task[t] \in {"cleanup", "done"} => pending[t] = <<>> \/ Replaced(t)

LEMMA TaskInvStep ==
  ASSUME TypeOK, PlaceInv, TaskInv, RegisteredQueueIsLive, [Next]_vars
  PROVE  TaskInv'
<1>i. \A t \in Msgs : TaskOf(t)
  BY DEF TaskInv, TaskOf, Replaced
<1> SUFFICES ASSUME NEW t \in Msgs PROVE TaskOf(t)'
  BY DEF TaskInv, TaskOf, Replaced
<1>0. /\ task \in [Msgs -> TaskStates] /\ registered \in [Keys -> Spots]
      /\ taking \in [Msgs -> Spots] /\ carrying \in [Msgs -> Spots]
      /\ pending \in [Msgs -> Seq(Msgs)]
      /\ \A u \in Msgs : DispatchKey[u] \in Keys
      /\ NoMsg \notin Msgs /\ TaskOf(t)
  BY <1>i, DispatcherAssumption DEF TypeOK, Spots
<1>r. ASSUME replaced \subseteq replaced', taking' = taking, Replaced(t)
      PROVE  Replaced(t)'
  BY <1>r DEF Replaced
\* Nothing about t changes, except that its queue may shrink.
<1>s. ASSUME task'[t] = task[t], taking' = taking, carrying'[t] = carrying[t],
             registered' = registered, replaced \subseteq replaced',
             pending'[t] = <<>> \/ pending[t] # <<>>
      PROVE  TaskOf(t)'
  BY <1>0, <1>r, <1>s DEF TaskOf
<1>1. ASSUME NEW m \in Msgs, Arrive(m) \/ HandleStop(m) \/ HandleCommandInline(m) \/ ReapStale(m)
                             \/ CancelSwallowed(m)
      PROVE  TaskOf(t)'
  BY <1>0, <1>1, <1>s DEF Arrive, HandleStop, HandleCommandInline, ReapStale, CancelSwallowed,
                          turnVars, cleanupVars
<1>2. ASSUME NEW m \in Msgs, RouteToPending(m)
      PROVE  TaskOf(t)'
  <2> DEFINE o == registered[RouteKey[m]]
  <2>1. /\ o \in Msgs /\ pending' = [pending EXCEPT ![o] = Append(pending[o], m)]
        /\ UNCHANGED <<task, registered, taking, carrying, replaced>>
        /\ task[o] \in {"waiting", "running"}
    BY <1>2, DispatcherAssumption
       DEF TypeOK, RouteToPending, Busy, turnVars, cleanupVars, RegisteredQueueIsLive
  <2> HIDE DEF o
  <2>2. CASE t = o
    BY <1>0, <1>r, <2>1, <2>2 DEF TaskOf
  <2>3. CASE t # o
    <3>1. pending'[t] = pending[t]
      BY <1>0, <2>1, <2>3
    <3> QED BY <1>s, <2>1, <3>1
  <2> QED BY <2>2, <2>3
<1>3. ASSUME NEW m \in Msgs, CreateTask(m)
      PROVE  TaskOf(t)'
  <2>1. task[m] = "none" /\ task' = [task EXCEPT ![m] = "created"]
    BY <1>3, ReceiveFacts DEF CreateTask
  <2>2. UNCHANGED <<pending, registered, taking, carrying, replaced>>
    BY <1>3 DEF CreateTask, cleanupVars
  <2> QED BY <1>0, <1>r, <2>1, <2>2 DEF TaskOf
<1>4. ASSUME NEW u \in Msgs, StartDispatch(u)
      PROVE  TaskOf(t)'
  <2>1. /\ task[u] = "created" /\ task' = [task EXCEPT ![u] = "waiting"]
        /\ replaced' = replaced \cup ({registered[DispatchKey[u]]} \ {NoMsg})
        /\ registered' = [registered EXCEPT ![DispatchKey[u]] = u]
        /\ UNCHANGED <<pending, taking, carrying>>
    BY <1>4 DEF StartDispatch, cleanupVars
  <2>2. registered[DispatchKey[t]] = t => registered'[DispatchKey[t]] = t \/ t \in replaced'
    BY <1>0, <2>1
  <2>3. Replaced(t) => Replaced(t)'
    BY <1>r, <2>1
  <2>4. t \in replaced' => Replaced(t)'
    BY DEF Replaced
  <2>5. CASE t = u
    <3>1. task'[t] = "waiting" /\ registered'[DispatchKey[t]] = t
      BY <1>0, <2>1, <2>5
    <3> QED BY <1>0, <2>1, <2>5, <3>1 DEF TaskOf
  <2>6. CASE t # u
    <3>1. task'[t] = task[t]
      BY <1>0, <2>1, <2>6
    <3> QED BY <1>0, <2>1, <2>2, <2>3, <2>4, <3>1 DEF TaskOf
  <2> QED BY <2>5, <2>6
<1>5. ASSUME NEW u \in Msgs, BeginTurn(u)
      PROVE  TaskOf(t)'
  BY <1>0, <1>r, <1>5 DEF TaskOf, BeginTurn, cleanupVars
<1>6. ASSUME NEW u \in Msgs, Drain(u)
      PROVE  TaskOf(t)'
  <2>1. UNCHANGED <<task, registered, taking, carrying, replaced>> /\ pending[u] # <<>>
    BY <1>6 DEF Drain, cleanupVars
  <2>2. OnceInv
    BY DEF PlaceInv
  <2>3. PICK s \in Seq(Msgs) : pending' = [pending EXCEPT ![u] = s]
    BY <1>6, <2>2, DrainFacts, Zenon
  <2>4. pending'[t] = <<>> \/ pending[t] # <<>>
    BY <1>0, <2>1, <2>3
  <2> QED BY <1>s, <2>1, <2>4
<1>7. ASSUME NEW u \in Msgs, CancelUnstarted(u)
      PROVE  TaskOf(t)'
  BY <1>0, <1>r, <1>7 DEF TaskOf, CancelUnstarted, Finish, cleanupVars
<1>8. ASSUME NEW u \in Msgs, task[u] \in {"waiting", "running"}, Leave(u),
             replaced' = replaced, pending' = pending, carrying' = carrying
      PROVE  TaskOf(t)'
  <2> DEFINE k == DispatchKey[u]
  <2>1. /\ task' = [task EXCEPT ![u] = "cleanup"]
        /\ taking' = [taking EXCEPT ![u] = registered[k]]
        /\ registered' = [registered EXCEPT ![k] = NoMsg]
    BY <1>8 DEF Leave
  <2>2. taking[u] = NoMsg
    BY <1>8, <1>i DEF TaskOf
  <2>3. Replaced(t) => Replaced(t)'
    <3>1. \A v \in Msgs : taking[v] = t => taking'[v] = t
      BY <1>0, <2>1, <2>2
    <3> QED BY <1>8, <3>1 DEF Replaced
  <2>4. registered[DispatchKey[t]] = t => registered'[DispatchKey[t]] = t \/ Replaced(t)'
    <3>1. CASE DispatchKey[t] = k
      <4>1. taking'[u] = registered[k]
        BY <1>0, <2>1
      <4> QED BY <3>1, <4>1 DEF Replaced
    <3>2. CASE DispatchKey[t] # k
      BY <1>0, <2>1, <3>2
    <3> QED BY <3>1, <3>2
  <2>5. CASE t = u
    <3>1. registered'[k] = NoMsg
      BY <1>0, <2>1
    <3>2. Replaced(t)'
      BY <1>0, <1>8, <2>3, <2>4, <2>5, <3>1 DEF TaskOf
    <3>3. task'[t] = "cleanup"
      BY <1>0, <2>1, <2>5
    <3> QED BY <3>2, <3>3, <1>8 DEF TaskOf
  <2>6. CASE t # u
    <3>1. task'[t] = task[t] /\ taking'[t] = taking[t]
      BY <1>0, <2>1, <2>6
    <3> QED BY <1>0, <1>8, <2>3, <2>4, <3>1 DEF TaskOf
  <2> QED BY <2>5, <2>6
<1>9. ASSUME NEW u \in Msgs, EndTurn(u) \/ DeliverCancel(u)
      PROVE  TaskOf(t)'
  BY <1>8, <1>9 DEF EndTurn, DeliverCancel
<1>10. ASSUME NEW u \in Msgs, RepublishNext(u)
       PROVE  TaskOf(t)'
  <2> DEFINE o == taking[u]
  <2>1. /\ o \in Msgs /\ pending[o] # <<>> /\ task[u] = "cleanup"
        /\ pending' = [pending EXCEPT ![o] = Tail(pending[o])]
        /\ carrying' = carrying \/ carrying' = [carrying EXCEPT ![u] = Head(pending[o])]
        /\ UNCHANGED <<task, registered, taking, replaced>>
    BY <1>10 DEF TypeOK, RepublishNext
  <2> HIDE DEF o
  <2>2. pending'[t] = <<>> \/ pending[t] # <<>>
    BY <1>0, <2>1
  <2>3. carrying'[t] = carrying[t] \/ task[t] = "cleanup"
    BY <1>0, <2>1
  <2> QED BY <1>0, <1>r, <2>1, <2>2, <2>3 DEF TaskOf
<1>11. ASSUME NEW u \in Msgs, RepublishUnblocks(u) \/ RepublishDropped(u)
       PROVE  TaskOf(t)'
  <2>1. /\ carrying' = [carrying EXCEPT ![u] = NoMsg]
        /\ UNCHANGED <<task, pending, registered, taking, replaced>>
    BY <1>11 DEF RepublishUnblocks, RepublishDropped
  <2> QED BY <1>0, <1>r, <2>1 DEF TaskOf
<1>12. ASSUME NEW u \in Msgs, RepublishCancelled(u) \/ CleanupDone(u)
       PROVE  TaskOf(t)'
  <2>1. /\ task[u] = "cleanup" /\ task' = [task EXCEPT ![u] = "done"]
        /\ UNCHANGED <<pending, registered, taking, replaced>>
        /\ \/ carrying' = [carrying EXCEPT ![u] = NoMsg]
           \/ carrying[u] = NoMsg /\ carrying' = carrying
    BY <1>12, <1>i DEF TaskOf, RepublishCancelled, CleanupDone, Finish, cleanupVars
  <2>2. CASE t = u
    BY <1>0, <1>r, <2>1, <2>2 DEF TaskOf
  <2>3. CASE t # u
    BY <1>0, <1>s, <2>1, <2>3
  <2> QED BY <2>2, <2>3
<1>13. CASE StopReturns \/ UNCHANGED vars
  BY <1>0, <1>13, <1>s DEF StopReturns, vars, cleanupVars
<1> QED BY <1>1, <1>2, <1>3, <1>4, <1>5, <1>6, <1>7, <1>9, <1>10, <1>11, <1>12, <1>13, StepCases
-----------------------------------------------------------------------------
LEMMA PopStep ==
  ASSUME TypeOK, PlaceInv, TaskInv, PopInv, RegisteredQueueIsLive, [Next]_vars
  PROVE  PopInv'
<1> SUFFICES ASSUME NEW u \in Msgs PROVE Popped(u)'
  BY DEF PopInv
<1>0. /\ task \in [Msgs -> TaskStates] /\ registered \in [Keys -> Spots]
      /\ taking \in [Msgs -> Spots] /\ pending \in [Msgs -> Seq(Msgs)]
      /\ cutShort \in SUBSET Msgs
      /\ \A t \in Msgs : DispatchKey[t] \in Keys
      /\ NoMsg \notin Msgs
      /\ \A t \in Msgs : Popped(t)
      /\ \A t \in Msgs : taking[t] # NoMsg => taking[t] \in Msgs
      /\ \A t \in Msgs : task[t] \in {"none", "created", "waiting", "running"}
                            => taking[t] = NoMsg
  BY DispatcherAssumption DEF TypeOK, Spots, PopInv, TaskInv
\* Nothing popped changes, except that the queue may shrink.
<1>s. ASSUME taking'[u] = taking[u], registered' = registered,
             task'[u] = task[u], cutShort \subseteq cutShort',
             \A t \in Msgs : /\ task[t] \notin {"none", "created"}
                                 => task'[t] \notin {"none", "created"}
                             /\ pending[t] = <<>> => pending'[t] = <<>>
      PROVE  Popped(u)'
  <2> SUFFICES ASSUME taking[u] # NoMsg PROVE Popped(u)'
    BY <1>s DEF Popped
  <2>1. PICK o \in Msgs : o = taking[u] /\ o = taking'[u]
    BY <1>0, <1>s
  <2>2. /\ task[o] \notin {"none", "created"}
        /\ \A k \in Keys : registered[k] # o
        /\ task[u] = "done" => pending[o] = <<>> \/ o \in cutShort
    BY <1>0, <2>1 DEF Popped
  <2>3. task'[o] \notin {"none", "created"}
    BY <1>s, <2>2, Zenon
  <2>4. pending[o] = <<>> => pending'[o] = <<>>
    BY <1>s, Zenon
  <2> QED BY <1>s, <2>1, <2>2, <2>3, <2>4 DEF Popped
<1>1. ASSUME NEW m \in Msgs, Arrive(m) \/ HandleStop(m) \/ HandleCommandInline(m) \/ ReapStale(m)
                             \/ CancelSwallowed(m)
      PROVE  Popped(u)'
  BY <1>0, <1>1, <1>s DEF Arrive, HandleStop, HandleCommandInline, ReapStale, CancelSwallowed,
                          turnVars, cleanupVars
<1>2. ASSUME NEW m \in Msgs, RouteToPending(m)
      PROVE  Popped(u)'
  <2> DEFINE o == registered[RouteKey[m]]
  <2>1. /\ o \in Msgs /\ pending' = [pending EXCEPT ![o] = Append(pending[o], m)]
        /\ UNCHANGED <<task, registered, taking, cutShort>>
        /\ RouteKey[m] \in Keys
    BY <1>2, DispatcherAssumption
       DEF TypeOK, RouteToPending, Busy, turnVars, cleanupVars
  <2>2. taking[u] # NoMsg => taking[u] # o
    BY <1>0, <2>1 DEF Popped
  <2> HIDE DEF o
  <2>3. taking[u] # NoMsg => pending'[taking[u]] = pending[taking[u]]
    BY <1>0, <2>1, <2>2
  <2> QED BY <1>0, <2>1, <2>3 DEF Popped
<1>3. ASSUME NEW m \in Msgs, CreateTask(m)
      PROVE  Popped(u)'
  <2>1. task[m] = "none" /\ task' = [task EXCEPT ![m] = "created"]
    BY <1>3, ReceiveFacts DEF CreateTask
  <2>2. UNCHANGED <<pending, registered, taking, cutShort>>
    BY <1>3 DEF CreateTask, cleanupVars
  <2> QED BY <1>0, <2>1, <2>2 DEF Popped
<1>4. ASSUME NEW t \in Msgs, StartDispatch(t)
      PROVE  Popped(u)'
  <2>1. /\ task[t] = "created" /\ task' = [task EXCEPT ![t] = "waiting"]
        /\ registered' = [registered EXCEPT ![DispatchKey[t]] = t]
        /\ UNCHANGED <<pending, taking, cutShort>>
    BY <1>4 DEF StartDispatch, cleanupVars
  <2>2. taking[u] # NoMsg => taking[u] # t
    BY <1>0, <2>1 DEF Popped
  <2> QED BY <1>0, <2>1, <2>2 DEF Popped
<1>5. ASSUME NEW t \in Msgs, BeginTurn(t)
      PROVE  Popped(u)'
  BY <1>0, <1>5 DEF Popped, BeginTurn, cleanupVars
<1>6. ASSUME NEW t \in Msgs, Drain(t)
      PROVE  Popped(u)'
  <2>1. UNCHANGED <<task, registered, taking, cutShort>> /\ pending[t] # <<>>
    BY <1>6 DEF Drain, cleanupVars
  <2>2. PICK s \in Seq(Msgs) : pending' = [pending EXCEPT ![t] = s]
    BY <1>6, DrainFacts, Zenon DEF PlaceInv
  <2> QED BY <1>0, <1>s, <2>1, <2>2
<1>7. ASSUME NEW t \in Msgs, CancelUnstarted(t)
      PROVE  Popped(u)'
  <2>1. /\ task[t] = "created" /\ task' = [task EXCEPT ![t] = "done"]
        /\ UNCHANGED <<pending, registered, taking, cutShort>>
    BY <1>7 DEF CancelUnstarted, Finish, cleanupVars
  <2> QED BY <1>0, <2>1 DEF Popped
<1>8. ASSUME NEW t \in Msgs, EndTurn(t) \/ DeliverCancel(t)
      PROVE  Popped(u)'
  <2> DEFINE k == DispatchKey[t]
  <2>1. /\ task' = [task EXCEPT ![t] = "cleanup"]
        /\ taking' = [taking EXCEPT ![t] = registered[k]]
        /\ registered' = [registered EXCEPT ![k] = NoMsg]
        /\ UNCHANGED <<pending, cutShort>>
    BY <1>8 DEF EndTurn, DeliverCancel, Leave
  <2>2. CASE u = t
    <3>1. task'[u] = "cleanup" /\ taking'[u] = registered[k] /\ k \in Keys
      BY <1>0, <2>1, <2>2
    <3>2. ASSUME registered[k] # NoMsg
          PROVE  /\ task[registered[k]] \in {"waiting", "running"}
                 /\ \A j \in Keys \ {k} : registered[j] # registered[k]
      BY <1>0, <3>1, <3>2 DEF RegisteredQueueIsLive
    <3>3. \A j \in Keys : registered'[j] = IF j = k THEN NoMsg ELSE registered[j]
      BY <1>0, <2>1
    <3>4. registered[k] \in Msgs => task'[registered[k]] \in {task[registered[k]], "cleanup"}
      BY <1>0, <2>1
    <3> QED BY <1>0, <3>1, <3>2, <3>3, <3>4 DEF Popped, Spots
  <2>3. CASE u # t
    <3>1. taking'[u] = taking[u] /\ task'[u] = task[u]
      BY <1>0, <2>1, <2>3
    <3>2. taking[u] # NoMsg => task'[taking[u]] \in {task[taking[u]], "cleanup"}
      BY <1>0, <2>1
    <3>3. \A j \in Keys : registered'[j] \in {registered[j], NoMsg}
      BY <1>0, <2>1
    <3> QED BY <1>0, <2>1, <3>1, <3>2, <3>3 DEF Popped
  <2> QED BY <2>2, <2>3
<1>9. ASSUME NEW t \in Msgs, RepublishNext(t)
      PROVE  Popped(u)'
  <2> DEFINE o == taking[t]
  <2>1. /\ o \in Msgs /\ pending[o] # <<>>
        /\ pending' = [pending EXCEPT ![o] = Tail(pending[o])]
        /\ UNCHANGED <<task, registered, taking, cutShort>>
    BY <1>0, <1>9 DEF RepublishNext
  <2> HIDE DEF o
  <2> QED BY <1>0, <1>s, <2>1
<1>10. ASSUME NEW t \in Msgs, RepublishUnblocks(t) \/ RepublishDropped(t)
       PROVE  Popped(u)'
  BY <1>s, <1>10 DEF RepublishUnblocks, RepublishDropped, turnVars
<1>11. ASSUME NEW t \in Msgs, RepublishCancelled(t) \/ CleanupDone(t)
       PROVE  Popped(u)'
  <2>1. /\ task' = [task EXCEPT ![t] = "done"]
        /\ UNCHANGED <<pending, registered, taking>>
        /\ cutShort \subseteq cutShort'
        /\ \/ taking[t] \in cutShort'
           \/ taking[t] # NoMsg => pending[taking[t]] = <<>>
    BY <1>11 DEF RepublishCancelled, CleanupDone, Finish, cleanupVars
  <2> QED BY <1>0, <2>1 DEF Popped
<1>12. CASE StopReturns \/ UNCHANGED vars
  BY <1>12, <1>s DEF StopReturns, vars, cleanupVars
<1> QED BY <1>1, <1>2, <1>3, <1>4, <1>5, <1>6, <1>7, <1>8, <1>9, <1>10, <1>11, <1>12, StepCases
-----------------------------------------------------------------------------
LEMMA DispInit == Init => DispInv
<1> SUFFICES ASSUME Init PROVE DispInv
  OBVIOUS
<1>0. NoMsg \notin Msgs /\ \A t \in Msgs : DispatchKey[t] \in Keys
  BY DispatcherAssumption
<1>1. TypeOK
  BY DEF Init, TypeOK, TaskStates
<1>2. \A m \in Msgs, a \in Kinds, b \in Spots : ~In(a, b, m)
  BY <1>0 DEF Init, In, Among
<1>3. PlaceInv
  <2>1. Apart /\ OnceInv
    BY <1>2 DEF Apart, OnceInv, Once, Init
  <2>2. ArrivedInv
    BY <1>2 DEF ArrivedInv, Init
  <2> QED BY <2>1, <2>2 DEF PlaceInv
<1>4. LockInv
  BY <1>0 DEF Init, LockInv, Once
<1>5. RegisteredQueueIsLive /\ PendingInOwnSession /\ InjectedInOwnSession /\ TaskInv
  BY DEF Init, RegisteredQueueIsLive, PendingInOwnSession, InjectedInOwnSession, TaskInv
<1>6. PopInv
  BY DEF Init, PopInv, Popped
<1> QED BY <1>1, <1>3, <1>4, <1>5, <1>6 DEF DispInv

LEMMA DispNext == DispInv /\ [Next]_vars => DispInv'
<1> SUFFICES ASSUME DispInv, [Next]_vars PROVE DispInv'
  OBVIOUS
<1> USE DEF DispInv
<1>1. TypeOK'
  BY TypeStep DEF PlaceInv
<1>2. PlaceInv' /\ TaskInv' /\ PopInv'
  BY PlaceStep, TaskInvStep, PopStep
<1>3. LockInv'
  BY <1>1, LockStep
<1>4. RegisteredQueueIsLive' /\ PendingInOwnSession' /\ InjectedInOwnSession'
  BY RegisteredStep, SessionStep
<1> QED BY <1>1, <1>2, <1>3, <1>4

LEMMA DispInvariant == Spec => []DispInv
BY DispInit, DispNext, PTL DEF Spec

\* The dispatcher's tables keep their types: a task is registered, locked,
\* injected into and carried for by messages that are there.
THEOREM DispatcherTypes == Spec => []TypeOK
<1>1. DispInv => TypeOK
  BY DEF DispInv
<1> QED BY <1>1, DispInvariant, PTL

\* A message is in exactly one of the bus, a pending queue, a turn it was
\* injected into, the hands of a finally block, its own dispatch, the inline
\* commands and what the bus rejected: none is answered twice and none
\* disappears (run_forever, _drain_pending and the finally block of
\* dispatch_message).
THEOREM MessagesOnce == Spec => []EachMessageOnce
<1>1. DispInv => EachMessageOnce
  <2> SUFFICES ASSUME DispInv, NEW m \in arrived
               PROVE  Cardinality(Occurrences(m)) = 1
    BY DEF EachMessageOnce
  <2>0. m \in Msgs /\ NoMsg \notin Msgs
    BY DispatcherAssumption DEF DispInv, TypeOK
  <2>1. PICK a \in Kinds, b \in Spots : In(a, b, m)
    BY <2>0 DEF DispInv, PlaceInv, ArrivedInv
  <2>2. \A c \in Kinds, d \in Spots : In(c, d, m) => c = a /\ d = b
    BY <2>0, <2>1 DEF DispInv, PlaceInv, Apart
  <2>3. Once(inbox) /\ \A t \in Msgs : Once(pending[t])
    BY DEF DispInv, PlaceInv, OnceInv
  <2> DEFINE P(t) == {<<"pending", t, i>> : i \in {j \in 1..Len(pending[t]) : pending[t][j] = m}}
             O1 == {<<"inbox", i>> : i \in {j \in 1..Len(inbox) : inbox[j] = m}}
             O2 == UNION {P(t) : t \in Msgs}
             O3 == {<<"injected", t>> : t \in {u \in Msgs : m \in injected[u]}}
             O4 == {<<"carried", t>> : t \in {u \in Msgs : carrying[u] = m}}
             O5 == {<<"task">> : x \in {y \in {m} : task[y] # "none"}}
             O6 == {<<"inlined">> : x \in {m} \cap inlined}
             O7 == {<<"dropped">> : x \in {m} \cap dropped}
  <2>4. Occurrences(m) = O1 \cup O2 \cup O3 \cup O4 \cup O5 \cup O6 \cup O7
    BY DEF Occurrences
  <2>5. /\ Msgs \subseteq Spots /\ NoMsg \in Spots
        /\ "inbox" \in Kinds /\ "pending" \in Kinds /\ "injected" \in Kinds
        /\ "carried" \in Kinds /\ "task" \in Kinds /\ "inlined" \in Kinds /\ "dropped" \in Kinds
    BY DEF Spots, Kinds
  <2>6. /\ a # "inbox" => O1 = {}
        /\ a = "inbox" => \E x : O1 = {x}
    <3>1. ASSUME a # "inbox" PROVE O1 = {}
      <4>1. ~In("inbox", NoMsg, m)
        BY <2>2, <2>5, <3>1
      <4> QED BY <4>1 DEF In, Among
    <3>2. ASSUME a = "inbox" PROVE \E x : O1 = {x}
      <4>1. PICK i \in 1..Len(inbox) : inbox[i] = m
        BY <2>1, <3>2 DEF In, Among
      <4>2. {j \in 1..Len(inbox) : inbox[j] = m} = {i}
        BY <2>3, <4>1 DEF Once
      <4>3. O1 = {<<"inbox", i>>}
        BY <4>2
      <4> QED BY <4>3
    <3> QED BY <3>1, <3>2
  <2>7. /\ a # "pending" => O2 = {}
        /\ a = "pending" => \E x : O2 = {x}
    <3>1. ASSUME NEW t \in Msgs, ~In("pending", t, m) PROVE P(t) = {}
      BY <3>1 DEF In, Among
    <3>2. ASSUME a # "pending" PROVE O2 = {}
      <4>1. \A t \in Msgs : P(t) = {}
        BY <2>2, <2>5, <3>1, <3>2
      <4> QED BY <4>1
    <3>3. ASSUME a = "pending" PROVE \E x : O2 = {x}
      <4>1. b \in Msgs
        BY <2>1, <3>3 DEF In
      <4>2. PICK i \in 1..Len(pending[b]) : pending[b][i] = m
        BY <2>1, <3>3 DEF In, Among
      <4>3. {j \in 1..Len(pending[b]) : pending[b][j] = m} = {i}
        BY <2>3, <4>1, <4>2 DEF Once
      <4>4. P(b) = {<<"pending", b, i>>}
        BY <4>3
      <4>5. \A t \in Msgs : t # b => P(t) = {}
        BY <2>2, <2>5, <3>1
      <4> HIDE DEF P
      <4>6. O2 = {<<"pending", b, i>>}
        BY <4>1, <4>4, <4>5
      <4> QED BY <4>6
    <3> QED BY <3>2, <3>3
  <2>8. /\ a # "injected" => O3 = {}
        /\ a = "injected" => \E x : O3 = {x}
    <3>1. \A u \in Msgs : m \in injected[u] => a = "injected" /\ u = b
      <4>1. \A u \in Msgs : m \in injected[u] => In("injected", u, m)
        BY DEF In
      <4> QED BY <2>2, <2>5, <4>1
    <3>2. ASSUME a = "injected" PROVE O3 = {<<"injected", b>>}
      <4>1. b \in Msgs /\ m \in injected[b]
        BY <2>1, <3>2 DEF In
      <4> QED BY <3>1, <4>1
    <3> QED BY <3>1, <3>2
  <2>9. /\ a # "carried" => O4 = {}
        /\ a = "carried" => \E x : O4 = {x}
    <3>1. \A u \in Msgs : carrying[u] = m => a = "carried" /\ u = b
      <4>1. \A u \in Msgs : carrying[u] = m => In("carried", u, m)
        BY DEF In
      <4> QED BY <2>2, <2>5, <4>1
    <3>2. ASSUME a = "carried" PROVE O4 = {<<"carried", b>>}
      <4>1. b \in Msgs /\ carrying[b] = m
        BY <2>1, <3>2 DEF In
      <4> QED BY <3>1, <4>1
    <3> QED BY <3>1, <3>2
  <2>10. /\ O5 = IF a = "task" THEN {<<"task">>} ELSE {}
         /\ O6 = IF a = "inlined" THEN {<<"inlined">>} ELSE {}
         /\ O7 = IF a = "dropped" THEN {<<"dropped">>} ELSE {}
    <3>1. /\ task[m] # "none" <=> a = "task"
          /\ m \in inlined <=> a = "inlined"
          /\ m \in dropped <=> a = "dropped"
      <4>1. /\ task[m] # "none" <=> In("task", NoMsg, m)
            /\ m \in inlined <=> In("inlined", NoMsg, m)
            /\ m \in dropped <=> In("dropped", NoMsg, m)
        BY DEF In
      <4>2. a \in {"task", "inlined", "dropped"} => b = NoMsg
        BY <2>1 DEF In
      <4> QED BY <2>1, <2>2, <2>5, <4>1, <4>2
    <3> QED BY <3>1
  <2> HIDE DEF O1, O2, O3, O4, O5, O6, O7
  <2>11. \E x : Occurrences(m) = {x}
    <3>1. CASE a = "inbox"
      BY <2>4, <2>6, <2>7, <2>8, <2>9, <2>10, <3>1
    <3>2. CASE a = "pending"
      BY <2>4, <2>6, <2>7, <2>8, <2>9, <2>10, <3>2
    <3>3. CASE a = "injected"
      BY <2>4, <2>6, <2>7, <2>8, <2>9, <2>10, <3>3
    <3>4. CASE a = "carried"
      BY <2>4, <2>6, <2>7, <2>8, <2>9, <2>10, <3>4
    <3>5. CASE a \in {"task", "inlined", "dropped"}
      BY <2>4, <2>6, <2>7, <2>8, <2>9, <2>10, <3>5
    <3> QED BY <3>1, <3>2, <3>3, <3>4, <3>5 DEF Kinds
  <2> QED BY <2>11, FS_Singleton
<1> QED BY <1>1, DispInvariant, PTL

\* Wherever a follow-up waits, somebody answers for it: a registered queue
\* belongs to a dispatch that has not left its lock block, and a queue is left
\* behind with follow-ups in it only when another dispatch overwrote its
\* registry entry while it was in use, or when the finally block that popped
\* it was cancelled in the middle (the registry of dispatch_message, its
\* setting and its pop).
THEOREM QueuesAnswered == Spec => []QueuesAccounted
<1>1. DispInv => QueuesAccounted
  <2> SUFFICES ASSUME DispInv, NEW t \in Msgs, Abandoned(t), pending[t] # <<>>,
                      t \notin replaced
               PROVE  t \in cutShort
    BY DEF DispInv, QueuesAccounted, AbandonedOnlyIfReplaced
  <2>1. PICK u \in Msgs : taking[u] = t
    BY DEF DispInv, TaskInv, Abandoned
  <2>2. NoMsg \notin Msgs /\ task[u] \in TaskStates
    BY DispatcherAssumption DEF DispInv, TypeOK
  <2>3. task[u] = "done"
    BY <2>1, <2>2 DEF DispInv, TaskInv, TaskStates, Abandoned
  <2> QED BY <2>1, <2>2, <2>3 DEF DispInv, PopInv, Popped
<1> QED BY <1>1, DispInvariant, PTL

\* At most one turn runs per session, in whatever order locks and permits are
\* asked for, handed on and given up by a cancelled waiter.
THEOREM TurnsExclude == Spec => []OneTurnPerSession
<1>1. DispInv => OneTurnPerSession
  BY DEF DispInv, LockInv, OneTurnPerSession, Running
<1> QED BY <1>1, DispInvariant, PTL

\* A follow-up is injected into a turn of the session it was routed to,
\* although other dispatches overwrite and pop the registry's entries.
THEOREM InjectedHome == Spec => []InjectedInOwnSession
<1>1. DispInv => InjectedInOwnSession
  BY DEF DispInv
<1> QED BY <1>1, DispInvariant, PTL
=============================================================================
