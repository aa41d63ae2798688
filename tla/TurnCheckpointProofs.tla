----------------------- MODULE TurnCheckpointProofs -----------------------
(***************************************************************************)
(* Proofs about TurnCheckpoint, for any number of turns, iterations, tool  *)
(* calls, follow-ups, faults and failed saves.                             *)
(*                                                                         *)
(* The cached session and its file satisfy one invariant, which says that  *)
(* RESTORE can close whatever was interrupted: the file is an earlier      *)
(* cache, and a crash makes it the cache again.  A second one relates the  *)
(* session to the turn that runs on it.                                    *)
(*                                                                         *)
(* Of the messages, what holds for every prompt budget: no message is in   *)
(* the session twice, no call of a reply whose calls run one by one lacks  *)
(* a result, a checkpoint stands behind the last user message, and a saved *)
(* turn that has not moved to the warm store is in the prompt.  When the   *)
(* budget trims the prompt (MaxTrim > 0) SAVE drops the first messages of  *)
(* the turn: HistoryClosed, InterruptedTurnClosed, WorkRemembered and      *)
(* PersistedNeverLost fail, and the parts of the invariant they need are   *)
(* stated for MaxTrim = 0.                                                 *)
(***************************************************************************)
EXTENDS TurnCheckpoint, Integers, FiniteSetTheorems, SequenceTheorems, TLAPS

----------------------------------------------------------------------------
(* The invariant *)

\* The tool messages of the first n calls of the assistant message a.
ToolMessages(a, n, kind) == [i \in 1..n |-> [a EXCEPT !.kind = kind, !.call = i]]

\* A checkpoint is an answer, calls that wait, or calls with their results, of
\* which a parallel batch may have lost the last ones.
CheckpointShape(c) ==
    \/ /\ c.assistant.kind = "answer" /\ c.assistant.call = 0
       /\ ~c.pending /\ c.completed = <<>>
    \/ /\ c.assistant.kind \in CallKinds /\ c.assistant.call # 0
       /\ \/ c.pending
          \/ \E n \in 0..c.assistant.call :
               /\ c.completed = ToolMessages(c.assistant, n, "result")
               /\ c.assistant.kind = "calls" => n = c.assistant.call

Distinct(ms) == \A i, j \in DOMAIN ms : i # j => ms[i] # ms[j]

\* The session's messages end with those of r.
HasTail(ms, r) ==
    /\ Len(r) <= Len(ms)
    /\ SubSeq(ms, Len(ms) - Len(r) + 1, Len(ms)) = SubSeq(r, 1, Len(r))

\* Of turn t there is at most the user message.
OnlyUser(ms, t) == \A i \in DOMAIN ms : ms[i].turn = t => ms[i].kind = "user"

\* m makes the executed call e, or is a later reply of its turn.
Remembers(m, e) ==
    /\ m.turn = e[1]
    /\ \/ m.kind \in CallKinds /\ m.iter = e[2] /\ e[3] <= m.call
       \/ m.kind \in CallKinds \cup {"answer"} /\ m.iter > e[2]
RememberedIn(ms, e) == \E i \in DOMAIN ms : Remembers(ms[i], e)

\* A user message has its answer, or it is the last and marked.
UsersAnswered(s) ==
    \A i \in DOMAIN s.messages :
      s.messages[i].kind = "user" =>
        IF i = Len(s.messages) THEN s.pendingUserTurn ELSE s.messages[i + 1].kind # "user"

\* What the spill leaves starts with a turn.
StartsWithUser(ms) == ms # <<>> => ms[1].kind \in UserKinds

LastUserOf(ms, t) ==
    \E i \in DOMAIN ms :
      /\ ms[i].kind = "user"
      /\ ms[i].turn = t
      /\ \A j \in i + 1..Len(ms) : ms[j].kind # "user"

\* A turn that is marked as pending has no closing message yet.
PendingOpen(s) ==
    s.pendingUserTurn =>
      /\ s.messages # <<>>
      /\ \A i \in DOMAIN Conversation(s) :
           Conversation(s)[i].kind = "closed" => Conversation(s)[i].turn # Last(s.messages).turn

\* Behind a checkpoint's call no other was appended.
MarksOf(s, k) ==
    /\ s.checkpoint # NoCheckpoint =>
         /\ CheckpointShape(s.checkpoint)
         /\ LastUserOf(s.messages, s.checkpoint.assistant.turn)
         /\ s.checkpoint.assistant.turn \notin k
         /\ s.messages # <<>> /\ Last(s.messages).kind \notin ToolKinds \cup CallKinds
    /\ s.pendingUserTurn => Last(s.messages).turn \notin k
    /\ \A i \in s.msgEnd + 1..Len(s.messages) : s.messages[i].turn \notin k

OnceIn(s) ==
    /\ Distinct(Conversation(s))
    /\ s.checkpoint # NoCheckpoint =>
         \/ HasTail(s.messages, Restored(s.checkpoint))
         \/ OnlyUser(Conversation(s), s.checkpoint.assistant.turn)

\* The executed calls are in the conversation, or the checkpoint will put them
\* there.
WorkIn(s, ex) ==
    \A e \in ex : \/ RememberedIn(Conversation(s), e)
                  \/ s.checkpoint # NoCheckpoint /\ Remembers(s.checkpoint.assistant, e)

\* A session that RESTORE can close, after the turns up to t, of which those
\* in k were saved, with the tool calls ex executed and db saying that a SAVE
\* raised behind the checkpoint.
Restorable(s, t, k, ex, db) ==
    /\ CallsAnswered(s.messages)
    /\ \A i \in DOMAIN Conversation(s) : Conversation(s)[i].turn <= t
    /\ PendingOpen(s)
    /\ MarksOf(s, k)
    /\ db \/ OnceIn(s)
    /\ MaxTrim = 0 => /\ Closed(s.messages) /\ UsersAnswered(s) /\ StartsWithUser(s.messages)
                      /\ WorkIn(s, ex)

\* The messages that a run of turn t has added.
RunOf(ms, t) ==
    /\ Distinct(ms)
    /\ \A i \in DOMAIN ms : ms[i].turn = t /\ ms[i].kind \notin {"user", "closed"}

Before(ms, n) == \A i \in DOMAIN ms : ms[i].iter < n

\* Where a turn can be.
Placed ==
    /\ pc # "idle" => turn > 0
    /\ pc = "tools" => iter < MaxIterations /\ run # <<>>

\* The turn on the cached session.
Started == pc \in {"model", "tools", "ran"}
AtPrompt(s) == \* the session ends with the turn's user message, its only one
    /\ s.messages # <<>>
    /\ Last(s.messages).kind = "user" /\ Last(s.messages).turn = turn
    /\ \A i \in DOMAIN Conversation(s) :
         i < Len(Conversation(s)) => Conversation(s)[i].turn < turn

TurnInv ==
    /\ \A t \in kept : t <= turn
    /\ \A e \in execd : e[1] <= turn
    /\ pc = "restored" =>
         /\ mem.checkpoint = NoCheckpoint /\ ~mem.pendingUserTurn
         /\ \A i \in DOMAIN Conversation(mem) : Conversation(mem)[i].turn < turn
         /\ run = <<>> /\ iter = 0
         /\ \A e \in execd : e[1] < turn
    /\ Started =>
         /\ AtPrompt(mem)
         /\ mem.checkpoint # NoCheckpoint => mem.checkpoint.assistant.turn = turn
         /\ RunOf(run, turn)
    /\ Started \/ pc = "restored" =>
         /\ turn \notin kept
         /\ MaxTrim = 0 =>
              \A e \in execd : e[1] < turn => RememberedIn(Conversation(mem), e)

RunInv ==
    /\ pc = "model" =>
         /\ Closed(run) /\ Before(run, iter)
         /\ \A e \in execd : e[1] = turn => e[2] < iter /\ RememberedIn(run, e)
    /\ pc = "tools" =>
         /\ Last(run).kind \in CallKinds
         /\ Last(run) = Entry(Last(run).kind, Last(run).call) /\ Last(run).call # 0
         /\ Closed(Front(run)) /\ Before(Front(run), iter)
         /\ mem.checkpoint = [assistant |-> Last(run), completed |-> <<>>, pending |-> TRUE]
         /\ disk.checkpoint = mem.checkpoint
         /\ \A e \in execd : e[1] = turn =>
              \/ e[2] < iter /\ RememberedIn(Front(run), e)
              \/ e[2] = iter /\ e[3] <= Last(run).call
    /\ pc = "ran" =>
         /\ Closed(run) /\ Last(run).kind \notin ToolKinds \cup CallKinds
         /\ \E i \in DOMAIN run : run[i].kind \in {"answer", "placeholder"}
         /\ \A e \in execd : e[1] = turn => RememberedIn(run, e)

\* Nothing in the file is missing from the cache.
FileIsPrefix == IsPrefix(Conversation(disk), Conversation(mem))

SessionInv ==
    /\ Restorable(mem, turn, kept, execd, doubtful)
    /\ Restorable(disk, turn, kept, execd, doubtful)

TurnsInv ==
    /\ TypeOK /\ Placed /\ SessionInv /\ TurnInv /\ RunInv
    /\ MaxTrim = 0 => FileIsPrefix /\ SavedTurnDurable
----------------------------------------------------------------------------
(* Sequences of messages *)

LEMMA Bounds ==
  /\ MaxTurns \in Nat /\ MaxTurns # 0 /\ MaxIterations \in Nat /\ MaxIterations # 0
  /\ MaxCalls \in Nat /\ MaxCalls # 0 /\ HotTurns \in Nat /\ HotTurns # 0
  /\ MaxFollowUps \in Nat /\ MaxTrim \in Nat /\ MaxFaults \in Nat /\ MaxSaveFails \in Nat
BY TurnAssumption

LEMMA MessageFields ==
  ASSUME NEW m \in Message
  PROVE  /\ m.kind \in Kinds /\ m.turn \in Nat /\ m.turn # 0 /\ m.turn <= MaxTurns
         /\ m.iter \in Nat /\ m.iter <= MaxIterations /\ m.call \in Nat /\ m.call <= MaxCalls
BY Bounds DEF Message

LEMMA Joined ==
  ASSUME NEW s \in Seq(Message), NEW t \in Seq(Message)
  PROVE  /\ s \o t \in Seq(Message) /\ Len(s) \in Nat /\ Len(t) \in Nat
         /\ Len(s \o t) = Len(s) + Len(t)
         /\ DOMAIN s = 1..Len(s) /\ DOMAIN t = 1..Len(t)
         /\ DOMAIN (s \o t) = 1..(Len(s) + Len(t))
         /\ \A i \in 1..Len(s) : (s \o t)[i] = s[i] /\ s[i] \in Message
         /\ \A i \in 1..Len(t) : (s \o t)[Len(s) + i] = t[i] /\ t[i] \in Message
OBVIOUS

\* An element of a joined sequence comes from one of them.
LEMMA JoinedFrom ==
  ASSUME NEW s \in Seq(Message), NEW t \in Seq(Message), NEW i \in DOMAIN (s \o t)
  PROVE  \/ i \in 1..Len(s) /\ (s \o t)[i] = s[i]
         \/ i > Len(s) /\ i - Len(s) \in 1..Len(t) /\ (s \o t)[i] = t[i - Len(s)]
<1>1. i \in 1..(Len(s) + Len(t)) /\ Len(s) \in Nat /\ Len(t) \in Nat
  BY Joined
<1>2. CASE i <= Len(s)
  BY <1>1, <1>2, Joined
<1>3. CASE i > Len(s)
  <2>1. i - Len(s) \in 1..Len(t) /\ Len(s) + (i - Len(s)) = i
    BY <1>1, <1>3
  <2>2. (s \o t)[Len(s) + (i - Len(s))] = t[i - Len(s)]
    BY <2>1, Joined
  <2> QED BY <1>3, <2>1, <2>2
<1> QED BY <1>1, <1>2, <1>3

LEMMA AnsweredConcat ==
  ASSUME NEW s \in Seq(Message), NEW t \in Seq(Message), CallsAnswered(s), CallsAnswered(t)
  PROVE  CallsAnswered(s \o t)
<1> DEFINE u == s \o t
<1>0. Len(s) \in Nat /\ Len(t) \in Nat /\ Len(u) = Len(s) + Len(t) /\ u \in Seq(Message)
  BY Joined
<1> SUFFICES ASSUME NEW i \in DOMAIN u, u[i].kind = "calls", NEW c \in 1..u[i].call
             PROVE  i + c <= Len(u) /\ Answers(u[i + c], u[i], c)
  BY DEF CallsAnswered
<1>1. CASE i \in 1..Len(s) /\ u[i] = s[i]
  <2>0. s[i].call \in Nat /\ i \in DOMAIN s
    BY <1>0, <1>1, MessageFields, Joined
  <2>1. i + c <= Len(s) /\ Answers(s[i + c], s[i], c)
    BY <1>1, <2>0 DEF CallsAnswered
  <2>2. i + c \in 1..Len(s) /\ u[i + c] = s[i + c]
    BY <1>0, <1>1, <2>0, <2>1, Joined
  <2> QED BY <1>0, <1>1, <2>0, <2>1, <2>2
<1>2. CASE i > Len(s) /\ i - Len(s) \in 1..Len(t) /\ u[i] = t[i - Len(s)]
  <2> DEFINE k == i - Len(s)
  <2>0. /\ t[k].call \in Nat /\ k \in DOMAIN t /\ k \in 1..Len(t) /\ u[i] = t[k]
        /\ i = Len(s) + k
    <3>1. k \in 1..Len(t) /\ i \in 1..(Len(s) + Len(t))
      BY <1>2, Joined
    <3>2. t[k] \in Message
      BY <3>1, Joined
    <3> QED BY <1>0, <1>2, <3>1, <3>2, MessageFields
  <2> HIDE DEF k
  <2>1. k + c <= Len(t) /\ Answers(t[k + c], t[k], c)
    BY <2>0 DEF CallsAnswered
  <2>2. u[i + c] = t[k + c]
    <3>0. c \in Nat /\ k \in Nat /\ k # 0 /\ Len(s) \in Nat /\ Len(t) \in Nat
      <4>1. u[i].call \in Nat
        BY <2>0
      <4>2. c \in Nat
        BY <4>1
      <4> QED BY <1>0, <2>0, <4>2
    <3>a. k + c <= Len(t) /\ i = Len(s) + k
      BY <2>0, <2>1
    <3>1. k + c \in 1..Len(t) /\ i + c = Len(s) + (k + c)
      BY <3>0, <3>a
    <3>2. u[Len(s) + (k + c)] = t[k + c]
      BY <3>1, Joined
    <3> QED BY <3>1, <3>2
  <2>3. i + c <= Len(u)
    BY <1>0, <2>0, <2>1
  <2> QED BY <2>0, <2>1, <2>2, <2>3
<1> QED BY <1>1, <1>2, JoinedFrom

\* The result at i stands behind its call and the results before it.
Paired(ms, i) ==
    LET p == i - ms[i].call
    IN  /\ p > 0 /\ ms[p].kind \in CallKinds
        /\ \A c \in 1..ms[i].call : Answers(ms[p + c], ms[p], c)

LEMMA ClosedPaired ==
  ASSUME NEW s
  PROVE  Closed(s) <=> /\ CallsAnswered(s)
                       /\ \A i \in DOMAIN s : s[i].kind \in ToolKinds => Paired(s, i)
BY DEF Closed, Paired

\* A pair that is moved with all its messages stays one.
LEMMA PairMoves ==
  ASSUME NEW s \in Seq(Message), NEW u \in Seq(Message), NEW i \in DOMAIN s, NEW d \in Int,
         Paired(s, i), d + i - s[i].call > 0, d + i <= Len(u),
         \A j \in i - s[i].call..i : u[d + j] = s[j]
  PROVE  Paired(u, d + i)
<1> DEFINE n == s[i].call
           p == i - n
           q == d + i - n
<1>1. i \in Nat /\ n \in Nat /\ i <= Len(s)
  <2>1. s[i] \in Message /\ i \in 1..Len(s)
    OBVIOUS
  <2> QED BY <2>1, MessageFields
<1>2. p > 0 /\ s[p].kind \in CallKinds /\ \A c \in 1..n : Answers(s[p + c], s[p], c)
  BY DEF Paired
<1>3. u[d + i] = s[i] /\ u[d + p] = s[p]
  <2>1. i \in p..i /\ p \in p..i
    BY <1>1
  <2> QED BY <2>1
<1>4. \A c \in 1..n : u[d + (p + c)] = s[p + c]
  <2> SUFFICES ASSUME NEW c \in 1..n PROVE u[d + (p + c)] = s[p + c]
    OBVIOUS
  <2>1. p + c \in p..i
    BY <1>1
  <2> QED BY <2>1
<1> HIDE DEF n
<1>5. d + p = q /\ \A c \in 1..n : d + (p + c) = q + c
  BY <1>1
<1>6. u[d + i].call = n
  BY <1>3 DEF n
<1>7. u[q].kind \in CallKinds /\ \A c \in 1..n : Answers(u[q + c], u[q], c)
  BY <1>2, <1>3, <1>4, <1>5
<1>8. d + i - u[d + i].call = q
  BY <1>6
<1>9. q > 0
  BY DEF n
<1> HIDE DEF q, p
<1> DEFINE e == d + i
<1>10. e - u[e].call = q /\ u[e].call = n
  BY <1>1, <1>5, <1>6, <1>8 DEF n, q
<1> HIDE DEF e
<1>11. Paired(u, e)
  <2>1. \A c \in 1..u[e].call : Answers(u[e - u[e].call + c], u[e - u[e].call], c)
    BY <1>7, <1>10
  <2>2. e - u[e].call > 0 /\ u[e - u[e].call].kind \in CallKinds
    BY <1>7, <1>9, <1>10
  <2> QED BY <2>1, <2>2 DEF Paired
<1> QED BY <1>11 DEF e

LEMMA ClosedConcat ==
  ASSUME NEW s \in Seq(Message), NEW t \in Seq(Message), Closed(s), Closed(t)
  PROVE  Closed(s \o t)
<1> DEFINE u == s \o t
<1>0. Len(s) \in Nat /\ Len(t) \in Nat /\ Len(u) = Len(s) + Len(t) /\ u \in Seq(Message)
  BY Joined
<1>a. CallsAnswered(u)
  BY ClosedPaired, AnsweredConcat
<1> SUFFICES ASSUME NEW i \in DOMAIN u, u[i].kind \in ToolKinds
             PROVE  Paired(u, i)
  BY <1>a, ClosedPaired
<1>1. CASE i \in 1..Len(s) /\ u[i] = s[i]
  <2>0. s[i].call \in Nat /\ i \in DOMAIN s
    BY <1>0, <1>1, MessageFields, Joined
  <2>1. Paired(s, i)
    BY <1>1, <2>0, ClosedPaired
  <2>2. i - s[i].call > 0
    BY <2>1 DEF Paired
  <2>3. \A j \in i - s[i].call..i : u[0 + j] = s[j]
    <3> SUFFICES ASSUME NEW j \in i - s[i].call..i PROVE u[0 + j] = s[j]
      OBVIOUS
    <3>1. j \in 1..Len(s) /\ 0 + j = j
      BY <1>0, <1>1, <2>0, <2>2
    <3> QED BY <3>1, Joined
  <2> HIDE DEF u
  <2>4. 0 \in Int /\ 0 + i = i /\ 0 + i - s[i].call > 0 /\ 0 + i <= Len(u)
    BY <1>0, <1>1, <2>0, <2>2
  <2>5. Paired(u, 0 + i)
    BY <1>0, <2>0, <2>1, <2>3, <2>4, PairMoves
  <2> QED BY <2>4, <2>5
<1>2. CASE i > Len(s) /\ i - Len(s) \in 1..Len(t) /\ u[i] = t[i - Len(s)]
  <2> DEFINE k == i - Len(s)
  <2>0. /\ t[k].call \in Nat /\ k \in DOMAIN t /\ k \in 1..Len(t) /\ u[i] = t[k]
        /\ i = Len(s) + k
    <3>1. k \in 1..Len(t) /\ i \in 1..(Len(s) + Len(t))
      BY <1>2, Joined
    <3>2. t[k] \in Message
      BY <3>1, Joined
    <3> QED BY <1>0, <1>2, <3>1, <3>2, MessageFields
  <2> HIDE DEF k
  <2>1. Paired(t, k)
    BY <2>0, ClosedPaired
  <2>2. k - t[k].call > 0
    BY <2>1 DEF Paired
  <2>3. \A j \in k - t[k].call..k : u[Len(s) + j] = t[j]
    <3> SUFFICES ASSUME NEW j \in k - t[k].call..k PROVE u[Len(s) + j] = t[j]
      OBVIOUS
    <3>1. j \in 1..Len(t)
      BY <1>0, <2>0, <2>2
    <3> QED BY <3>1, Joined
  <2> HIDE DEF u
  <2>4. Len(s) \in Int /\ Len(s) + k - t[k].call > 0 /\ Len(s) + k <= Len(u)
    BY <1>0, <2>0, <2>2
  <2> QED BY <1>0, <2>0, <2>1, <2>3, <2>4, PairMoves
<1> QED BY <1>1, <1>2, JoinedFrom

LEMMA ClosedAnswered ==
  ASSUME NEW s, Closed(s)
  PROVE  CallsAnswered(s)
BY DEF Closed, CallsAnswered

LEMMA ClosedOne ==
  ASSUME NEW m \in Message, m.kind \notin ToolKinds \cup CallKinds
  PROVE  Closed(<<m>>)
BY DEF Closed, CallsAnswered, ToolKinds, CallKinds

LEMMA ClosedEmpty == Closed(<<>>)
BY DEF Closed, CallsAnswered

LEMMA FrontFacts ==
  ASSUME NEW s \in Seq(Message), s # <<>>
  PROVE  /\ Len(s) \in Nat /\ Len(s) # 0
         /\ Front(s) \in Seq(Message) /\ Len(Front(s)) = Len(s) - 1
         /\ \A i \in 1..Len(s) - 1 : Front(s)[i] = s[i]
         /\ Last(s) \in Message /\ Last(s) = s[Len(s)]
         /\ s = Front(s) \o <<Last(s)>>
<1> DEFINE f == Front(s)
           a == Last(s)
<1>1. Len(s) \in Nat /\ Len(s) # 0
  OBVIOUS
<1>2. f = SubSeq(s, 1, Len(s) - 1)
  BY DEF Front
<1>3. \A i \in 1..Len(s) - 1 : s[i] \in Message
  BY <1>1
<1>4. a = s[Len(s)] /\ a \in Message
  BY <1>1 DEF Last
<1> HIDE DEF f, a
<1>5. /\ f \in Seq(Message) /\ Len(f) = Len(s) - 1
      /\ \A i \in 1..Len(s) - 1 : f[i] = s[i]
  <2>1. Len(s) - 1 \in Nat /\ 1..Len(s) - 1 \subseteq 1..Len(s)
    BY <1>1
  <2>2. f = [i \in 1..Len(s) - 1 |-> s[i]]
    BY <1>1, <1>2
  <2> QED BY <1>3, <2>1, <2>2
<1>6. s = f \o <<a>>
  <2> DEFINE g == f \o <<a>>
  <2>1. /\ g \in Seq(Message) /\ Len(g) = Len(s) /\ g[Len(s)] = a
        /\ \A i \in 1..Len(s) - 1 : g[i] = s[i]
    BY <1>1, <1>4, <1>5
  <2> HIDE DEF g
  <2>2. \A i \in 1..Len(s) : g[i] = s[i]
    BY <1>1, <1>4, <2>1
  <2>3. s = g
    BY <2>1, <2>2, SeqEqual
  <2> QED BY <2>3 DEF g
<1> QED BY <1>1, <1>4, <1>5, <1>6 DEF f, a

\* The last message may go if it is no result.
LEMMA ClosedFront ==
  ASSUME NEW s \in Seq(Message), s # <<>>, Closed(s), Last(s).kind \notin ToolKinds
  PROVE  Closed(Front(s)) /\ Front(s) \in Seq(Message) /\ Len(Front(s)) = Len(s) - 1
         /\ \A i \in 1..Len(s) - 1 : Front(s)[i] = s[i]
<1> DEFINE f == Front(s)
<1>1. /\ Len(s) \in Nat /\ Len(s) # 0 /\ f \in Seq(Message) /\ Len(f) = Len(s) - 1
      /\ \A i \in 1..Len(s) - 1 : f[i] = s[i]
  BY FrontFacts
<1>2. DOMAIN f = 1..Len(s) - 1 /\ DOMAIN s = 1..Len(s)
  BY <1>1
<1> HIDE DEF f
<1>3. ASSUME NEW i \in DOMAIN f
      PROVE  i \in 1..Len(s) - 1 /\ f[i] = s[i] /\ s[i].call \in Nat /\ i \in DOMAIN s
  <2>1. i \in 1..Len(s) - 1 /\ s[i] \in Message /\ i \in DOMAIN s
    BY <1>1, <1>2
  <2> QED BY <1>1, <2>1, MessageFields
<1>4. CallsAnswered(f)
  <2> SUFFICES ASSUME NEW i \in DOMAIN f, f[i].kind = "calls", NEW c \in 1..f[i].call
               PROVE  i + c <= Len(f) /\ Answers(f[i + c], f[i], c)
    BY DEF CallsAnswered
  <2>1. i + c <= Len(s) /\ Answers(s[i + c], s[i], c)
    BY <1>3 DEF Closed, CallsAnswered
  <2>2. i + c # Len(s)
    BY <2>1 DEF Answers, Last
  <2>3. i + c \in 1..Len(s) - 1
    BY <1>1, <1>3, <2>1, <2>2
  <2> QED BY <1>1, <1>3, <2>1, <2>3
<1>5. ASSUME NEW i \in DOMAIN f, f[i].kind \in ToolKinds
      PROVE  Paired(f, i)
  <2>1. Paired(s, i)
    BY <1>3, <1>5, ClosedPaired
  <2>2. i - s[i].call > 0
    BY <2>1 DEF Paired
  <2>3. \A j \in i - s[i].call..i : f[0 + j] = s[j]
    <3> SUFFICES ASSUME NEW j \in i - s[i].call..i PROVE f[0 + j] = s[j]
      OBVIOUS
    <3>1. j \in 1..Len(s) - 1 /\ 0 + j = j
      BY <1>1, <1>3, <2>2
    <3> QED BY <1>1, <3>1
  <2>4. 0 \in Int /\ 0 + i = i /\ 0 + i - s[i].call > 0 /\ 0 + i <= Len(f)
    BY <1>1, <1>3, <2>2
  <2>5. Paired(f, 0 + i)
    BY <1>1, <1>3, <2>1, <2>3, <2>4, PairMoves
  <2> QED BY <2>4, <2>5
<1> QED BY <1>1, <1>4, <1>5, ClosedPaired DEF f
----------------------------------------------------------------------------
(* Checkpoints *)

\* m answers the call i of a.
ResultOf(m, a, i) ==
    m.kind \in ToolKinds /\ m.turn = a.turn /\ m.iter = a.iter /\ m.call = i

LEMMA ToolMessagesFacts ==
  ASSUME NEW a \in Message, NEW kind \in ToolKinds, NEW n \in 0..a.call
  PROVE  /\ ToolMessages(a, n, kind) \in Seq(Message) /\ Len(ToolMessages(a, n, kind)) = n
         /\ \A i \in 1..n : ResultOf(ToolMessages(a, n, kind)[i], a, i)
<1>0. /\ a.call \in Nat /\ a.call <= MaxCalls /\ MaxCalls \in Nat /\ kind \in Kinds
      /\ n \in Nat /\ n <= a.call
  BY MessageFields, Bounds DEF ToolKinds, Kinds
<1>1. ASSUME NEW i \in 1..n
      PROVE  /\ [a EXCEPT !.kind = kind, !.call = i] \in Message
             /\ ResultOf([a EXCEPT !.kind = kind, !.call = i], a, i)
  <2>1. i \in 0..MaxCalls
    BY <1>0
  <2>2. [a EXCEPT !.kind = kind, !.call = i] \in Message
    BY <1>0, <2>1 DEF Message
  <2>3. ResultOf([a EXCEPT !.kind = kind, !.call = i], a, i)
    BY DEF Message, ResultOf
  <2> QED BY <2>2, <2>3
<1>2. \A i \in 1..n : ToolMessages(a, n, kind)[i] = [a EXCEPT !.kind = kind, !.call = i]
  BY DEF ToolMessages
<1>3. ToolMessages(a, n, kind) \in [1..n -> Message]
  BY <1>1 DEF ToolMessages
<1>4. ToolMessages(a, n, kind) \in Seq(Message) /\ Len(ToolMessages(a, n, kind)) = n
  BY <1>0, <1>3
<1> QED BY <1>1, <1>2, <1>4

\* Calls with their first n results, which are all of them unless the calls ran
\* in parallel.
LEMMA ClosedCalls ==
  ASSUME NEW a \in Message, a.kind \in CallKinds, NEW kind \in ToolKinds, NEW n \in 0..a.call,
         a.kind = "calls" => n = a.call
  PROVE  /\ <<a>> \o ToolMessages(a, n, kind) \in Seq(Message)
         /\ Len(<<a>> \o ToolMessages(a, n, kind)) = n + 1
         /\ (<<a>> \o ToolMessages(a, n, kind))[1] = a
         /\ \A i \in 1..n : ResultOf((<<a>> \o ToolMessages(a, n, kind))[i + 1], a, i)
         /\ Closed(<<a>> \o ToolMessages(a, n, kind))
<1> DEFINE T == ToolMessages(a, n, kind)
           r == <<a>> \o T
<1>0. /\ T \in Seq(Message) /\ Len(T) = n /\ n \in Nat /\ <<a>> \in Seq(Message)
      /\ Len(<<a>>) = 1 /\ <<a>>[1] = a
      /\ \A i \in 1..n : ResultOf(T[i], a, i)
  BY ToolMessagesFacts, MessageFields
<1>n. n \in Nat
  BY <1>0
<1> HIDE DEF T
<1>1. r \in Seq(Message) /\ Len(r) = n + 1 /\ r[1] = a
  BY <1>0
<1>2. ASSUME NEW i \in 1..n
      PROVE  ResultOf(r[i + 1], a, i)
  BY <1>0
<1> HIDE DEF r
<1>c. ASSUME NEW c \in 1..n PROVE Answers(r[1 + c], a, c)
  <2>1. ResultOf(r[c + 1], a, c) /\ c + 1 = 1 + c
    BY <1>2, <1>n
  <2> QED BY <2>1 DEF Answers, ResultOf
<1>t. a.kind \notin ToolKinds
  BY DEF ToolKinds, CallKinds
<1>3. ASSUME NEW i \in DOMAIN r, i # 1
      PROVE  i - 1 \in 1..n /\ r[i].kind \in ToolKinds /\ r[i].call = i - 1
  <2>1. i - 1 \in 1..n /\ (i - 1) + 1 = i
    BY <1>n, <1>1, <1>3
  <2>2. ResultOf(r[i], a, i - 1)
    BY <1>2, <2>1
  <2> QED BY <2>1, <2>2 DEF ResultOf
<1>4. CallsAnswered(r)
  <2> SUFFICES ASSUME NEW i \in DOMAIN r, r[i].kind = "calls", NEW c \in 1..r[i].call
               PROVE  i + c <= Len(r) /\ Answers(r[i + c], r[i], c)
    BY DEF CallsAnswered
  <2>1. i = 1
    BY <1>3 DEF ToolKinds
  <2>2. r[i] = a /\ n = a.call
    BY <1>1, <2>1
  <2> QED BY <1>n, <1>1, <1>c, <2>1, <2>2
<1>5. ASSUME NEW i \in DOMAIN r, r[i].kind \in ToolKinds
      PROVE  Paired(r, i)
  <2>1. i # 1
    BY <1>1, <1>5, <1>t
  <2>2. i - 1 \in 1..n /\ r[i].call = i - 1 /\ i - (i - 1) = 1 /\ i \in Nat
    BY <1>n, <1>1, <1>3, <2>1
  <2>3. \A c \in 1..i - 1 : Answers(r[1 + c], r[1], c)
    BY <1>n, <1>1, <1>c, <2>2
  <2> QED BY <1>1, <2>2, <2>3 DEF Paired
<1>6. Closed(r)
  BY <1>4, <1>5, ClosedPaired
<1> QED BY <1>1, <1>2, <1>6 DEF r, T

\* What a checkpoint stands for.
LEMMA RestoredFacts ==
  ASSUME NEW c \in Checkpoint, CheckpointShape(c)
  PROVE  /\ Restored(c) \in Seq(Message) /\ Closed(Restored(c))
         /\ Len(Restored(c)) \in Nat /\ Len(Restored(c)) # 0
         /\ Restored(c)[1] = c.assistant
         /\ c.assistant.kind \in CallKinds \cup {"answer"}
         /\ c.assistant.kind = "answer" => Len(Restored(c)) = 1
         /\ \A i \in DOMAIN Restored(c) :
              i # 1 => ResultOf(Restored(c)[i], c.assistant, i - 1)
<1> DEFINE a == c.assistant
<1>0. a \in Message /\ a.call \in Nat
  BY MessageFields DEF Checkpoint
<1>1. CASE a.kind = "answer"
  <2>1. a.call = 0 /\ ~c.pending /\ c.completed = <<>>
    BY <1>1 DEF CheckpointShape, CallKinds
  <2>2. Restored(c) = <<a>>
    BY <1>0, <2>1 DEF Restored
  <2>3. Closed(<<a>>)
    BY <1>0, <1>1, ClosedOne DEF ToolKinds, CallKinds
  <2> QED BY <1>0, <1>1, <2>1, <2>2, <2>3
<1>2. CASE a.kind \in CallKinds
  <2>1. PICK kind \in ToolKinds, n \in 0..a.call :
          /\ a.kind = "calls" => n = a.call
          /\ Restored(c) = <<a>> \o ToolMessages(a, n, kind)
    <3>1. CASE c.pending
      <4>1. Restored(c) = <<a>> \o ToolMessages(a, a.call, "interrupted")
        BY <3>1 DEF Restored, ToolMessages
      <4> HIDE DEF a
      <4>2. a.call \in 0..a.call /\ "interrupted" \in ToolKinds
        BY <1>0 DEF ToolKinds
      <4> QED BY <4>1, <4>2
    <3>2. CASE ~c.pending
      <4>1. PICK n \in 0..a.call : /\ c.completed = ToolMessages(a, n, "result")
                                   /\ a.kind = "calls" => n = a.call
        BY <1>2, <3>2 DEF CheckpointShape, CallKinds
      <4>2. Restored(c) = <<a>> \o c.completed
        BY <3>2 DEF Restored
      <4> HIDE DEF a
      <4> QED BY <4>1, <4>2 DEF ToolKinds
    <3> QED BY <3>1, <3>2
  <2>2. /\ Restored(c) \in Seq(Message) /\ Len(Restored(c)) = n + 1 /\ Restored(c)[1] = a
        /\ \A i \in 1..n : ResultOf(Restored(c)[i + 1], a, i)
        /\ Closed(Restored(c))
    <3> HIDE DEF a
    <3> QED BY <1>0, <1>2, <2>1, ClosedCalls
  <2>n. n \in Nat
    <3> HIDE DEF a
    <3> QED BY <1>0, <2>1
  <2>3. ASSUME NEW i \in DOMAIN Restored(c), i # 1
        PROVE  ResultOf(Restored(c)[i], a, i - 1)
    <3> HIDE DEF a
    <3>1. i - 1 \in 1..n /\ (i - 1) + 1 = i
      BY <2>n, <2>2, <2>3
    <3> QED BY <2>2, <3>1
  <2>4. a.kind # "answer"
    BY <1>2 DEF CallKinds
  <2> QED BY <1>2, <2>n, <2>2, <2>3, <2>4
<1> QED BY <1>1, <1>2 DEF CheckpointShape

\* The messages of a checkpoint: of one turn and iteration, all different, none
\* of them of a user.
LEMMA RestoredKinds ==
  ASSUME NEW c \in Checkpoint, CheckpointShape(c)
  PROVE  /\ Distinct(Restored(c))
         /\ \A i \in DOMAIN Restored(c) :
              /\ Restored(c)[i].turn = c.assistant.turn
              /\ Restored(c)[i].kind \in ToolKinds \cup CallKinds \cup {"answer"}
<1> DEFINE a == c.assistant
           r == Restored(c)
<1>0. /\ r \in Seq(Message) /\ r[1] = a
      /\ a.kind \in CallKinds \cup {"answer"}
      /\ \A i \in DOMAIN r : i # 1 => ResultOf(r[i], a, i - 1)
  BY RestoredFacts
<1> HIDE DEF r, a
<1>2. Distinct(r)
  <2> SUFFICES ASSUME NEW i \in DOMAIN r, NEW j \in DOMAIN r, i # j, r[i] = r[j] PROVE FALSE
    BY DEF Distinct
  <2>0. i \in Nat /\ j \in Nat
    BY <1>0
  <2>1. \A k \in DOMAIN r : k # 1 => r[k].kind \in ToolKinds /\ r[k].call = k - 1
    BY <1>0 DEF ResultOf
  <2>2. r[1].kind \notin ToolKinds
    BY <1>0 DEF ToolKinds, CallKinds
  <2>3. i # 1 /\ j # 1
    BY <2>1, <2>2
  <2>4. i - 1 = j - 1
    BY <2>1, <2>3
  <2> QED BY <2>0, <2>4
<1>3. ASSUME NEW i \in DOMAIN r
      PROVE  r[i].turn = a.turn /\ r[i].kind \in ToolKinds \cup CallKinds \cup {"answer"}
  <2>1. CASE i = 1
    BY <1>0, <2>1
  <2>2. CASE i # 1
    <3>1. ResultOf(r[i], a, i - 1)
      BY <1>0, <2>2
    <3> QED BY <3>1 DEF ResultOf
  <2> QED BY <2>1, <2>2
<1> QED BY <1>2, <1>3 DEF r, a

LEMMA NoUserKinds == \A x \in ToolKinds \cup CallKinds \cup {"answer"} : x \notin UserKinds
BY DEF ToolKinds, CallKinds, UserKinds
----------------------------------------------------------------------------
(* Messages behind others *)

LEMMA PrefixDef ==
  ASSUME NEW s \in Seq(Message), NEW t \in Seq(Message)
  PROVE  IsPrefix(s, t) <=> Len(s) <= Len(t) /\ \A i \in 1..Len(s) : s[i] = t[i]
<1>0. Len(s) \in Nat /\ Len(t) \in Nat
  OBVIOUS
<1>1. ASSUME Len(s) <= Len(t)
      PROVE  SubSeq(s, 1, Len(s)) = SubSeq(t, 1, Len(s)) <=> \A i \in 1..Len(s) : s[i] = t[i]
  <2>1. SubSeq(s, 1, Len(s)) = [i \in 1..Len(s) |-> s[i]]
    BY <1>0
  <2>2. SubSeq(t, 1, Len(s)) = [i \in 1..Len(s) |-> t[i]]
    BY <1>0, <1>1
  <2> QED BY <2>1, <2>2
<1> QED BY <1>1 DEF IsPrefix

LEMMA PrefixConcat ==
  ASSUME NEW s \in Seq(Message), NEW t \in Seq(Message)
  PROVE  IsPrefix(s, s \o t)
<1>1. /\ s \o t \in Seq(Message) /\ Len(s) \in Nat /\ Len(t) \in Nat
      /\ Len(s \o t) = Len(s) + Len(t) /\ \A i \in 1..Len(s) : (s \o t)[i] = s[i]
  BY Joined
<1>2. Len(s) <= Len(s \o t)
  BY <1>1
<1> QED BY <1>1, <1>2, PrefixDef

LEMMA PrefixSame ==
  ASSUME NEW s \in Seq(Message)
  PROVE  IsPrefix(s, s)
BY PrefixDef

LEMMA PrefixTrans ==
  ASSUME NEW s \in Seq(Message), NEW t \in Seq(Message), NEW u \in Seq(Message),
         IsPrefix(s, t), IsPrefix(t, u)
  PROVE  IsPrefix(s, u)
<1>1. Len(s) \in Nat /\ Len(t) \in Nat /\ Len(u) \in Nat
  OBVIOUS
<1>2. Len(s) <= Len(t) /\ \A i \in 1..Len(s) : s[i] = t[i]
  BY PrefixDef
<1>3. Len(t) <= Len(u) /\ \A i \in 1..Len(t) : t[i] = u[i]
  BY PrefixDef
<1>4. Len(s) <= Len(u) /\ \A i \in 1..Len(s) : s[i] = u[i]
  BY <1>1, <1>2, <1>3
<1> QED BY <1>4, PrefixDef

LEMMA UsersAppend ==
  ASSUME NEW s \in Session, NEW u \in Session, NEW n \in Seq(Message), n # <<>>,
         u.messages = s.messages \o n, UsersAnswered(s),
         \A i \in DOMAIN n : n[i].kind # "user"
  PROVE  UsersAnswered(u)
<1> DEFINE ms == s.messages
           us == u.messages
<1>0. ms \in Seq(Message) /\ us = ms \o n /\ Len(ms) \in Nat /\ Len(n) \in Nat /\ Len(n) # 0
  BY DEF Session
<1>1. ASSUME NEW i \in DOMAIN ms, ms[i].kind = "user"
      PROVE  IF i = Len(ms) THEN s.pendingUserTurn ELSE ms[i + 1].kind # "user"
  BY <1>1 DEF UsersAnswered
<1> HIDE DEF ms, us
<1> SUFFICES ASSUME NEW i \in DOMAIN us, us[i].kind = "user"
             PROVE  i # Len(us) /\ us[i + 1].kind # "user"
  BY DEF UsersAnswered, us
<1>2. i \in 1..Len(ms) /\ us[i] = ms[i] /\ i \in DOMAIN ms
  <2>1. ~(i > Len(ms) /\ i - Len(ms) \in 1..Len(n) /\ us[i] = n[i - Len(ms)])
    BY <1>0
  <2> QED BY <1>0, <2>1, JoinedFrom
<1>3. Len(us) = Len(ms) + Len(n)
  BY <1>0
<1>4. i # Len(us)
  BY <1>0, <1>2, <1>3
<1>5. CASE i = Len(ms)
  <2>1. 1 \in DOMAIN n /\ us[Len(ms) + 1] = n[1]
    BY <1>0, Joined
  <2> QED BY <1>4, <1>5, <2>1
<1>6. CASE i # Len(ms)
  <2>1. i + 1 \in 1..Len(ms)
    BY <1>0, <1>2, <1>6
  <2>2. us[i + 1] = ms[i + 1]
    BY <1>0, <2>1, Joined
  <2> QED BY <1>1, <1>2, <1>4, <1>6, <2>2
<1> QED BY <1>5, <1>6

LEMMA LastUserAppend ==
  ASSUME NEW s \in Seq(Message), NEW n \in Seq(Message), NEW t, LastUserOf(s, t),
         \A i \in DOMAIN n : n[i].kind # "user"
  PROVE  LastUserOf(s \o n, t)
<1>0. Len(s) \in Nat /\ Len(n) \in Nat
  OBVIOUS
<1>1. PICK i \in DOMAIN s : /\ s[i].kind = "user" /\ s[i].turn = t
                            /\ \A j \in i + 1..Len(s) : s[j].kind # "user"
  BY DEF LastUserOf
<1>2. i \in 1..Len(s) /\ i \in DOMAIN (s \o n) /\ (s \o n)[i] = s[i]
  BY <1>0, Joined
<1>3. ASSUME NEW j \in i + 1..Len(s \o n) PROVE (s \o n)[j].kind # "user"
  <2>1. j \in DOMAIN (s \o n)
    BY <1>0, <1>2, Joined
  <2>2. CASE j \in 1..Len(s) /\ (s \o n)[j] = s[j]
    BY <1>0, <1>1, <1>2, <2>2
  <2>3. CASE j > Len(s) /\ j - Len(s) \in 1..Len(n) /\ (s \o n)[j] = n[j - Len(s)]
    BY <2>3
  <2> QED BY <2>1, <2>2, <2>3, JoinedFrom
<1> QED BY <1>1, <1>2, <1>3 DEF LastUserOf

LEMMA RememberedAppend ==
  ASSUME NEW s \in Seq(Message), NEW n \in Seq(Message), NEW e,
         RememberedIn(s, e) \/ RememberedIn(n, e)
  PROVE  RememberedIn(s \o n, e)
<1>0. Len(s) \in Nat /\ Len(n) \in Nat
  OBVIOUS
<1>1. CASE RememberedIn(s, e)
  <2>1. \A i \in DOMAIN s : i \in DOMAIN (s \o n) /\ (s \o n)[i] = s[i]
    BY <1>0, Joined
  <2> QED BY <1>1, <2>1 DEF RememberedIn
<1>2. CASE RememberedIn(n, e)
  <2>1. \A i \in DOMAIN n : Len(s) + i \in DOMAIN (s \o n) /\ (s \o n)[Len(s) + i] = n[i]
    BY <1>0, Joined
  <2> QED BY <1>2, <2>1 DEF RememberedIn
<1> QED BY <1>1, <1>2

LEMMA DistinctAppend ==
  ASSUME NEW s \in Seq(Message), NEW n \in Seq(Message), Distinct(s), Distinct(n),
         \A i \in DOMAIN s, j \in DOMAIN n : s[i] # n[j]
  PROVE  Distinct(s \o n)
<1> SUFFICES ASSUME NEW i \in DOMAIN (s \o n), NEW j \in DOMAIN (s \o n), i # j
             PROVE  (s \o n)[i] # (s \o n)[j]
  BY DEF Distinct
<1>0. Len(s) \in Nat /\ Len(n) \in Nat /\ i \in Nat /\ j \in Nat
      /\ DOMAIN s = 1..Len(s) /\ DOMAIN n = 1..Len(n)
  BY Joined
<1>1. \/ i \in 1..Len(s) /\ (s \o n)[i] = s[i]
      \/ i > Len(s) /\ i - Len(s) \in 1..Len(n) /\ (s \o n)[i] = n[i - Len(s)]
  BY JoinedFrom
<1>2. \/ j \in 1..Len(s) /\ (s \o n)[j] = s[j]
      \/ j > Len(s) /\ j - Len(s) \in 1..Len(n) /\ (s \o n)[j] = n[j - Len(s)]
  BY JoinedFrom
<1>3. i - Len(s) # j - Len(s)
  BY <1>0
<1> QED BY <1>0, <1>1, <1>2, <1>3 DEF Distinct

LEMMA TurnsAppend ==
  ASSUME NEW s \in Seq(Message), NEW n \in Seq(Message), NEW t \in Nat,
         \A i \in DOMAIN s : s[i].turn <= t, \A i \in DOMAIN n : n[i].turn <= t
  PROVE  \A i \in DOMAIN (s \o n) : (s \o n)[i].turn <= t
<1> SUFFICES ASSUME NEW i \in DOMAIN (s \o n) PROVE (s \o n)[i].turn <= t
  OBVIOUS
<1>0. DOMAIN s = 1..Len(s) /\ DOMAIN n = 1..Len(n)
  BY Joined
<1> QED BY <1>0, JoinedFrom
----------------------------------------------------------------------------
(* RESTORE *)

LEMMA SessionFields ==
  ASSUME NEW s \in Session
  PROVE  /\ s.messages \in Seq(Message) /\ s.pendingUserTurn \in BOOLEAN
         /\ s.checkpoint \in {NoCheckpoint} \cup Checkpoint /\ s.msgEnd \in Nat
         /\ s.drained \in Seq(Message) /\ s.warm \in Seq(Message)
         /\ Conversation(s) \in Seq(Message)
BY DEF Session, Conversation

LEMMA Associative ==
  ASSUME NEW s \in Seq(Message), NEW t \in Seq(Message), NEW u \in Seq(Message)
  PROVE  (s \o t) \o u = s \o (t \o u)
BY ConcatAssociative

\* The current messages are the end of the conversation.
LEMMA CurrentEnds ==
  ASSUME NEW s \in Session
  PROVE  \E d \in Nat :
           /\ Len(Conversation(s)) = d + Len(s.messages) /\ Len(s.messages) \in Nat
           /\ \A i \in 1..Len(s.messages) : /\ d + i \in DOMAIN Conversation(s)
                                            /\ Conversation(s)[d + i] = s.messages[i]
<1> DEFINE old == s.drained \o s.warm
           ms  == s.messages
<1>1. old \in Seq(Message) /\ ms \in Seq(Message) /\ Conversation(s) = old \o ms
  BY SessionFields DEF Conversation
<1> HIDE DEF old, ms
<1>2. /\ Len(old) \in Nat /\ Len(ms) \in Nat /\ Len(old \o ms) = Len(old) + Len(ms)
      /\ DOMAIN (old \o ms) = 1..(Len(old) + Len(ms))
      /\ \A i \in 1..Len(ms) : (old \o ms)[Len(old) + i] = ms[i]
  BY <1>1, Joined
<1>3. \A i \in 1..Len(ms) : Len(old) + i \in 1..(Len(old) + Len(ms))
  BY <1>2
<1> QED BY <1>1, <1>2, <1>3 DEF ms

LEMMA LastOfConversation ==
  ASSUME NEW s \in Session, s.messages # <<>>
  PROVE  /\ Len(Conversation(s)) \in DOMAIN Conversation(s)
         /\ Conversation(s)[Len(Conversation(s))] = Last(s.messages)
<1> DEFINE ms == s.messages
           cs == Conversation(s)
<1>1. PICK d \in Nat : /\ Len(cs) = d + Len(ms) /\ Len(ms) \in Nat
                       /\ \A i \in 1..Len(ms) : d + i \in DOMAIN cs /\ cs[d + i] = ms[i]
  BY CurrentEnds
<1>2. ms \in Seq(Message) /\ ms # <<>>
  BY SessionFields
<1> HIDE DEF ms, cs
<1>3. Len(ms) \in 1..Len(ms) /\ Last(ms) = ms[Len(ms)]
  BY <1>2 DEF Last
<1>4. d + Len(ms) \in DOMAIN cs /\ cs[d + Len(ms)] = Last(ms)
  BY <1>1, <1>3
<1> QED BY <1>1, <1>4 DEF ms, cs

LEMMA ConversationGrows ==
  ASSUME NEW s \in Session, NEW u \in Session, NEW n \in Seq(Message),
         u.drained = s.drained, u.warm = s.warm, u.messages = s.messages \o n
  PROVE  Conversation(u) = Conversation(s) \o n
<1> DEFINE old == s.drained \o s.warm
           ms  == s.messages
<1>1. old \in Seq(Message) /\ ms \in Seq(Message)
  BY SessionFields
<1>2. Conversation(s) = old \o ms /\ Conversation(u) = old \o (ms \o n)
  BY DEF Conversation
<1> HIDE DEF old, ms
<1>3. (old \o ms) \o n = old \o (ms \o n)
  BY <1>1, Associative
<1> QED BY <1>2, <1>3

\* restore_checkpoint finds all that a checkpoint stands for or nothing of it:
\* a part of it would end with a call or a result.
LEMMA RestoreFacts ==
  ASSUME NEW s, IsSession(s), s.checkpoint # NoCheckpoint, CheckpointShape(s.checkpoint),
         s.messages # <<>>, Last(s.messages).kind \notin ToolKinds \cup CallKinds
  PROVE  LET r == Restored(s.checkpoint)
             u == RestoreCheckpoint(s)
         IN  /\ u \in Session /\ r \in Seq(Message)
             /\ u.messages = IF HasTail(s.messages, r) THEN s.messages ELSE s.messages \o r
             /\ u.drained = s.drained /\ u.warm = s.warm
             /\ u.pendingUserTurn = FALSE /\ u.checkpoint = NoCheckpoint /\ u.msgEnd = s.msgEnd
<1> DEFINE ms == s.messages
           c == s.checkpoint
           r == Restored(c)
           matches == {n \in 0..Len(r) : n <= Len(ms)
                            /\ SubSeq(ms, Len(ms) - n + 1, Len(ms)) = SubSeq(r, 1, n)}
           overlap == CHOOSE n \in matches : \A k \in matches : k <= n
           new == SubSeq(r, overlap + 1, Len(r))
<1>0. s \in Session /\ ms \in Seq(Message) /\ c \in Checkpoint /\ Len(ms) \in Nat
      /\ Last(ms).kind \notin ToolKinds \cup CallKinds /\ Last(ms) = ms[Len(ms)]
  BY SessionFields DEF IsSession, Last
<1>1. /\ r \in Seq(Message) /\ r[1] = c.assistant /\ Len(r) # 0
      /\ c.assistant.kind \in CallKinds \cup {"answer"}
      /\ c.assistant.kind = "answer" => Len(r) = 1
      /\ \A i \in DOMAIN r : i # 1 => ResultOf(r[i], c.assistant, i - 1)
  BY <1>0, RestoredFacts
<1>2. Len(r) \in Nat /\ Len(r) # 0
  BY <1>1
<1>3. 0 \in matches
  <2>1. SubSeq(ms, Len(ms) - 0 + 1, Len(ms)) = <<>>
    BY <1>0, SubSeqEmpty
  <2>2. SubSeq(r, 1, 0) = <<>>
    BY SubSeqEmpty
  <2> HIDE DEF r, ms
  <2> QED BY <1>0, <1>2, <2>1, <2>2
<1>4. ASSUME NEW n \in matches, n # 0 PROVE n = Len(r)
  <2>1. n \in 1..Len(r) /\ n <= Len(ms) /\ SubSeq(ms, Len(ms) - n + 1, Len(ms)) = SubSeq(r, 1, n)
    <3> HIDE DEF r, ms
    <3> QED BY <1>2, <1>4
  <2> DEFINE p == Len(ms) - n + 1
  <2>2. p \in 1..Len(ms) /\ n \in Nat
    <3> HIDE DEF r, ms
    <3> QED BY <1>0, <1>2, <2>1
  <2>3. ms[Len(ms)] = r[n]
    <3> HIDE DEF r, ms, c
    <3>1. SubSeq(ms, p, Len(ms))[n] = ms[Len(ms)]
      <4>1. p \in Int /\ Len(ms) \in Int /\ \A i \in p..Len(ms) : ms[i] \in Message
        BY <1>0, <2>2
      <4>2. \A i \in 1..Len(ms) - p + 1 : SubSeq(ms, p, Len(ms))[i] = ms[p + i - 1]
        BY <4>1, SubSeqProperties
      <4>3. n \in 1..Len(ms) - p + 1 /\ p + n - 1 = Len(ms)
        BY <1>0, <2>1, <2>2
      <4> HIDE DEF p
      <4> QED BY <4>2, <4>3
    <3>2. SubSeq(r, 1, n)[n] = r[n]
      <4>1. 1 \in Int /\ n \in Int /\ \A i \in 1..n : r[i] \in Message
        <5>1. r \in Seq(Message)
          BY <1>1
        <5>2. n \in Nat /\ 1..n \subseteq 1..Len(r)
          BY <1>2, <2>1
        <5> QED BY <5>1, <5>2
      <4>2. \A i \in 1..n - 1 + 1 : SubSeq(r, 1, n)[i] = r[1 + i - 1]
        BY <4>1, SubSeqProperties
      <4>3. n \in 1..n - 1 + 1 /\ 1 + n - 1 = n
        BY <1>2, <2>1
      <4> QED BY <4>2, <4>3
    <3>3. SubSeq(ms, p, Len(ms)) = SubSeq(r, 1, n)
      BY <2>1
    <3> QED BY <3>1, <3>2, <3>3, Zenon
  <2> HIDE DEF r, ms, c
  <2>4. n \in DOMAIN r
    BY <1>1, <2>1
  <2>5. n = 1
    <3>1. r[n].kind \notin ToolKinds
      BY <1>0, <2>3
    <3> QED BY <1>1, <2>4, <3>1 DEF ResultOf
  <2>6. c.assistant.kind = "answer"
    BY <1>0, <1>1, <2>3, <2>5
  <2> QED BY <1>1, <2>5, <2>6
<1>5. HasTail(ms, r) <=> Len(r) \in matches
  <2> HIDE DEF r, ms
  <2> QED BY <1>2 DEF HasTail
<1>6. overlap = IF HasTail(ms, r) THEN Len(r) ELSE 0
  <2> HIDE DEF ms, c, r
  <2>1. CASE HasTail(ms, r)
    <3>1. Len(r) \in matches /\ \A n \in matches : n <= Len(r) /\ n \in Nat
      BY <1>2, <1>5, <2>1
    <3> HIDE DEF matches
    <3>2. ASSUME NEW m \in matches, \A k \in matches : k <= m PROVE m = Len(r)
      BY <1>2, <3>1, <3>2
    <3> QED BY <2>1, <3>1, <3>2
  <2>2. CASE ~HasTail(ms, r)
    <3>1. matches = {0}
      BY <1>3, <1>4, <1>5, <2>2
    <3> HIDE DEF matches
    <3> QED BY <2>2, <3>1
  <2> QED BY <2>1, <2>2
<1>7. ms \o new = (IF HasTail(ms, r) THEN ms ELSE ms \o r) /\ ms \o new \in Seq(Message)
  <2> HIDE DEF ms, c, r, overlap
  <2>1. CASE HasTail(ms, r)
    <3>1. new = <<>>
      <4>1. overlap + 1 > Len(r) /\ overlap + 1 \in Int /\ Len(r) \in Int
        BY <1>2, <1>6, <2>1
      <4> QED BY <4>1, SubSeqEmpty
    <3> HIDE DEF new
    <3>2. ms \o <<>> = ms
      BY <1>0, ConcatEmptySeq
    <3> QED BY <1>0, <2>1, <3>1, <3>2
  <2>2. CASE ~HasTail(ms, r)
    <3>1. overlap + 1 = 1
      BY <1>6, <2>2
    <3>2. new = r
      BY <1>1, <3>1, SubSeqFull
    <3> HIDE DEF new
    <3>3. ms \o r \in Seq(Message)
      BY <1>0, <1>1
    <3> QED BY <2>2, <3>2, <3>3
  <2> QED BY <2>1, <2>2
<1>8. RestoreCheckpoint(s) = [s EXCEPT !.messages = ms \o new, !.pendingUserTurn = FALSE,
                                       !.checkpoint = NoCheckpoint]
  BY DEF RestoreCheckpoint
<1> HIDE DEF new
<1>9. /\ RestoreCheckpoint(s) \in Session
      /\ RestoreCheckpoint(s).messages = ms \o new
      /\ RestoreCheckpoint(s).drained = s.drained
      /\ RestoreCheckpoint(s).warm = s.warm
      /\ RestoreCheckpoint(s).pendingUserTurn = FALSE
      /\ RestoreCheckpoint(s).checkpoint = NoCheckpoint
      /\ RestoreCheckpoint(s).msgEnd = s.msgEnd
  <2> HIDE DEF ms
  <2> QED BY <1>0, <1>7, <1>8 DEF Session
<1> QED BY <1>1, <1>7, <1>9

\* With a whole match the checkpoint's answer is the last message.
LEMMA MatchedThere ==
  ASSUME NEW ms \in Seq(Message), NEW r \in Seq(Message), r # <<>>, HasTail(ms, r)
  PROVE  \A i \in DOMAIN r : \E j \in DOMAIN ms : ms[j] = r[i]
<1> DEFINE d == Len(ms) - Len(r)
<1>0. Len(ms) \in Nat /\ Len(r) \in Nat
  OBVIOUS
<1>1. d \in Nat /\ SubSeq(ms, d + 1, Len(ms)) = SubSeq(r, 1, Len(r)) /\ d + Len(r) = Len(ms)
  BY <1>0 DEF HasTail
<1>2. SubSeq(r, 1, Len(r)) = r
  BY <1>0, SubSeqFull
<1> SUFFICES ASSUME NEW i \in 1..Len(r) PROVE d + i \in DOMAIN ms /\ ms[d + i] = r[i]
  BY <1>0
<1> HIDE DEF d
<1>3. d + 1 \in Int /\ Len(ms) \in Int /\ \A j \in (d + 1)..Len(ms) : ms[j] \in Message
  BY <1>0, <1>1
<1>4. \A j \in 1..Len(ms) - (d + 1) + 1 : SubSeq(ms, d + 1, Len(ms))[j] = ms[(d + 1) + j - 1]
  BY <1>3, SubSeqProperties
<1>5. i \in 1..Len(ms) - (d + 1) + 1 /\ (d + 1) + i - 1 = d + i /\ d + i \in 1..Len(ms)
  BY <1>0, <1>1
<1>6. d + i \in DOMAIN ms
  BY <1>0, <1>5
<1> QED BY <1>1, <1>2, <1>4, <1>5, <1>6

LEMMA MatchedLast ==
  ASSUME NEW ms \in Seq(Message), NEW r \in Seq(Message), r # <<>>, HasTail(ms, r)
  PROVE  Last(ms) = r[Len(r)]
<1>0. Len(ms) \in Nat /\ Len(r) \in Nat /\ Len(r) # 0
  OBVIOUS
<1>1. /\ Len(r) <= Len(ms)
      /\ SubSeq(ms, Len(ms) - Len(r) + 1, Len(ms)) = SubSeq(r, 1, Len(r))
  BY DEF HasTail
<1> DEFINE p == Len(ms) - Len(r) + 1
<1>2. SubSeq(r, 1, Len(r)) = r
  BY <1>0, SubSeqFull
<1>3. p \in Int /\ Len(ms) \in Int /\ \A i \in p..Len(ms) : ms[i] \in Message
  BY <1>0, <1>1
<1>4. \A i \in 1..Len(ms) - p + 1 : SubSeq(ms, p, Len(ms))[i] = ms[p + i - 1]
  BY <1>3, SubSeqProperties
<1>5. Len(r) \in 1..Len(ms) - p + 1 /\ p + Len(r) - 1 = Len(ms)
  BY <1>0, <1>1
<1>6. SubSeq(ms, p, Len(ms))[Len(r)] = ms[Len(ms)]
  <2> HIDE DEF p
  <2> QED BY <1>4, <1>5
<1> QED BY <1>1, <1>2, <1>6 DEF Last

\* restore_checkpoint leaves a session that can be restored, without its
\* checkpoint, and drops no message.
LEMMA RestoreKeeps ==
  ASSUME NEW s, IsSession(s), NEW t \in Nat, NEW k, NEW ex, NEW db,
         Restorable(s, t, k, ex, db)
  PROVE  LET u == RestoreCheckpoint(s)
         IN  /\ IsSession(u) /\ Restorable(u, t, k, ex, db)
             /\ IsPrefix(Conversation(s), Conversation(u))
             /\ u.checkpoint = NoCheckpoint
             /\ s.checkpoint = NoCheckpoint => u = s
<1> DEFINE u == RestoreCheckpoint(s)
<1>1. CASE s.checkpoint = NoCheckpoint
  <2>1. u = s
    BY <1>1 DEF RestoreCheckpoint
  <2>2. Conversation(s) \in Seq(Message)
    BY SessionFields DEF IsSession
  <2> HIDE DEF u
  <2> QED BY <1>1, <2>1, <2>2, PrefixSame DEF u
<1>2. CASE s.checkpoint # NoCheckpoint
  <2> DEFINE c == s.checkpoint
             r == Restored(c)
             ms == s.messages
             us == u.messages
             cs == Conversation(s)
             cu == Conversation(u)
  <2>0. /\ CheckpointShape(c) /\ CallsAnswered(ms) /\ LastUserOf(ms, c.assistant.turn)
        /\ c.assistant.turn \notin k
        /\ ms # <<>> /\ Last(ms).kind \notin ToolKinds \cup CallKinds
    BY <1>2 DEF Restorable, MarksOf
  <2>1. /\ u \in Session /\ us = IF HasTail(ms, r) THEN ms ELSE ms \o r
        /\ u.drained = s.drained /\ u.warm = s.warm /\ r \in Seq(Message)
        /\ u.pendingUserTurn = FALSE /\ u.checkpoint = NoCheckpoint /\ u.msgEnd = s.msgEnd
    BY <1>2, <2>0, RestoreFacts
  <2>2. /\ c \in Checkpoint /\ ms \in Seq(Message) /\ s \in Session /\ s.msgEnd <= Len(ms)
        /\ s.msgEnd \in Nat /\ Len(ms) \in Nat /\ us \in Seq(Message)
        /\ cs \in Seq(Message) /\ cu \in Seq(Message)
    <3>1. us \in Seq(Message) /\ cu \in Seq(Message)
      <4>1. u \in Session
        BY <2>1
      <4> HIDE DEF u
      <4> QED BY <4>1, SessionFields
    <3> QED BY <1>2, <3>1, SessionFields DEF IsSession
  <2>3. /\ r \in Seq(Message) /\ Closed(r) /\ Len(r) \in Nat /\ Len(r) # 0 /\ r[1] = c.assistant
    BY <2>0, <2>2, RestoredFacts
  <2>4. /\ Distinct(r)
        /\ \A i \in DOMAIN r : /\ r[i].turn = c.assistant.turn
                               /\ r[i].kind \in ToolKinds \cup CallKinds \cup {"answer"}
                               /\ r[i].kind \notin {"user", "closed"}
    BY <2>0, <2>2, RestoredKinds DEF ToolKinds, CallKinds
  <2>5. HasTail(ms, r) => us = ms /\ cu = cs
    BY <2>1 DEF Conversation
  <2>6. ~HasTail(ms, r) => us = ms \o r /\ cu = cs \o r
    BY <2>1, <2>2, ConversationGrows
  <2>n. r # <<>> /\ DOMAIN r = 1..Len(r) /\ 1 \in DOMAIN r
    BY <2>3
  <2>a. /\ MarksOf(s, k) /\ (db \/ OnceIn(s))
        /\ \A i \in DOMAIN cs : cs[i].turn <= t
        /\ MaxTrim = 0 => /\ Closed(ms) /\ UsersAnswered(s) /\ StartsWithUser(ms)
                          /\ WorkIn(s, ex)
    BY DEF Restorable
  <2>q. PICK d \in Nat : /\ Len(cs) = d + Len(ms)
                         /\ \A i \in 1..Len(ms) : d + i \in DOMAIN cs /\ cs[d + i] = ms[i]
    BY <2>2, CurrentEnds
  <2>m. PICK q \in DOMAIN ms : ms[q].turn = c.assistant.turn
    BY <2>0 DEF LastUserOf
  <2> HIDE DEF u, c, r, ms, us, cs, cu
  <2>b. /\ u.messages = us /\ s.messages = ms /\ s.checkpoint = c /\ Restored(c) = r
        /\ Conversation(s) = cs /\ Conversation(u) = cu
    BY DEF us, ms, c, r, cs, cu
  <2>7. IsSession(u) /\ IsPrefix(cs, cu)
    <3>1. IsPrefix(ms, us) /\ IsPrefix(cs, cu)
      BY <2>2, <2>3, <2>5, <2>6, PrefixConcat, PrefixSame
    <3>2. Len(ms) <= Len(us) /\ Len(us) \in Nat
      BY <2>2, <3>1, PrefixDef
    <3> QED BY <2>1, <2>2, <2>b, <3>1, <3>2 DEF IsSession
  <2>8. CallsAnswered(us) /\ (MaxTrim = 0 => Closed(us))
    BY <2>0, <2>2, <2>3, <2>5, <2>6, <2>a, ClosedConcat, ClosedAnswered, AnsweredConcat
  <2>9. \A i \in DOMAIN cu : cu[i].turn <= t
    <3>0. d + q \in DOMAIN cs /\ cs[d + q].turn = c.assistant.turn
      BY <2>2, <2>q, <2>m
    <3>1. \A i \in DOMAIN r : r[i].turn <= t
      BY <2>4, <2>a, <3>0
    <3> QED BY <2>2, <2>3, <2>5, <2>6, <2>a, <3>1, TurnsAppend
  <2>10. ASSUME MaxTrim = 0 PROVE UsersAnswered(u) /\ StartsWithUser(us)
    <3>1. CASE ~HasTail(ms, r)
      <4>1. u.messages = s.messages \o r
        BY <2>6, <2>b, <3>1
      <4>2. \A i \in DOMAIN r : r[i].kind # "user"
        BY <2>4
      <4>3. UsersAnswered(u)
        BY <2>1, <2>2, <2>3, <2>n, <2>a, <2>10, <4>1, <4>2, UsersAppend
      <4>4. us[1] = ms[1]
        BY <2>0, <2>2, <2>3, <2>6, <3>1, Joined
      <4> QED BY <2>0, <2>a, <2>10, <4>3, <4>4 DEF StartsWithUser
    <3>2. CASE HasTail(ms, r)
      <4>1. us = ms
        BY <2>5, <3>2
      <4>2. us[Len(us)].kind # "user"
        <5>1. Last(ms) = r[Len(r)]
          BY <2>0, <2>2, <2>3, <3>2, MatchedLast
        <5>2. Len(r) \in DOMAIN r /\ us[Len(us)] = Last(ms)
          BY <2>3, <2>n, <4>1 DEF Last
        <5> QED BY <2>4, <5>1, <5>2
      <4> QED BY <2>a, <2>b, <2>10, <4>1, <4>2 DEF UsersAnswered
    <3> QED BY <3>1, <3>2
  <2>11. MarksOf(u, k)
    <3> SUFFICES ASSUME NEW i \in s.msgEnd + 1..Len(us) PROVE us[i].turn \notin k
      BY <2>1, <2>b DEF MarksOf
    <3>0. \A j \in s.msgEnd + 1..Len(ms) : ms[j].turn \notin k
      BY <2>a, <2>b DEF MarksOf
    <3>1. CASE us = ms
      BY <3>0, <3>1
    <3>2. CASE us = ms \o r
      <4>1. i \in DOMAIN us
        BY <2>2
      <4>2. CASE i \in 1..Len(ms) /\ us[i] = ms[i]
        <5>1. i \in s.msgEnd + 1..Len(ms)
          BY <2>2, <4>2
        <5> QED BY <3>0, <4>2, <5>1
      <4>3. CASE i > Len(ms) /\ i - Len(ms) \in 1..Len(r) /\ us[i] = r[i - Len(ms)]
        BY <2>0, <2>4, <2>n, <4>3
      <4> QED BY <2>2, <2>3, <3>2, <4>1, <4>2, <4>3, JoinedFrom
    <3> QED BY <2>5, <2>6, <3>1, <3>2
  <2>12. ASSUME MaxTrim = 0 PROVE WorkIn(u, ex)
    <3> SUFFICES ASSUME NEW e \in ex PROVE RememberedIn(cu, e)
      BY <2>b DEF WorkIn
    <3>1. CASE RememberedIn(cs, e)
      BY <2>2, <2>3, <2>5, <2>6, <3>1, RememberedAppend
    <3>2. CASE Remembers(c.assistant, e)
      <4>1. CASE ~HasTail(ms, r)
        <5>1. RememberedIn(r, e)
          BY <2>3, <2>n, <3>2 DEF RememberedIn
        <5> QED BY <2>2, <2>3, <2>6, <4>1, <5>1, RememberedAppend
      <4>2. CASE HasTail(ms, r)
        <5>0. \A i \in DOMAIN r : \E j \in DOMAIN ms : ms[j] = r[i]
          BY <2>2, <2>3, <2>n, <4>2, MatchedThere
        <5>1. PICK j \in DOMAIN ms : ms[j] = c.assistant
          BY <2>3, <2>n, <5>0
        <5>2. d + j \in DOMAIN cs /\ cs[d + j] = c.assistant
          BY <2>2, <2>q, <5>1
        <5> QED BY <2>5, <3>2, <4>2, <5>2 DEF RememberedIn
      <4> QED BY <4>1, <4>2
    <3> QED BY <2>a, <2>b, <2>12, <3>1, <3>2 DEF WorkIn
  <2>13. db \/ OnceIn(u)
    <3> SUFFICES ASSUME ~db PROVE Distinct(cu)
      BY <2>1, <2>b DEF OnceIn
    <3>0. Distinct(cs) /\ (HasTail(ms, r) \/ OnlyUser(cs, c.assistant.turn))
      BY <1>2, <2>a, <2>b DEF OnceIn
    <3>1. CASE HasTail(ms, r)
      BY <2>5, <3>0, <3>1
    <3>2. CASE ~HasTail(ms, r)
      <4>1. \A i \in DOMAIN cs, j \in DOMAIN r : cs[i] # r[j]
        BY <2>4, <3>0, <3>2 DEF OnlyUser
      <4>2. cu = cs \o r
        BY <2>6, <3>2
      <4> QED BY <2>2, <2>3, <2>4, <3>0, <4>1, <4>2, DistinctAppend
    <3> QED BY <3>1, <3>2
  <2>14. PendingOpen(u)
    BY <2>1 DEF PendingOpen
  <2>15. Restorable(u, t, k, ex, db)
    BY <2>8, <2>9, <2>10, <2>11, <2>12, <2>13, <2>14, <2>b DEF Restorable
  <2> QED BY <1>2, <2>1, <2>7, <2>15, <2>b DEF u
<1> QED BY <1>1, <1>2

\* restore_pending_user_turn closes the turn.
LEMMA PendingKeeps ==
  ASSUME NEW s, IsSession(s), NEW t \in Nat, NEW k, NEW ex, NEW db,
         Restorable(s, t, k, ex, db), s.checkpoint = NoCheckpoint
  PROVE  LET u == RestorePendingUserTurn(s)
         IN  /\ IsSession(u) /\ Restorable(u, t, k, ex, db)
             /\ IsPrefix(Conversation(s), Conversation(u))
             /\ u.checkpoint = NoCheckpoint /\ ~u.pendingUserTurn
<1> DEFINE u == RestorePendingUserTurn(s)
           ms == s.messages
           us == u.messages
           cs == Conversation(s)
           cu == Conversation(u)
<1>0. /\ s \in Session /\ ms \in Seq(Message) /\ s.msgEnd <= Len(ms)
      /\ s.msgEnd \in Nat /\ Len(ms) \in Nat /\ s.pendingUserTurn \in BOOLEAN
      /\ cs \in Seq(Message)
  BY SessionFields DEF IsSession
<1>1. CASE ~s.pendingUserTurn
  <2>1. u = s
    BY <1>1 DEF RestorePendingUserTurn
  <2> HIDE DEF u
  <2> QED BY <1>0, <1>1, <2>1, PrefixSame DEF u
<1>2. CASE s.pendingUserTurn
  <2> DEFINE m == [Last(ms) EXCEPT !.kind = "closed"]
             n == IF ms # <<>> /\ Last(ms).kind \in UserKinds THEN <<m>> ELSE <<>>
  <2>1. ms # <<>> /\ Last(ms) \in Message /\ Last(ms) = ms[Len(ms)] /\ Len(ms) \in DOMAIN ms
    <3>1. ms # <<>>
      BY <1>2 DEF Restorable, PendingOpen
    <3> HIDE DEF ms
    <3> QED BY <1>0, <3>1 DEF Last
  <2>2. m \in Message /\ m.kind = "closed" /\ m.turn = Last(ms).turn
    <3>1. "closed" \in Kinds
      BY DEF Kinds
    <3> HIDE DEF ms
    <3> QED BY <2>1, <3>1 DEF Message
  <2>3. u = [s EXCEPT !.pendingUserTurn = FALSE,
                      !.messages = IF ms # <<>> /\ Last(ms).kind \in UserKinds
                                     THEN Append(ms, m) ELSE ms]
    BY <1>2 DEF RestorePendingUserTurn
  <2>4. /\ u \in Session /\ us = ms \o n /\ n \in Seq(Message)
        /\ u.drained = s.drained /\ u.warm = s.warm
        /\ u.pendingUserTurn = FALSE /\ u.checkpoint = NoCheckpoint /\ u.msgEnd = s.msgEnd
    <3> HIDE DEF ms, m
    <3>1. (IF ms # <<>> /\ Last(ms).kind \in UserKinds THEN Append(ms, m) ELSE ms) = ms \o n
      BY <1>0, <2>2, ConcatEmptySeq, AppendIsConcat
    <3>2. ms \o n \in Seq(Message) /\ n \in Seq(Message)
      BY <1>0, <2>2
    <3> HIDE DEF n
    <3>3. u = [s EXCEPT !.pendingUserTurn = FALSE, !.messages = ms \o n]
      BY <2>3, <3>1, Zenon
    <3> HIDE DEF u
    <3> QED BY <1>0, <3>2, <3>3 DEF Session
  <2>5. Len(n) \in Nat /\ \A i \in DOMAIN n : n[i] = m /\ DOMAIN n = {1}
    <3> HIDE DEF m
    <3> QED BY <2>2
  <2>a. /\ MarksOf(s, k) /\ PendingOpen(s) /\ CallsAnswered(ms)
        /\ db \/ OnceIn(s)
        /\ \A i \in DOMAIN cs : cs[i].turn <= t
        /\ MaxTrim = 0 => /\ Closed(ms) /\ UsersAnswered(s) /\ StartsWithUser(ms)
                          /\ WorkIn(s, ex)
    BY DEF Restorable
  <2>b. u.messages = us /\ s.messages = ms /\ Conversation(s) = cs /\ Conversation(u) = cu
    OBVIOUS
  <2>e. Len(cs) \in DOMAIN cs /\ cs[Len(cs)] = Last(ms)
    BY <1>0, <2>1, LastOfConversation
  <2>f. cu = cs \o n
    BY <1>0, <2>4, ConversationGrows
  <2>c. Last(ms).kind \in UserKinds => n = <<m>>
    BY <2>1
  <2>d. Last(ms).kind \notin UserKinds => n = <<>>
    OBVIOUS
  <2> HIDE DEF u, ms, us, m, n, cs, cu
  <2>7. IsSession(u) /\ IsPrefix(cs, cu)
    <3>1. Len(us) = Len(ms) + Len(n)
      BY <1>0, <2>4, Joined
    <3>2. IsPrefix(cs, cu)
      BY <1>0, <2>4, <2>f, PrefixConcat
    <3> QED BY <1>0, <2>4, <2>5, <2>b, <3>1, <3>2 DEF IsSession
  <2>8. CallsAnswered(us) /\ (MaxTrim = 0 => Closed(us))
    <3>1. Closed(n)
      <4>1. Closed(<<m>>)
        BY <2>2, ClosedOne DEF ToolKinds, CallKinds
      <4> QED BY <2>c, <2>d, <4>1, ClosedEmpty
    <3> QED BY <1>0, <2>4, <2>a, <3>1, ClosedConcat, ClosedAnswered, AnsweredConcat
  <2>9. \A i \in DOMAIN cu : cu[i].turn <= t
    <3>1. \A i \in DOMAIN n : n[i].turn <= t
      BY <2>2, <2>5, <2>a, <2>e
    <3> QED BY <1>0, <2>4, <2>a, <2>f, <3>1, TurnsAppend
  <2>s. ASSUME MaxTrim = 0 PROVE StartsWithUser(us)
    <3>1. us[1] = ms[1]
      BY <1>0, <2>1, <2>4, Joined
    <3> QED BY <2>1, <2>a, <2>s, <3>1 DEF StartsWithUser
  <2>10. ASSUME MaxTrim = 0 PROVE UsersAnswered(u)
    <3>1. CASE Last(ms).kind \in UserKinds
      <4>1. n # <<>> /\ \A i \in DOMAIN n : n[i].kind # "user"
        <5>1. n = <<m>> /\ m.kind # "user"
          BY <2>2, <2>c, <3>1
        <5> QED BY <5>1
      <4> QED BY <1>0, <2>4, <2>a, <2>b, <2>10, <4>1, UsersAppend
    <3>2. CASE Last(ms).kind \notin UserKinds
      <4>1. us = ms
        BY <1>0, <2>4, <2>d, <3>2, ConcatEmptySeq
      <4>2. ms[Len(ms)].kind # "user"
        BY <2>1, <3>2 DEF UserKinds
      <4> QED BY <2>a, <2>b, <2>10, <4>1, <4>2 DEF UsersAnswered
    <3> QED BY <3>1, <3>2
  <2>11. MarksOf(u, k)
    <3> SUFFICES ASSUME NEW i \in s.msgEnd + 1..Len(us) PROVE us[i].turn \notin k
      BY <2>4, <2>b DEF MarksOf
    <3>0. (\A j \in s.msgEnd + 1..Len(ms) : ms[j].turn \notin k) /\ Last(ms).turn \notin k
      BY <1>2, <2>a, <2>b DEF MarksOf
    <3>1. us \in Seq(Message)
      BY <2>4, <2>b, SessionFields
    <3>2. i \in DOMAIN us
      BY <1>0, <3>1
    <3>3. CASE i \in 1..Len(ms) /\ us[i] = ms[i]
      <4>1. i \in s.msgEnd + 1..Len(ms)
        BY <1>0, <3>3
      <4> QED BY <3>0, <3>3, <4>1
    <3>4. CASE i > Len(ms) /\ i - Len(ms) \in 1..Len(n) /\ us[i] = n[i - Len(ms)]
      <4>1. i - Len(ms) \in DOMAIN n
        BY <2>4, <3>4
      <4> QED BY <2>2, <2>5, <3>0, <3>4, <4>1
    <3> QED BY <1>0, <2>4, <3>2, <3>3, <3>4, JoinedFrom
  <2>12. ASSUME MaxTrim = 0 PROVE WorkIn(u, ex)
    <3> SUFFICES ASSUME NEW e \in ex PROVE RememberedIn(cu, e)
      BY <2>b DEF WorkIn
    <3>1. RememberedIn(cs, e)
      BY <2>a, <2>b, <2>12 DEF WorkIn
    <3> QED BY <1>0, <2>4, <2>f, <3>1, RememberedAppend
  <2>13. db \/ OnceIn(u)
    <3> SUFFICES ASSUME ~db PROVE Distinct(cu)
      BY <2>4, <2>b DEF OnceIn
    <3>0. Distinct(cs)
      BY <2>a, <2>b DEF OnceIn
    <3>1. Distinct(n)
      BY <2>5 DEF Distinct
    <3>2. ASSUME NEW i \in DOMAIN cs, NEW j \in DOMAIN n PROVE cs[i] # n[j]
      <4>1. cs[i].kind = "closed" => cs[i].turn # Last(ms).turn
        BY <1>2, <2>a, <2>b DEF PendingOpen
      <4> QED BY <2>2, <2>5, <4>1
    <3> QED BY <1>0, <2>4, <2>f, <3>0, <3>1, <3>2, DistinctAppend
  <2>14. PendingOpen(u)
    BY <2>4 DEF PendingOpen
  <2>15. Restorable(u, t, k, ex, db)
    BY <2>8, <2>9, <2>10, <2>11, <2>12, <2>13, <2>14, <2>b, <2>s DEF Restorable
  <2> QED BY <2>4, <2>7, <2>15, <2>b DEF u
<1> QED BY <1>1, <1>2

----------------------------------------------------------------------------
(* Types, and messages that stay: for any MaxTrim *)

LEMMA LongestMatch ==
  ASSUME NEW n \in Nat, NEW S, S \subseteq 0..n, S # {}
  PROVE  \E m \in S : \A k \in S : k <= m
<1> DEFINE T == {n - k : k \in S}
           R == OpToRel(<, Nat)
<1>1. T \subseteq Nat /\ T # {}
  <2>1. PICK k \in S : TRUE
    OBVIOUS
  <2>2. n - k \in T
    BY <2>1
  <2> QED BY <2>2
<1>2. PICK x \in T : \A y \in T : <<y, x>> \notin R
  <2> HIDE DEF T, R
  <2>1. IsWellFoundedOn(R, Nat)
    BY NatLessThanWellFounded DEF R
  <2> QED BY <1>1, <2>1, WFMin
<1>3. \A y \in T : ~(y < x)
  BY <1>1, <1>2 DEF OpToRel
<1>4. PICK m \in S : x = n - m
  OBVIOUS
<1>5. ASSUME NEW k \in S PROVE k <= m
  <2>1. ~(n - k < n - m)
    BY <1>3, <1>4
  <2>2. k \in Int /\ m \in Int
    OBVIOUS
  <2> HIDE DEF T, R
  <2> QED BY <2>1, <2>2
<1> QED BY <1>4, <1>5

LEMMA ConversationPrefix ==
  ASSUME NEW s \in Session, NEW u \in Session, NEW n \in Seq(Message),
         u.drained = s.drained, u.warm = s.warm, u.messages = s.messages \o n
  PROVE  IsPrefix(Conversation(s), Conversation(u))
<1>1. Conversation(s) \in Seq(Message) /\ Conversation(u) = Conversation(s) \o n
  BY SessionFields, ConversationGrows
<1> HIDE DEF Conversation
<1> QED BY <1>1, PrefixConcat

LEMMA RestoreTypes ==
  ASSUME NEW s, IsSession(s)
  PROVE  /\ IsSession(RestoreCheckpoint(s))
         /\ IsPrefix(Conversation(s), Conversation(RestoreCheckpoint(s)))
<1> DEFINE ms == s.messages
           c == s.checkpoint
           r == Restored(c)
           matches == {n \in 0..Len(r) : n <= Len(ms)
                            /\ SubSeq(ms, Len(ms) - n + 1, Len(ms)) = SubSeq(r, 1, n)}
           overlap == CHOOSE n \in matches : \A k \in matches : k <= n
           new == SubSeq(r, overlap + 1, Len(r))
<1>0. s \in Session /\ ms \in Seq(Message) /\ Len(ms) \in Nat /\ s.msgEnd \in Nat
      /\ s.msgEnd <= Len(ms) /\ c \in {NoCheckpoint} \cup Checkpoint
      /\ Conversation(s) \in Seq(Message)
  BY SessionFields DEF IsSession
<1>1. CASE c = NoCheckpoint
  BY <1>0, <1>1, PrefixSame DEF RestoreCheckpoint
<1>2. CASE c # NoCheckpoint
  <2>1. r \in Seq(Message)
    <3>1. /\ c \in Checkpoint /\ c.assistant \in Message /\ c.completed \in Seq(Message)
          /\ "interrupted" \in ToolKinds
      BY <1>0, <1>2 DEF Checkpoint, ToolKinds
    <3>n. c.assistant.call \in 0..c.assistant.call
      BY <3>1, MessageFields
    <3>2. ToolMessages(c.assistant, c.assistant.call, "interrupted") \in Seq(Message)
      BY <3>1, <3>n, ToolMessagesFacts
    <3>3. r = <<c.assistant>> \o
              IF c.pending THEN ToolMessages(c.assistant, c.assistant.call, "interrupted")
              ELSE c.completed
      BY DEF Restored, ToolMessages
    <3> HIDE DEF c, r
    <3> QED BY <3>1, <3>2, <3>3
  <2>2. Len(r) \in Nat
    BY <2>1
  <2>3. 0 \in matches /\ matches \subseteq 0..Len(r)
    <3>1. SubSeq(ms, Len(ms) - 0 + 1, Len(ms)) = <<>>
      BY <1>0, SubSeqEmpty
    <3>2. SubSeq(r, 1, 0) = <<>>
      BY SubSeqEmpty
    <3> HIDE DEF r, ms
    <3> QED BY <1>0, <2>2, <3>1, <3>2
  <2>4. overlap \in 0..Len(r)
    <3> HIDE DEF matches, r
    <3>1. \E m \in matches : \A k \in matches : k <= m
      <4>1. matches # {} /\ matches \subseteq 0..Len(r)
        BY <2>3
      <4> QED BY <2>2, <4>1, LongestMatch
    <3>2. overlap \in matches
      BY <3>1
    <3> QED BY <2>3, <3>2
  <2>5. new \in Seq(Message)
    <3> HIDE DEF r, overlap
    <3>1. /\ overlap + 1 \in Int /\ Len(r) \in Int
          /\ \A i \in overlap + 1..Len(r) : r[i] \in Message
      BY <2>1, <2>2, <2>4
    <3> QED BY <3>1, SubSeqProperties
  <2>6. RestoreCheckpoint(s) = [s EXCEPT !.messages = ms \o new, !.pendingUserTurn = FALSE,
                                         !.checkpoint = NoCheckpoint]
    BY <1>2 DEF RestoreCheckpoint
  <2> HIDE DEF new
  <2>7. /\ RestoreCheckpoint(s) \in Session
        /\ RestoreCheckpoint(s).messages = ms \o new
        /\ RestoreCheckpoint(s).msgEnd = s.msgEnd
        /\ RestoreCheckpoint(s).drained = s.drained /\ RestoreCheckpoint(s).warm = s.warm
    <3> HIDE DEF ms
    <3>1. ms \o new \in Seq(Message)
      BY <1>0, <2>5
    <3> QED BY <1>0, <2>6, <3>1 DEF Session
  <2>8. Len(ms \o new) = Len(ms) + Len(new) /\ Len(new) \in Nat
    BY <1>0, <2>5, Joined
  <2>9. IsPrefix(Conversation(s), Conversation(RestoreCheckpoint(s)))
    BY <1>0, <2>5, <2>7, ConversationPrefix
  <2> HIDE DEF ms
  <2> QED BY <1>0, <2>7, <2>8, <2>9 DEF IsSession, ms
<1> QED BY <1>1, <1>2

LEMMA PendingTypes ==
  ASSUME NEW s, IsSession(s)
  PROVE  /\ IsSession(RestorePendingUserTurn(s))
         /\ IsPrefix(Conversation(s), Conversation(RestorePendingUserTurn(s)))
<1> DEFINE u == RestorePendingUserTurn(s)
           ms == s.messages
           m == [Last(ms) EXCEPT !.kind = "closed"]
<1>0. s \in Session /\ ms \in Seq(Message) /\ Len(ms) \in Nat /\ s.msgEnd \in Nat
      /\ s.msgEnd <= Len(ms) /\ Conversation(s) \in Seq(Message)
  BY SessionFields DEF IsSession
<1>1. CASE u.messages = Append(ms, m) /\ ms # <<>>
           /\ u = [s EXCEPT !.pendingUserTurn = FALSE, !.messages = Append(ms, m)]
  <2>1. m \in Message
    <3>1. Last(ms) \in Message
      <4> HIDE DEF ms
      <4> QED BY <1>0, <1>1 DEF Last
    <3>2. "closed" \in Kinds
      BY DEF Kinds
    <3> HIDE DEF ms
    <3> QED BY <3>1, <3>2 DEF Message
  <2> HIDE DEF u, m, ms
  <2>2. /\ Append(ms, m) = ms \o <<m>> /\ Append(ms, m) \in Seq(Message)
        /\ Len(Append(ms, m)) = Len(ms) + 1
    BY <1>0, <2>1, AppendIsConcat
  <2>4. /\ u \in Session /\ u.messages = Append(ms, m) /\ u.msgEnd = s.msgEnd
        /\ u.drained = s.drained /\ u.warm = s.warm
    BY <1>0, <1>1, <2>2 DEF Session
  <2>3. IsPrefix(Conversation(s), Conversation(u))
    <3>1. <<m>> \in Seq(Message) /\ u.messages = s.messages \o <<m>>
      BY <2>1, <2>2, <2>4 DEF ms
    <3> QED BY <1>0, <2>4, <3>1, ConversationPrefix
  <2> QED BY <1>0, <2>2, <2>3, <2>4 DEF IsSession, u, ms
<1>2. CASE u = s \/ u = [s EXCEPT !.pendingUserTurn = FALSE, !.messages = ms]
  <2>1. /\ u \in Session /\ u.messages = ms /\ u.msgEnd = s.msgEnd
        /\ u.drained = s.drained /\ u.warm = s.warm
    <3> HIDE DEF u
    <3> QED BY <1>0, <1>2 DEF Session
  <2>2. Conversation(u) = Conversation(s)
    BY <2>1 DEF Conversation
  <2> HIDE DEF u, ms
  <2> QED BY <1>0, <2>1, <2>2, PrefixSame DEF IsSession, u, ms
<1>3. \/ u = s
      \/ u = [s EXCEPT !.pendingUserTurn = FALSE, !.messages = ms]
      \/ /\ ms # <<>>
         /\ u = [s EXCEPT !.pendingUserTurn = FALSE, !.messages = Append(ms, m)]
  BY DEF RestorePendingUserTurn
<1>4. u = [s EXCEPT !.pendingUserTurn = FALSE, !.messages = Append(ms, m)]
        => u.messages = Append(ms, m)
  <2> HIDE DEF u, m, ms
  <2> QED BY <1>0 DEF Session
<1> QED BY <1>1, <1>2, <1>3, <1>4

LEMMA EntryType ==
  ASSUME turn \in 1..MaxTurns, iter \in 0..MaxIterations,
         NEW kind \in Kinds, NEW call \in 0..MaxCalls
  PROVE  /\ Entry(kind, call) \in Message /\ Entry(kind, call).kind = kind
         /\ Entry(kind, call).turn = turn /\ Entry(kind, call).iter = iter
         /\ Entry(kind, call).call = call
BY DEF Entry, Message

LEMMA UserTypes ==
  ASSUME NEW s, IsSession(s), turn \in 1..MaxTurns, iter \in 0..MaxIterations
  PROVE  LET u == PersistUserEarly(s)
         IN  /\ IsSession(u)
             /\ Entry("user", 0) \in Message
             /\ u.messages = s.messages \o <<Entry("user", 0)>>
             /\ u.msgEnd = Len(s.messages) + 1
             /\ u.pendingUserTurn = TRUE /\ u.checkpoint = s.checkpoint
             /\ Conversation(u) = Conversation(s) \o <<Entry("user", 0)>>
             /\ IsPrefix(Conversation(s), Conversation(u))
<1> DEFINE u == PersistUserEarly(s)
           ms == s.messages
           m == Entry("user", 0)
<1>0. s \in Session /\ ms \in Seq(Message) /\ Len(ms) \in Nat
  BY SessionFields DEF IsSession
<1>1. m \in Message
  BY EntryType, Bounds DEF Kinds
<1>2. u = [s EXCEPT !.messages = Append(ms, m), !.msgEnd = Len(ms) + 1, !.pendingUserTurn = TRUE]
  BY DEF PersistUserEarly
<1> HIDE DEF u, m, ms
<1>3. /\ Append(ms, m) = ms \o <<m>> /\ Append(ms, m) \in Seq(Message) /\ <<m>> \in Seq(Message)
      /\ Len(Append(ms, m)) = Len(ms) + 1
  BY <1>0, <1>1, AppendIsConcat
<1>4. /\ u \in Session /\ u.messages = Append(ms, m) /\ u.msgEnd = Len(ms) + 1
      /\ u.pendingUserTurn = TRUE /\ u.checkpoint = s.checkpoint
      /\ u.drained = s.drained /\ u.warm = s.warm
  <2>1. Len(ms) + 1 \in Nat
    BY <1>0
  <2> QED BY <1>0, <1>2, <1>3, <2>1 DEF Session
<1>5. /\ Conversation(u) = Conversation(s) \o <<m>>
      /\ IsPrefix(Conversation(s), Conversation(u))
  <2>1. u.messages = s.messages \o <<m>>
    BY <1>3, <1>4 DEF ms
  <2> QED BY <1>0, <1>3, <1>4, <2>1, ConversationGrows, ConversationPrefix
<1>6. IsSession(u)
  BY <1>0, <1>3, <1>4 DEF IsSession
<1> QED BY <1>1, <1>3, <1>4, <1>5, <1>6 DEF u, m, ms

LEMMA CheckpointTypes ==
  ASSUME NEW s, IsSession(s), NEW c \in Checkpoint
  PROVE  LET u == [s EXCEPT !.checkpoint = c]
         IN  /\ IsSession(u) /\ u.messages = s.messages /\ u.checkpoint = c
             /\ u.msgEnd = s.msgEnd /\ u.pendingUserTurn = s.pendingUserTurn
             /\ Conversation(u) = Conversation(s)
<1> DEFINE u == [s EXCEPT !.checkpoint = c]
<1>0. s \in Session /\ s.msgEnd <= Len(s.messages) /\ s.messages \in Seq(Message)
  BY SessionFields DEF IsSession
<1>1. /\ u \in Session /\ u.messages = s.messages /\ u.checkpoint = c
      /\ u.msgEnd = s.msgEnd /\ u.pendingUserTurn = s.pendingUserTurn
      /\ u.drained = s.drained /\ u.warm = s.warm
  BY <1>0 DEF Session
<1> HIDE DEF u
<1> QED BY <1>0, <1>1 DEF IsSession, Conversation, u

LEMMA SaveTypes ==
  ASSUME IsSession(mem), run \in Seq(Message), trimmed \in 0..MaxTrim, NEW marks \in BOOLEAN
  PROVE  LET new == SubSeq(run, trimmed + 1, Len(run))
             u   == IF marks THEN SaveTurn(mem)
                    ELSE [SaveTurn(mem) EXCEPT !.pendingUserTurn = FALSE,
                                               !.checkpoint = NoCheckpoint]
         IN  /\ IsSession(u) /\ new \in Seq(Message)
             /\ u.messages = mem.messages \o new
             /\ u.msgEnd = Len(u.messages)
             /\ u.pendingUserTurn = (marks /\ mem.pendingUserTurn)
             /\ u.checkpoint = IF marks THEN mem.checkpoint ELSE NoCheckpoint
             /\ Conversation(u) = Conversation(mem) \o new
             /\ IsPrefix(Conversation(mem), Conversation(u))
<1> DEFINE new == SubSeq(run, trimmed + 1, Len(run))
           ms == mem.messages
           v == SaveTurn(mem)
           u == IF marks THEN v
                ELSE [v EXCEPT !.pendingUserTurn = FALSE, !.checkpoint = NoCheckpoint]
<1>0. mem \in Session /\ ms \in Seq(Message) /\ Len(ms) \in Nat /\ mem.pendingUserTurn \in BOOLEAN
      /\ mem.checkpoint \in {NoCheckpoint} \cup Checkpoint
  BY SessionFields DEF IsSession
<1>1. new \in Seq(Message)
  <2>1. /\ trimmed + 1 \in Int /\ Len(run) \in Int
        /\ \A i \in trimmed + 1..Len(run) : run[i] \in Message
    BY Bounds
  <2> QED BY <2>1, SubSeqProperties
<1>2. v = [mem EXCEPT !.messages = ms \o new, !.msgEnd = Len(ms) + Len(new)]
  BY DEF SaveTurn
<1> HIDE DEF new, ms, v
<1>3. ms \o new \in Seq(Message) /\ Len(new) \in Nat /\ Len(ms \o new) = Len(ms) + Len(new)
  BY <1>0, <1>1, Joined
<1>4. /\ v \in Session /\ v.messages = ms \o new /\ v.msgEnd = Len(ms) + Len(new)
      /\ v.pendingUserTurn = mem.pendingUserTurn /\ v.checkpoint = mem.checkpoint
      /\ v.drained = mem.drained /\ v.warm = mem.warm
  <2>1. Len(ms) + Len(new) \in Nat
    BY <1>0, <1>3
  <2> QED BY <1>0, <1>2, <1>3, <2>1 DEF Session
<1>5. /\ u \in Session /\ u.messages = ms \o new /\ u.msgEnd = Len(ms) + Len(new)
      /\ u.pendingUserTurn = (marks /\ mem.pendingUserTurn)
      /\ u.checkpoint = IF marks THEN mem.checkpoint ELSE NoCheckpoint
      /\ u.drained = mem.drained /\ u.warm = mem.warm
  <2>1. CASE marks
    BY <1>0, <1>4, <2>1
  <2>2. CASE ~marks
    BY <1>4, <2>2 DEF Session
  <2> QED BY <2>1, <2>2
<1> HIDE DEF u
<1>6. IsSession(u) /\ u.msgEnd = Len(u.messages)
  BY <1>3, <1>5 DEF IsSession
<1>7. /\ Conversation(u) = Conversation(mem) \o new
      /\ IsPrefix(Conversation(mem), Conversation(u))
  <2>1. u.messages = mem.messages \o new
    BY <1>5 DEF ms
  <2> QED BY <1>0, <1>1, <1>5, <2>1, ConversationGrows, ConversationPrefix
<1> QED BY <1>1, <1>5, <1>6, <1>7 DEF new, ms, v, u

----------------------------------------------------------------------------
(* The spill *)

LEMMA LeastIn ==
  ASSUME NEW S, S \subseteq Nat, S # {}
  PROVE  Min(S) \in S /\ \A y \in S : Min(S) <= y
<1> DEFINE R == OpToRel(<, Nat)
<1>1. PICK x \in S : \A y \in S : <<y, x>> \notin R
  <2> HIDE DEF R
  <2>1. IsWellFoundedOn(R, Nat)
    BY NatLessThanWellFounded DEF R
  <2> QED BY <2>1, WFMin
<1>2. \A y \in S : x <= y
  <2> SUFFICES ASSUME NEW y \in S PROVE x <= y
    OBVIOUS
  <2>1. ~(y < x) /\ x \in Nat /\ y \in Nat
    BY <1>1 DEF OpToRel
  <2> QED BY <2>1
<1> QED BY <1>2 DEF Min

LEMMA GreatestIn ==
  ASSUME NEW n \in Nat, NEW S, S \subseteq 0..n, S # {}
  PROVE  Max(S) \in S
<1>1. PICK m \in S : \A k \in S : k <= m
  BY LongestMatch
<1>2. \A k \in S : m >= k
  BY <1>1
<1> QED BY <1>2 DEF Max

LEMMA SplitAt ==
  ASSUME NEW s \in Seq(Message), NEW n \in 1..Len(s) + 1
  PROVE  LET a == SubSeq(s, 1, n - 1)
             b == SubSeq(s, n, Len(s))
         IN  /\ a \in Seq(Message) /\ b \in Seq(Message) /\ s = a \o b
             /\ Len(a) = n - 1 /\ Len(b) = Len(s) - n + 1 /\ n \in Nat /\ Len(s) \in Nat
             /\ \A i \in 1..n - 1 : a[i] = s[i]
             /\ \A i \in 1..Len(s) - n + 1 : b[i] = s[n + i - 1]
<1> DEFINE a == SubSeq(s, 1, n - 1)
           b == SubSeq(s, n, Len(s))
<1>0. n \in Nat /\ Len(s) \in Nat /\ n # 0 /\ n <= Len(s) + 1
  OBVIOUS
<1>1. a \in Seq(Message) /\ Len(a) = n - 1 /\ \A i \in 1..n - 1 : a[i] = s[i]
  <2>1. a = [i \in 1..n - 1 |-> s[i]]
    BY <1>0
  <2>2. n - 1 \in Nat /\ \A i \in 1..n - 1 : s[i] \in Message
    BY <1>0
  <2> HIDE DEF a
  <2> QED BY <2>1, <2>2
<1>2. b \in Seq(Message) /\ Len(b) = Len(s) - n + 1 /\ \A i \in 1..Len(s) - n + 1 : b[i] = s[n + i - 1]
  <2>1. n \in Int /\ Len(s) \in Int /\ \A i \in n..Len(s) : s[i] \in Message
    BY <1>0
  <2>2. /\ b \in Seq(Message)
        /\ Len(b) = IF n <= Len(s) THEN Len(s) - n + 1 ELSE 0
        /\ \A i \in 1..Len(s) - n + 1 : b[i] = s[n + i - 1]
    BY <2>1, SubSeqProperties
  <2>3. IF n <= Len(s) THEN Len(b) = Len(s) - n + 1 ELSE Len(b) = 0
    BY <2>2
  <2> HIDE DEF b
  <2>4. Len(b) = Len(s) - n + 1
    BY <1>0, <2>3
  <2> QED BY <2>2, <2>4
<1> HIDE DEF a, b
<1>3. a \o b \in Seq(Message) /\ Len(a \o b) = Len(s)
  BY <1>0, <1>1, <1>2
<1>4. ASSUME NEW i \in 1..Len(s) PROVE (a \o b)[i] = s[i]
  <2>1. CASE i <= n - 1
    BY <1>0, <1>1, <1>2, <2>1, Joined
  <2>2. CASE i > n - 1
    <3>1. i - (n - 1) \in 1..Len(s) - n + 1 /\ Len(a) + (i - (n - 1)) = i
      BY <1>0, <1>1, <2>2
    <3>2. (a \o b)[i] = b[i - (n - 1)]
      BY <1>1, <1>2, <3>1, Joined
    <3>3. n + (i - (n - 1)) - 1 = i
      BY <1>0
    <3> QED BY <1>2, <3>1, <3>2, <3>3
  <2>3. i <= n - 1 \/ i > n - 1
    BY <1>0
  <2> QED BY <2>1, <2>2, <2>3
<1>5. s = a \o b
  BY <1>0, <1>3, <1>4, SeqEqual
<1> QED BY <1>0, <1>1, <1>2, <1>5 DEF a, b

LEMMA UsersIn ==
  ASSUME NEW ms \in Seq(Message)
  PROVE  /\ Users(ms) \subseteq 1..Len(ms) /\ Users(ms) \subseteq Nat
         /\ Len(ms) \in Nat /\ IsFiniteSet(Users(ms))
<1>1. Users(ms) \subseteq 1..Len(ms) /\ Len(ms) \in Nat
  BY DEF Users
<1>2. IsFiniteSet(1..Len(ms))
  BY <1>1, FS_Interval
<1> QED BY <1>1, <1>2, FS_Subset

LEMMA HotRange ==
  ASSUME NEW ms \in Seq(Message)
  PROVE  HotStart(ms) \in 1..Len(ms) + 1
<1> DEFINE starts == {u \in Users(ms) :
                        /\ Cardinality({v \in Users(ms) : v >= u}) >= HotTurns
                        /\ LegalFrom(ms, u)}
           legal  == {n \in Min(Users(ms))..Len(ms) + 1 : LegalFrom(ms, n)}
<1>0. Users(ms) \subseteq 1..Len(ms) /\ Users(ms) \subseteq Nat /\ Len(ms) \in Nat
  BY UsersIn
<1>1. CASE Cardinality(Users(ms)) <= HotTurns
  BY <1>0, <1>1 DEF HotStart
<1>2. CASE ~(Cardinality(Users(ms)) <= HotTurns) /\ starts # {}
  <2>1. HotStart(ms) = Max(starts)
    BY <1>2 DEF HotStart
  <2>2. starts \subseteq 0..Len(ms) /\ starts # {} /\ starts \subseteq 1..Len(ms)
    BY <1>0, <1>2
  <2> HIDE DEF starts
  <2>3. Max(starts) \in starts
    BY <1>0, <2>2, GreatestIn
  <2>4. Max(starts) \in 1..Len(ms)
    BY <2>2, <2>3
  <2> QED BY <1>0, <2>1, <2>4
<1>3. CASE ~(Cardinality(Users(ms)) <= HotTurns) /\ starts = {}
  <2>1. HotStart(ms) = Min(legal)
    BY <1>3 DEF HotStart
  <2>2. Users(ms) # {}
    <3>1. Cardinality({}) = 0
      BY FS_EmptySet
    <3> QED BY <1>3, <3>1, Bounds
  <2>3. Min(Users(ms)) \in 1..Len(ms)
    BY <1>0, <2>2, LeastIn
  <2>4. LegalFrom(ms, Len(ms) + 1)
    BY <1>0 DEF LegalFrom
  <2>5. Len(ms) + 1 \in legal /\ legal \subseteq 1..Len(ms) + 1
    BY <1>0, <2>3, <2>4
  <2> HIDE DEF legal
  <2>6. legal \subseteq Nat /\ legal # {}
    BY <1>0, <2>5
  <2>7. Min(legal) \in legal
    BY <2>6, LeastIn
  <2> QED BY <2>1, <2>5, <2>7
<1> QED BY <1>1, <1>2, <1>3

\* The spill moves f into the warm buffer, leaves t, and drops x, which precedes
\* the first user message.
LEMMA SpillFacts ==
  ASSUME NEW s, IsSession(s)
  PROVE  LET u   == Spill(s)
             old == s.drained \o s.warm
         IN  /\ IsSession(u)
             /\ u.pendingUserTurn = s.pendingUserTurn /\ u.checkpoint = s.checkpoint
             /\ s.msgEnd = Len(s.messages) => u.msgEnd = Len(u.messages)
             /\ \E x \in Seq(Message), f \in Seq(Message) :
                  /\ s.messages = x \o (f \o u.messages)
                  /\ StartsWithUser(s.messages) => x = <<>>
                  /\ Conversation(s) = old \o (x \o (f \o u.messages))
                  /\ Conversation(u) = old \o (f \o u.messages)
             /\ u.messages = SubSeq(s.messages, HotStart(s.messages), Len(s.messages))
<1> DEFINE u == Spill(s)
           old == s.drained \o s.warm
           ms == s.messages
           n == HotStart(ms)
           head == SubSeq(ms, 1, n - 1)
           tail == SubSeq(ms, n, Len(ms))
           first == FromFirstUser(head)
<1>0. /\ s \in Session /\ ms \in Seq(Message) /\ Len(ms) \in Nat /\ s.msgEnd \in Nat
      /\ s.msgEnd <= Len(ms) /\ s.drained \in Seq(Message) /\ s.warm \in Seq(Message)
      /\ old \in Seq(Message)
  BY SessionFields DEF IsSession
<1>1. n \in 1..Len(ms) + 1
  BY <1>0, HotRange
<1>2. /\ head \in Seq(Message) /\ tail \in Seq(Message) /\ ms = head \o tail
      /\ Len(head) = n - 1 /\ Len(tail) = Len(ms) - n + 1 /\ n \in Nat
      /\ \A i \in 1..n - 1 : head[i] = ms[i]
  <2> HIDE DEF n, ms
  <2> QED BY <1>0, <1>1, SplitAt
<1>c. Conversation(s) = old \o ms
  BY DEF Conversation
<1>3. CASE n = 1
  <2>1. u = s
    BY <1>3 DEF Spill
  <2>2. tail = ms
    BY <1>0, <1>3, SubSeqFull
  <2> HIDE DEF u, ms, old, n
  <2>3. <<>> \in Seq(Message) /\ ms = <<>> \o (<<>> \o ms)
    BY <1>0, ConcatEmptySeq
  <2>4. \E x \in Seq(Message), f \in Seq(Message) :
          ms = x \o (f \o ms) /\ x = <<>> /\ old \o ms = old \o (x \o (f \o ms))
            /\ old \o ms = old \o (f \o ms)
    <3>1. <<>> \o ms = ms
      BY <1>0, ConcatEmptySeq
    <3> QED BY <2>3, <3>1
  <2> QED BY <1>c, <2>1, <2>2, <2>4 DEF u, ms, old, n
<1>4. CASE n # 1
  <2>1. u = [s EXCEPT !.warm = s.warm \o first, !.messages = tail,
                      !.msgEnd = Min({s.msgEnd, Len(ms) - n + 1})]
    BY <1>4 DEF Spill
  <2>2. PICK x \in Seq(Message) : /\ first \in Seq(Message) /\ head = x \o first
                                  /\ StartsWithUser(ms) => x = <<>>
    <3>u. Users(head) \subseteq 1..Len(head) /\ Users(head) \subseteq Nat
      <4> HIDE DEF head
      <4> QED BY <1>2, UsersIn
    <3>1. CASE Users(head) = {}
      <4>1. first = <<>>
        BY <3>1 DEF FromFirstUser
      <4>2. head = head \o <<>>
        BY <1>2, ConcatEmptySeq
      <4>3. ~StartsWithUser(ms)
        <5>1. 1 \in 1..n - 1
          BY <1>1, <1>2, <1>4
        <5>2. 1 \in DOMAIN head /\ head[1] = ms[1] /\ ms # <<>>
          <6> HIDE DEF ms, n, head
          <6>1. 1 \in DOMAIN head
            BY <1>2, <5>1
          <6>2. n - 1 <= Len(ms)
            BY <1>0, <1>1, <1>2
          <6> QED BY <1>0, <1>2, <5>1, <6>1, <6>2
        <5> QED BY <3>1, <5>2 DEF Users, StartsWithUser
      <4> HIDE DEF first, head, ms
      <4> QED BY <1>2, <4>1, <4>2, <4>3
    <3>2. CASE Users(head) # {}
      <4> DEFINE m == Min(Users(head))
      <4>1. m \in Users(head) /\ \A y \in Users(head) : m <= y
        <5> HIDE DEF head
        <5> QED BY <3>u, <3>2, LeastIn
      <4>2. first = SubSeq(head, m, Len(head))
        BY <3>2 DEF FromFirstUser
      <4> HIDE DEF first, m
      <4>3. m \in 1..Len(head) + 1 /\ m \in 1..Len(head)
        <5> HIDE DEF head
        <5> QED BY <1>2, <3>u, <4>1
      <4> DEFINE a == SubSeq(head, 1, m - 1)
      <4>4. first \in Seq(Message) /\ a \in Seq(Message) /\ head = a \o first /\ Len(a) = m - 1
        <5> HIDE DEF head
        <5> QED BY <1>2, <4>2, <4>3, SplitAt
      <4>5. ASSUME StartsWithUser(ms) PROVE a = <<>>
        <5>1. 1 \in 1..n - 1
          <6> HIDE DEF n, head, ms
          <6> QED BY <1>2, <4>3
        <5>2. 1 \in DOMAIN head /\ head[1] = ms[1] /\ ms # <<>>
          <6> HIDE DEF ms, n, head
          <6>1. 1 \in DOMAIN head
            BY <1>2, <5>1
          <6>2. n - 1 <= Len(ms)
            BY <1>0, <1>1, <1>2
          <6> QED BY <1>0, <1>2, <5>1, <6>1, <6>2
        <5>3. 1 \in Users(head)
          BY <4>5, <5>2 DEF Users, StartsWithUser
        <5> HIDE DEF a, head
        <5>4. m = 1
          BY <4>1, <4>3, <5>3
        <5> QED BY <4>4, <5>4
      <4> HIDE DEF a, ms, head
      <4> QED BY <4>4, <4>5
    <3> QED BY <3>1, <3>2
  <2> HIDE DEF u, ms, n, head, tail, first
  <2>e. Min({s.msgEnd, Len(ms) - n + 1}) \in Nat
        /\ Min({s.msgEnd, Len(ms) - n + 1}) <= Len(tail)
        /\ (s.msgEnd = Len(ms) => Min({s.msgEnd, Len(ms) - n + 1}) = Len(tail))
    <3> DEFINE k == Len(ms) - n + 1
    <3>1. k \in Nat /\ k = Len(tail) /\ k <= Len(ms)
      BY <1>0, <1>1, <1>2
    <3>n. {s.msgEnd, k} \subseteq Nat /\ {s.msgEnd, k} # {}
      BY <1>0, <3>1
    <3> HIDE DEF k
    <3>2. Min({s.msgEnd, k}) \in {s.msgEnd, k} /\ \A y \in {s.msgEnd, k} : Min({s.msgEnd, k}) <= y
      BY <3>n, LeastIn
    <3> DEFINE mn == Min({s.msgEnd, k})
    <3>3. (mn = s.msgEnd \/ mn = k) /\ mn <= s.msgEnd /\ mn <= k
      BY <3>2
    <3> HIDE DEF mn
    <3>4. mn \in Nat /\ mn <= Len(tail) /\ (s.msgEnd = Len(ms) => mn = Len(tail))
      BY <1>0, <3>1, <3>3
    <3> QED BY <3>4 DEF mn, k
  <2>3. s.warm \o first \in Seq(Message)
    BY <1>0, <2>2
  <2>4. /\ u \in Session /\ u.warm = s.warm \o first /\ u.messages = tail
        /\ u.drained = s.drained /\ u.msgEnd = Min({s.msgEnd, Len(ms) - n + 1})
        /\ u.pendingUserTurn = s.pendingUserTurn /\ u.checkpoint = s.checkpoint
    <3> DEFINE mn == Min({s.msgEnd, Len(ms) - n + 1})
    <3>1. mn \in Nat
      BY <2>e
    <3> HIDE DEF mn
    <3>2. u = [s EXCEPT !.warm = s.warm \o first, !.messages = tail, !.msgEnd = mn]
      BY <2>1 DEF mn
    <3>3. /\ u \in Session /\ u.warm = s.warm \o first /\ u.messages = tail
          /\ u.drained = s.drained /\ u.msgEnd = mn
          /\ u.pendingUserTurn = s.pendingUserTurn /\ u.checkpoint = s.checkpoint
      BY <1>0, <1>2, <2>3, <3>1, <3>2 DEF Session
    <3> QED BY <3>3 DEF mn
  <2>5. ms = x \o (first \o tail)
    BY <1>2, <2>2, Associative
  <2>6. Conversation(u) = old \o (first \o tail)
    <3>0. \A p, q, w \in Seq(Message) : (p \o q) \o w = p \o (q \o w)
      BY Associative
    <3>1. s.drained \o (s.warm \o first) = old \o first
      <4>0. s.drained \in Seq(Message) /\ s.warm \in Seq(Message) /\ first \in Seq(Message)
        BY <1>0, <2>2
      <4>1. (s.drained \o s.warm) \o first = s.drained \o (s.warm \o first)
        BY <4>0, Associative
      <4> QED BY <4>1
    <3>2. Conversation(u) = (s.drained \o (s.warm \o first)) \o tail
      BY <2>4 DEF Conversation
    <3> HIDE DEF old
    <3>3. (old \o first) \o tail = old \o (first \o tail)
      <4>1. old \in Seq(Message) /\ first \in Seq(Message) /\ tail \in Seq(Message)
        BY <1>0, <1>2, <2>2
      <4> QED BY <3>0, <4>1
    <3> QED BY <3>1, <3>2, <3>3, Zenon
  <2> HIDE DEF old
  <2>7. IsSession(u) /\ (s.msgEnd = Len(ms) => u.msgEnd = Len(tail))
    BY <2>e, <2>4 DEF IsSession
  <2>8. \E y \in Seq(Message), f \in Seq(Message) :
          /\ ms = y \o (f \o tail)
          /\ StartsWithUser(ms) => y = <<>>
          /\ old \o ms = old \o (y \o (f \o tail))
          /\ Conversation(u) = old \o (f \o tail)
    BY <2>2, <2>5, <2>6
  <2> QED BY <1>c, <2>4, <2>7, <2>8 DEF u, ms, n, tail, old
<1> QED BY <1>3, <1>4

\* Without what the spill dropped: nothing new, nothing twice.
LEMMA MiddleGone ==
  ASSUME NEW a \in Seq(Message), NEW x \in Seq(Message), NEW b \in Seq(Message)
  PROVE  /\ \A i \in DOMAIN (a \o b) : \E j \in DOMAIN (a \o (x \o b)) :
              (a \o b)[i] = (a \o (x \o b))[j]
         /\ Distinct(a \o (x \o b)) => Distinct(a \o b)
<1> DEFINE A == a \o (x \o b)
           B == a \o b
           j(i) == IF i <= Len(a) THEN i ELSE i + Len(x)
<1>0. /\ Len(a) \in Nat /\ Len(b) \in Nat /\ Len(x) \in Nat /\ x \o b \in Seq(Message)
      /\ Len(x \o b) = Len(x) + Len(b)
  BY Joined
<1>1. /\ \A i \in 1..Len(a) : A[i] = a[i]
      /\ \A i \in 1..Len(x \o b) : A[Len(a) + i] = (x \o b)[i]
      /\ \A i \in 1..Len(b) : (x \o b)[Len(x) + i] = b[i]
      /\ DOMAIN A = 1..(Len(a) + (Len(x) + Len(b)))
      /\ DOMAIN B = 1..(Len(a) + Len(b))
  BY <1>0, Joined
<1>2. ASSUME NEW i \in DOMAIN B PROVE j(i) \in DOMAIN A /\ B[i] = A[j(i)] /\ i \in Nat
  <2>1. CASE i \in 1..Len(a) /\ B[i] = a[i]
    <3> HIDE DEF A, B
    <3>1. j(i) = i /\ i \in DOMAIN A
      BY <1>0, <1>1, <2>1
    <3> QED BY <1>1, <2>1, <3>1
  <2>2. CASE i > Len(a) /\ i - Len(a) \in 1..Len(b) /\ B[i] = b[i - Len(a)]
    <3> HIDE DEF A, B
    <3>n. i \in Nat /\ i <= Len(a) + Len(b)
      BY <1>0, <1>1
    <3>j. j(i) = i + Len(x)
      BY <1>0, <2>2, <3>n
    <3> HIDE DEF j
    <3>1. /\ j(i) = i + Len(x) /\ i + Len(x) \in DOMAIN A /\ i \in Nat
          /\ Len(x) + (i - Len(a)) \in 1..Len(x \o b)
          /\ i + Len(x) = Len(a) + (Len(x) + (i - Len(a)))
      BY <1>0, <1>1, <2>2, <3>n, <3>j
    <3>2. A[Len(a) + (Len(x) + (i - Len(a)))] = b[i - Len(a)]
      BY <1>1, <2>2, <3>1
    <3> QED BY <2>2, <3>1, <3>2
  <2> QED BY <2>1, <2>2, JoinedFrom
<1>3. ASSUME NEW i \in DOMAIN B, NEW k \in DOMAIN B, i # k PROVE j(i) # j(k)
  <2> HIDE DEF A, B
  <2> QED BY <1>0, <1>2, <1>3
<1> HIDE DEF A, B, j
<1>4. Distinct(A) => Distinct(B)
  <2> SUFFICES ASSUME Distinct(A), NEW i \in DOMAIN B, NEW k \in DOMAIN B, i # k
               PROVE  B[i] # B[k]
    BY DEF Distinct
  <2> QED BY <1>2, <1>3 DEF Distinct
<1> QED BY <1>2, <1>4 DEF A, B

\* No user message stands between a call and its results: a turn that starts
\* with one has all the calls of its results.
LEMMA PairBehindUser ==
  ASSUME NEW ms \in Seq(Message), Closed(ms), NEW n \in Users(ms), NEW j \in n..Len(ms),
         ms[j].kind \in ToolKinds
  PROVE  /\ Paired(ms, j) /\ ms[j].call \in Nat /\ j - ms[j].call >= n
         /\ ms[j].call # 0
<1> DEFINE c == ms[j].call
           p == j - c
<1>0. n \in 1..Len(ms) /\ Len(ms) \in Nat /\ j \in DOMAIN ms /\ j \in Nat /\ n \in Nat
      /\ ms[n].kind \in UserKinds
  BY UsersIn DEF Users
<1>1. Paired(ms, j) /\ c \in Nat
  <2>1. ms[j] \in Message
    BY <1>0
  <2> QED BY <1>0, <2>1, ClosedPaired, MessageFields
<1>2. p > 0 /\ ms[p].kind \in CallKinds /\ \A i \in 1..c : Answers(ms[p + i], ms[p], i)
  BY <1>1 DEF Paired
<1>3. ASSUME p < n PROVE FALSE
  <2>1. n - p \in 1..c /\ p + (n - p) = n
    BY <1>0, <1>1, <1>3
  <2>2. Answers(ms[p + (n - p)], ms[p], n - p)
    BY <1>2, <2>1
  <2>3. ms[n].kind \in ToolKinds
    BY <2>1, <2>2 DEF Answers
  <2> QED BY <1>0, <2>3 DEF ToolKinds, UserKinds
<1>4. c # 0
  <2>1. c = 0 => p = j
    BY <1>0, <1>1
  <2>2. p # j
    BY <1>2 DEF ToolKinds, CallKinds
  <2> QED BY <2>1, <2>2
<1> QED BY <1>0, <1>1, <1>3, <1>4

LEMMA LegalFromUser ==
  ASSUME NEW ms \in Seq(Message), Closed(ms), NEW n \in Users(ms)
  PROVE  LegalFrom(ms, n)
<1> SUFFICES ASSUME NEW j \in n..Len(ms), ms[j].kind \in ToolKinds
             PROVE  \E i \in n..j : ms[i].kind \in CallKinds /\ Answers(ms[j], ms[i], ms[j].call)
  BY DEF LegalFrom
<1> DEFINE c == ms[j].call
<1>0. n \in 1..Len(ms) /\ Len(ms) \in Nat /\ j \in Nat /\ n \in Nat
  BY UsersIn
<1>1. Paired(ms, j) /\ c \in Nat /\ j - c >= n /\ c # 0
  BY PairBehindUser
<1>2. j - c \in n..j /\ c \in 1..c /\ (j - c) + c = j
  BY <1>0, <1>1
<1>3. ms[j - c].kind \in CallKinds /\ Answers(ms[(j - c) + c], ms[j - c], c)
  BY <1>1, <1>2 DEF Paired
<1> QED BY <1>2, <1>3

\* What stays starts with a turn.
LEMMA HotAtUser ==
  ASSUME NEW ms \in Seq(Message), Closed(ms)
  PROVE  HotStart(ms) = 1 \/ HotStart(ms) \in Users(ms)
<1> DEFINE starts == {u \in Users(ms) :
                        /\ Cardinality({v \in Users(ms) : v >= u}) >= HotTurns
                        /\ LegalFrom(ms, u)}
<1>0. Users(ms) \subseteq 1..Len(ms) /\ Users(ms) \subseteq Nat /\ Len(ms) \in Nat
      /\ IsFiniteSet(Users(ms))
  BY UsersIn
<1>c. Cardinality(Users(ms)) \in Nat
  BY <1>0, FS_CardinalityType
<1>1. CASE Cardinality(Users(ms)) <= HotTurns
  BY <1>1 DEF HotStart
<1>2. CASE ~(Cardinality(Users(ms)) <= HotTurns)
  <2>1. Users(ms) # {}
    <3>1. Cardinality({}) = 0
      BY FS_EmptySet
    <3>2. 0 <= HotTurns
      BY Bounds
    <3> QED BY <1>2, <3>1, <3>2
  <2> DEFINE m == Min(Users(ms))
  <2>2. m \in Users(ms) /\ \A y \in Users(ms) : m <= y
    BY <1>0, <2>1, LeastIn
  <2> HIDE DEF m
  <2>3. {v \in Users(ms) : v >= m} = Users(ms)
    BY <1>0, <2>2
  <2>4. m \in starts
    <3>1. Cardinality({v \in Users(ms) : v >= m}) >= HotTurns
      <4> DEFINE c == Cardinality(Users(ms))
      <4>1. c \in Nat /\ ~(c <= HotTurns)
        BY <1>2, <1>c
      <4> HIDE DEF c
      <4>2. c >= HotTurns
        BY <4>1, Bounds
      <4> QED BY <2>3, <4>2 DEF c
    <3>2. LegalFrom(ms, m)
      BY <2>2, LegalFromUser
    <3> QED BY <2>2, <3>1, <3>2
  <2>5. HotStart(ms) = Max(starts)
    BY <1>2, <2>4 DEF HotStart
  <2>6. starts \subseteq 0..Len(ms) /\ starts # {} /\ starts \subseteq Users(ms)
    <3>1. starts \subseteq Users(ms) /\ starts # {}
      BY <2>4
    <3> HIDE DEF starts
    <3>2. 1..Len(ms) \subseteq 0..Len(ms)
      BY <1>0
    <3> QED BY <1>0, <3>1, <3>2
  <2> HIDE DEF starts
  <2>7. Max(starts) \in starts
    BY <1>0, <2>6, GreatestIn
  <2> QED BY <2>5, <2>6, <2>7
<1> QED BY <1>1, <1>2

LEMMA AnsweredTail ==
  ASSUME NEW ms \in Seq(Message), NEW n \in 1..Len(ms) + 1, CallsAnswered(ms)
  PROVE  CallsAnswered(SubSeq(ms, n, Len(ms)))
<1> DEFINE b == SubSeq(ms, n, Len(ms))
<1>0. /\ b \in Seq(Message) /\ Len(b) = Len(ms) - n + 1 /\ n \in Nat /\ Len(ms) \in Nat /\ n # 0
      /\ \A i \in 1..Len(ms) - n + 1 : b[i] = ms[n + i - 1]
  BY SplitAt
<1> HIDE DEF b
<1> SUFFICES ASSUME NEW i \in DOMAIN b, b[i].kind = "calls", NEW c \in 1..b[i].call
             PROVE  i + c <= Len(b) /\ Answers(b[i + c], b[i], c)
  BY DEF CallsAnswered, b
<1> DEFINE j == n + i - 1
<1>1. i \in 1..Len(ms) - n + 1 /\ j \in DOMAIN ms /\ b[i] = ms[j] /\ i \in Nat
  <2>1. i \in 1..Len(ms) - n + 1
    BY <1>0
  <2>2. j \in 1..Len(ms) /\ i \in Nat
    BY <1>0, <2>1
  <2>3. b[i] = ms[j]
    BY <1>0, <2>1
  <2>4. DOMAIN ms = 1..Len(ms)
    OBVIOUS
  <2> HIDE DEF j
  <2> QED BY <2>1, <2>2, <2>3, <2>4
<1>2. j + c <= Len(ms) /\ Answers(ms[j + c], ms[j], c)
  BY <1>1 DEF CallsAnswered
<1>3. c \in Nat /\ c # 0
  <2>1. b[i] \in Message
    BY <1>0
  <2>2. b[i].call \in Nat
    BY <2>1, MessageFields
  <2> QED BY <2>2
<1>4. i + c \in 1..Len(ms) - n + 1 /\ n + (i + c) - 1 = j + c
  <2> DEFINE l == Len(ms)
  <2>1. n \in Nat /\ l \in Nat /\ i \in Nat /\ i # 0 /\ c \in Nat /\ j + c <= l
    BY <1>0, <1>1, <1>2, <1>3
  <2> HIDE DEF l
  <2>2. i + c \in 1..l - n + 1 /\ n + (i + c) - 1 = j + c
    BY <2>1
  <2> QED BY <2>2 DEF l
<1>5. b[i + c] = ms[j + c]
  BY <1>0, <1>4
<1> QED BY <1>0, <1>1, <1>2, <1>4, <1>5

LEMMA ClosedTail ==
  ASSUME NEW ms \in Seq(Message), Closed(ms), NEW n \in Users(ms)
  PROVE  Closed(SubSeq(ms, n, Len(ms))) /\ StartsWithUser(SubSeq(ms, n, Len(ms)))
<1> DEFINE b == SubSeq(ms, n, Len(ms))
<1>r. n \in 1..Len(ms) /\ n \in 1..Len(ms) + 1 /\ ms[n].kind \in UserKinds
  BY UsersIn DEF Users
<1>0. /\ b \in Seq(Message) /\ Len(b) = Len(ms) - n + 1 /\ n \in Nat /\ Len(ms) \in Nat
      /\ \A i \in 1..Len(ms) - n + 1 : b[i] = ms[n + i - 1]
  BY <1>r, SplitAt
<1>1. CallsAnswered(b)
  BY <1>r, AnsweredTail, ClosedAnswered
<1> HIDE DEF b
<1>2. ASSUME NEW i \in DOMAIN b, b[i].kind \in ToolKinds
      PROVE  Paired(b, i)
  <2> DEFINE j == n + i - 1
  <2>0. i \in 1..Len(ms) - n + 1
    BY <1>0
  <2>1. /\ j \in n..Len(ms) /\ b[i] = ms[j] /\ i \in Nat
        /\ j \in DOMAIN ms
    <3>1. j \in n..Len(ms) /\ i \in Nat
      BY <1>r, <1>0, <2>0
    <3>2. b[i] = ms[j]
      BY <1>0, <2>0
    <3>3. DOMAIN ms = 1..Len(ms) /\ j \in 1..Len(ms)
      BY <1>r, <1>0, <3>1
    <3> HIDE DEF j
    <3> QED BY <3>1, <3>2, <3>3
  <2>2. Paired(ms, j) /\ ms[j].call \in Nat /\ j - ms[j].call >= n
    BY <1>2, <2>1, PairBehindUser
  <2> DEFINE d == 1 - n
  <2>3. ASSUME NEW q \in j - ms[j].call..j PROVE b[d + q] = ms[q]
    <3> HIDE DEF j
    <3>1. d + q \in 1..Len(ms) - n + 1 /\ n + (d + q) - 1 = q
      BY <1>r, <1>0, <2>1, <2>2
    <3> QED BY <1>0, <3>1
  <2>4. d \in Int /\ d + j = i /\ d + j - ms[j].call > 0 /\ d + j <= Len(b)
    <3> DEFINE l == Len(ms)
               k == ms[j].call
    <3>1. /\ n \in Nat /\ l \in Nat /\ i \in Nat /\ i # 0 /\ k \in Nat /\ j - k >= n /\ j <= l
          /\ Len(b) = l - n + 1
      BY <1>0, <2>0, <2>1, <2>2
    <3> HIDE DEF l, k
    <3>2. d \in Int /\ d + j = i /\ d + j - k > 0 /\ d + j <= Len(b)
      BY <3>1
    <3> QED BY <3>2 DEF k
  <2> HIDE DEF d, j
  <2>5. Paired(b, d + j)
    BY <1>0, <2>1, <2>2, <2>3, <2>4, PairMoves
  <2> QED BY <2>4, <2>5
<1>3. StartsWithUser(b)
  <2>1. 1 \in 1..Len(ms) - n + 1 /\ n + 1 - 1 = n
    BY <1>r, <1>0
  <2>2. b[1] = ms[n]
    BY <1>0, <2>1
  <2> QED BY <1>r, <2>2 DEF StartsWithUser
<1> QED BY <1>1, <1>2, <1>3, ClosedPaired DEF b

LEMMA AnsweredUsersTail ==
  ASSUME NEW s \in Session, NEW u \in Session, UsersAnswered(s),
         u.pendingUserTurn = s.pendingUserTurn, NEW n \in 1..Len(s.messages) + 1,
         u.messages = SubSeq(s.messages, n, Len(s.messages))
  PROVE  UsersAnswered(u)
<1> DEFINE ms == s.messages
           b == u.messages
<1>0. /\ b \in Seq(Message) /\ Len(b) = Len(ms) - n + 1 /\ n \in Nat /\ Len(ms) \in Nat
      /\ n # 0 /\ \A i \in 1..Len(ms) - n + 1 : b[i] = ms[n + i - 1]
  <2>1. ms \in Seq(Message)
    BY SessionFields
  <2>2. n \in 1..Len(ms) + 1 /\ b = SubSeq(ms, n, Len(ms))
    OBVIOUS
  <2> HIDE DEF ms, b
  <2>3. n # 0
    BY <2>2
  <2> QED BY <2>1, <2>2, <2>3, SplitAt
<1> SUFFICES ASSUME NEW i \in DOMAIN b, b[i].kind = "user"
             PROVE  IF i = Len(b) THEN u.pendingUserTurn ELSE b[i + 1].kind # "user"
  BY DEF UsersAnswered
<1>a. ASSUME NEW j \in DOMAIN ms, ms[j].kind = "user"
      PROVE  IF j = Len(ms) THEN s.pendingUserTurn ELSE ms[j + 1].kind # "user"
  BY <1>a DEF UsersAnswered
<1>m. ms \in Seq(Message)
  BY SessionFields
<1> HIDE DEF ms, b
<1> DEFINE j == n + i - 1
<1>1. i \in 1..Len(ms) - n + 1 /\ j \in DOMAIN ms /\ b[i] = ms[j] /\ i \in Nat
  <2>1. i \in 1..Len(ms) - n + 1
    BY <1>0
  <2>2. j \in 1..Len(ms)
    BY <1>0, <2>1
  <2>3. b[i] = ms[j] /\ i \in Nat
    BY <1>0, <2>1
  <2>4. j \in DOMAIN ms
    BY <1>m, <2>2
  <2> QED BY <2>1, <2>3, <2>4
<1>2. i = Len(b) <=> j = Len(ms)
  <2>1. Len(b) = Len(ms) - n + 1 /\ n \in Nat /\ Len(ms) \in Nat /\ i \in Nat
    BY <1>0, <1>1
  <2> QED BY <2>1
<1>3. ASSUME i # Len(b) PROVE b[i + 1] = ms[j + 1]
  <2>0. i \in Nat /\ n \in Nat /\ Len(ms) \in Nat /\ i <= Len(ms) - n + 1 /\ i # Len(ms) - n + 1
    BY <1>0, <1>1, <1>3
  <2>1. n + (i + 1) - 1 = j + 1
    BY <2>0
  <2>3. i + 1 \in 1..Len(ms) - n + 1
    <3> HIDE DEF j
    <3> QED BY <2>0
  <2>2. b[i + 1] = ms[n + (i + 1) - 1]
    BY <1>0, <2>3
  <2> QED BY <2>1, <2>2
<1> QED BY <1>1, <1>2, <1>3, <1>a

\* _spill_overflow_into_warm_store leaves a session that can be restored, and
\* if no SAVE has ever been trimmed it moves whole turns only.
LEMMA SpillKeeps ==
  ASSUME NEW s, IsSession(s), NEW t \in Nat, NEW k, NEW ex, NEW db,
         Restorable(s, t, k, ex, db), s.checkpoint = NoCheckpoint, ~s.pendingUserTurn,
         s.msgEnd = Len(s.messages)
  PROVE  LET u == Spill(s)
         IN  /\ IsSession(u) /\ Restorable(u, t, k, ex, db)
             /\ MaxTrim = 0 => Conversation(u) = Conversation(s)
<1> DEFINE u == Spill(s)
           ms == s.messages
           us == u.messages
           cs == Conversation(s)
           cu == Conversation(u)
           n == HotStart(ms)
           old == s.drained \o s.warm
<1>0. /\ s \in Session /\ ms \in Seq(Message) /\ Len(ms) \in Nat /\ old \in Seq(Message)
      /\ n \in 1..Len(ms) + 1 /\ cs \in Seq(Message)
  BY SessionFields, HotRange DEF IsSession
<1>1. /\ IsSession(u) /\ ~u.pendingUserTurn /\ u.checkpoint = NoCheckpoint
      /\ u.msgEnd = Len(us) /\ us = SubSeq(ms, n, Len(ms))
      /\ u.pendingUserTurn = s.pendingUserTurn
  BY SpillFacts
<1>2. PICK x \in Seq(Message), f \in Seq(Message) :
             /\ StartsWithUser(ms) => x = <<>>
             /\ cs = old \o (x \o (f \o us))
             /\ cu = old \o (f \o us)
  BY SpillFacts
<1>3. /\ u \in Session /\ us \in Seq(Message) /\ f \o us \in Seq(Message) /\ u.msgEnd \in Nat
      /\ Len(us) \in Nat /\ cu \in Seq(Message)
  <2>1. u \in Session
    BY <1>1 DEF IsSession
  <2> HIDE DEF u
  <2>2. us \in Seq(Message) /\ u.msgEnd \in Nat /\ cu \in Seq(Message)
    BY <2>1, SessionFields
  <2> HIDE DEF us
  <2> QED BY <2>1, <2>2
<1>a. /\ CallsAnswered(ms) /\ (db \/ OnceIn(s))
      /\ \A i \in DOMAIN cs : cs[i].turn <= t
      /\ MaxTrim = 0 => /\ Closed(ms) /\ UsersAnswered(s) /\ StartsWithUser(ms)
                        /\ WorkIn(s, ex)
  BY DEF Restorable
<1>b. s.messages = ms /\ u.messages = us /\ Conversation(s) = cs /\ Conversation(u) = cu
  OBVIOUS
<1> HIDE DEF u, ms, us, cs, cu, n, old
<1>4. /\ \A i \in DOMAIN cu : \E j \in DOMAIN cs : cu[i] = cs[j]
      /\ Distinct(cs) => Distinct(cu)
  <2> DEFINE b == f \o us
  <2>1. b \in Seq(Message) /\ cu = old \o b /\ cs = old \o (x \o b)
    BY <1>2, <1>3
  <2> HIDE DEF b
  <2>2. /\ \A i \in DOMAIN (old \o b) : \E j \in DOMAIN (old \o (x \o b)) :
             (old \o b)[i] = (old \o (x \o b))[j]
        /\ Distinct(old \o (x \o b)) => Distinct(old \o b)
    BY <1>0, <2>1, MiddleGone
  <2> QED BY <2>1, <2>2
<1>5. CallsAnswered(us)
  BY <1>0, <1>1, <1>a, AnsweredTail
<1>6. \A i \in DOMAIN cu : cu[i].turn <= t
  BY <1>4, <1>a
<1>7. MarksOf(u, k)
  <2>1. u.msgEnd + 1..Len(us) = {}
    BY <1>1, <1>3
  <2> QED BY <1>1, <1>b, <2>1 DEF MarksOf
<1>8. db \/ OnceIn(u)
  BY <1>1, <1>4, <1>a, <1>b DEF OnceIn
<1>9. ASSUME MaxTrim = 0
      PROVE  Closed(us) /\ UsersAnswered(u) /\ StartsWithUser(us) /\ cu = cs
  <2>1. UsersAnswered(u)
    BY <1>0, <1>1, <1>3, <1>9, <1>a, <1>b, AnsweredUsersTail
  <2>2. Closed(us) /\ StartsWithUser(us)
    <3>1. n = 1 \/ n \in Users(ms)
      BY <1>0, <1>9, <1>a, HotAtUser DEF n
    <3>2. CASE n = 1
      <4>1. us = ms
        BY <1>0, <1>1, <3>2, SubSeqFull
      <4> QED BY <1>9, <1>a, <4>1
    <3>3. CASE n \in Users(ms)
      BY <1>0, <1>1, <1>9, <1>a, <3>3, ClosedTail
    <3> QED BY <3>1, <3>2, <3>3
  <2>3. cu = cs
    <3>1. x = <<>>
      BY <1>2, <1>9, <1>a
    <3>2. <<>> \o (f \o us) = f \o us
      BY <1>3, ConcatEmptySeq
    <3> QED BY <1>2, <3>1, <3>2
  <2> QED BY <2>1, <2>2, <2>3
<1>10. MaxTrim = 0 => WorkIn(u, ex)
  BY <1>9, <1>a, <1>b DEF WorkIn
<1>11. PendingOpen(u)
  BY <1>1 DEF PendingOpen
<1>12. Restorable(u, t, k, ex, db)
  BY <1>5, <1>6, <1>7, <1>8, <1>9, <1>10, <1>11, <1>b DEF Restorable
<1> QED BY <1>1, <1>9, <1>12, <1>b DEF u

LEMMA DoneNat == Done \in Nat
<1> DEFINE S == {c \in 1..MaxCalls : <<turn, iter, c>> \in execd}
<1>1. IsFiniteSet(1..MaxCalls) /\ S \subseteq 1..MaxCalls
  BY Bounds, FS_Interval
<1>2. IsFiniteSet(S)
  BY <1>1, FS_Subset
<1> HIDE DEF S
<1>3. Cardinality(S) \in Nat
  BY <1>2, FS_CardinalityType
<1> QED BY <1>3 DEF Done, S

\* Where the entries of a run come from.
LEMMA EntryTypes ==
  ASSUME TypeOK, Placed, pc # "idle"
  PROVE  /\ turn \in 1..MaxTurns /\ iter \in 0..MaxIterations /\ iter \in Nat /\ turn \in Nat
         /\ \A kind \in Kinds, call \in 0..MaxCalls : Entry(kind, call) \in Message
         /\ \A f \in FollowUps : f \in Seq(Message) /\ Len(f) \in Nat
<1>1. turn \in 1..MaxTurns /\ iter \in 0..MaxIterations /\ iter \in Nat /\ turn \in Nat
  BY Bounds DEF TypeOK, Placed
<1>2. \A kind \in Kinds, call \in 0..MaxCalls : Entry(kind, call) \in Message
  BY <1>1, EntryType
<1>3. Entry("followup", 0) \in Message
  BY <1>2, Bounds DEF Kinds
<1>4. \A f \in FollowUps : f \in Seq(Message) /\ Len(f) \in Nat
  <2> DEFINE m == Entry("followup", 0)
  <2>1. m \in Message
    BY <1>3
  <2>2. FollowUps = {<<>>, <<m>>}
    BY DEF FollowUps
  <2> HIDE DEF m
  <2>3. /\ <<>> \in Seq(Message) /\ <<m>> \in Seq(Message)
        /\ Len(<<>>) \in Nat /\ Len(<<m>>) \in Nat
    BY <2>1
  <2> QED BY <2>2, <2>3, Zenon
<1> QED BY <1>1, <1>2, <1>4

LEMMA ToolTypes ==
  ASSUME TypeOK, Placed, pc = "tools"
  PROVE  /\ run \in Seq(Message) /\ run # <<>> /\ Last(run) \in Message
         /\ Last(run).call \in 0..MaxCalls /\ Last(run).call \in Nat
         /\ \A k \in ResultCounts :
              /\ k \in 0..Last(run).call
              /\ Results(k) \in Seq(Message) /\ Len(Results(k)) = k
<1>1. run \in Seq(Message) /\ run # <<>>
  BY DEF TypeOK, Placed
<1>2. Last(run) \in Message
  BY <1>1 DEF Last
<1> DEFINE n == Last(run).call
<1>3. n \in 0..MaxCalls /\ n \in Nat
  BY <1>2, MessageFields, Bounds
<1>4. ASSUME NEW i \in 1..n PROVE Entry("result", i) \in Message
  <2>1. i \in 0..MaxCalls /\ "result" \in Kinds
    BY <1>3, Bounds DEF Kinds
  <2> QED BY <2>1, EntryTypes
<1>5. ResultCounts \subseteq 0..n
  <2>1. ResultCounts \in {0..n, {n}}
    BY DEF ResultCounts
  <2> HIDE DEF n
  <2> QED BY <1>3, <2>1
<1> HIDE DEF n
<1>6. ASSUME NEW k \in ResultCounts
      PROVE  k \in 0..n /\ Results(k) \in Seq(Message) /\ Len(Results(k)) = k
  <2>1. k \in 0..n /\ k \in Nat
    BY <1>3, <1>5
  <2>2. \A i \in 1..k : Entry("result", i) \in Message
    BY <1>3, <1>4, <2>1
  <2>3. Results(k) = [i \in 1..k |-> Entry("result", i)]
    BY DEF Results
  <2> QED BY <2>1, <2>2, <2>3
<1> QED BY <1>1, <1>2, <1>3, <1>6 DEF n

LEMMA SetTypes ==
  ASSUME IsSession(mem), NEW a \in Message, NEW c \in Seq(Message), NEW p \in BOOLEAN
  PROVE  LET u == SetCheckpoint(a, c, p)
             cp == [assistant |-> a, completed |-> c, pending |-> p]
         IN  /\ IsSession(u) /\ u.messages = mem.messages /\ u.checkpoint = cp
             /\ u.msgEnd = mem.msgEnd /\ u.pendingUserTurn = mem.pendingUserTurn
             /\ Conversation(u) = Conversation(mem)
<1> DEFINE cp == [assistant |-> a, completed |-> c, pending |-> p]
<1>1. cp \in Checkpoint
  BY DEF Checkpoint
<1>2. SetCheckpoint(a, c, p) = [mem EXCEPT !.checkpoint = cp]
  BY DEF SetCheckpoint
<1> HIDE DEF cp
<1>3. LET u == [mem EXCEPT !.checkpoint = cp]
      IN  /\ IsSession(u) /\ u.messages = mem.messages /\ u.checkpoint = cp
          /\ u.msgEnd = mem.msgEnd /\ u.pendingUserTurn = mem.pendingUserTurn
          /\ Conversation(u) = Conversation(mem)
  BY <1>1, CheckpointTypes
<1> QED BY <1>2, <1>3 DEF cp

\* The spill does not look at the marks.
SavedSession == [SaveTurn(mem) EXCEPT !.pendingUserTurn = FALSE, !.checkpoint = NoCheckpoint]

LEMMA AfterTurnTypes ==
  ASSUME IsSession(mem), run \in Seq(Message), trimmed \in 0..MaxTrim
  PROVE  /\ AfterTurn = Spill(SavedSession)
         /\ IsSession(AfterTurn)
<1> DEFINE u == SaveTurn(mem)
<1>1. IsSession(u)
  BY SaveTypes
<1>2. IsSession(SavedSession)
  BY SaveTypes DEF SavedSession
<1>3. AfterTurn = Spill(SavedSession)
  <2> DEFINE v == SavedSession
             n == HotStart(u.messages)
             w == u.warm \o FromFirstUser(SubSeq(u.messages, 1, n - 1))
             x == SubSeq(u.messages, n, Len(u.messages))
             y == Min({u.msgEnd, Len(u.messages) - n + 1})
  <2>0. /\ v = [u EXCEPT !.pendingUserTurn = FALSE, !.checkpoint = NoCheckpoint]
        /\ AfterTurn = [Spill(u) EXCEPT !.pendingUserTurn = FALSE, !.checkpoint = NoCheckpoint]
    BY DEF SavedSession, AfterTurn
  <2>1. u \in Session
    BY <1>1 DEF IsSession
  <2> HIDE DEF u, v
  <2>2. v.messages = u.messages /\ v.warm = u.warm /\ v.msgEnd = u.msgEnd
    BY <2>0, <2>1 DEF Session
  <2>3. Spill(u) = IF n = 1 THEN u
                   ELSE [u EXCEPT !.warm = w, !.messages = x, !.msgEnd = y]
    BY <2>1 DEF Spill, Session
  <2>4. Spill(v) = IF n = 1 THEN v
                   ELSE [v EXCEPT !.warm = w, !.messages = x, !.msgEnd = y]
    <3>1. Spill(v) = IF HotStart(v.messages) = 1 THEN v
            ELSE [v EXCEPT !.warm = v.warm \o FromFirstUser(SubSeq(v.messages, 1,
                                                              HotStart(v.messages) - 1)),
                           !.messages = SubSeq(v.messages, HotStart(v.messages), Len(v.messages)),
                           !.msgEnd = Min({v.msgEnd, Len(v.messages) - HotStart(v.messages) + 1})]
      BY <2>0, <2>1 DEF Spill, Session
    <3> QED BY <2>2, <3>1
  <2> HIDE DEF n, w, x, y
  <2>5. CASE n = 1
    <3>1. Spill(u) = u /\ Spill(v) = v
      BY <2>3, <2>4, <2>5
    <3> QED BY <2>0, <3>1 DEF v
  <2>6. CASE n # 1
    <3>1. /\ Spill(u) = [u EXCEPT !.warm = w, !.messages = x, !.msgEnd = y]
          /\ Spill(v) = [v EXCEPT !.warm = w, !.messages = x, !.msgEnd = y]
      BY <2>3, <2>4, <2>6
    <3>2. [[u EXCEPT !.warm = w, !.messages = x, !.msgEnd = y]
             EXCEPT !.pendingUserTurn = FALSE, !.checkpoint = NoCheckpoint]
          = [[u EXCEPT !.pendingUserTurn = FALSE, !.checkpoint = NoCheckpoint]
               EXCEPT !.warm = w, !.messages = x, !.msgEnd = y]
      OBVIOUS
    <3> QED BY <2>0, <3>1, <3>2 DEF v
  <2> QED BY <2>5, <2>6 DEF v
<1> QED BY <1>2, <1>3, SpillFacts

\* What a step does to the cache and to the file: except for the spill it keeps
\* the conversation of the cache, and it may write it, or it loads the file.
Kept ==
    /\ IsSession(mem') /\ IsSession(disk')
    /\ \/ /\ disk' \in {disk, mem'}
          /\ StateSave \/ IsPrefix(Conversation(mem), Conversation(mem'))
       \/ mem' = disk /\ disk' = disk

LEMMA SaveKept ==
  ASSUME TypeOK, NEW s, IsSession(s), NEW ok \in BOOLEAN, Save(s, ok),
         StateSave \/ IsPrefix(Conversation(mem), Conversation(s))
  PROVE  Kept
<1>1. mem' = s /\ disk' = IF ok THEN s ELSE disk
  BY DEF Save
<1>2. StateSave \/ IsPrefix(Conversation(mem), Conversation(mem'))
  BY <1>1
<1>3. IsSession(mem') /\ IsSession(disk') /\ disk' \in {disk, mem'}
  BY <1>1 DEF TypeOK
<1> QED BY <1>2, <1>3 DEF Kept

\* _run_warm_summary moves messages within the conversation.
LEMMA DrainTypes ==
  ASSUME IsSession(mem), WarmSummaryDrains
  PROVE  /\ IsSession(mem') /\ Conversation(mem') = Conversation(mem)
         /\ mem'.messages = mem.messages /\ mem'.checkpoint = mem.checkpoint
         /\ mem'.msgEnd = mem.msgEnd /\ mem'.pendingUserTurn = mem.pendingUserTurn
<1>1. /\ mem \in Session /\ mem.drained \in Seq(Message) /\ mem.warm \in Seq(Message)
      /\ mem.messages \in Seq(Message)
  BY SessionFields DEF IsSession
<1> DEFINE d == mem.drained \o mem.warm
<1>2. d \in Seq(Message) /\ <<>> \in Seq(Message)
  BY <1>1
<1>3. mem' = [mem EXCEPT !.drained = d, !.warm = <<>>]
  BY DEF WarmSummaryDrains
<1> HIDE DEF d
<1>4. /\ mem' \in Session /\ mem'.drained = d /\ mem'.warm = <<>>
      /\ mem'.messages = mem.messages /\ mem'.checkpoint = mem.checkpoint
      /\ mem'.msgEnd = mem.msgEnd /\ mem'.pendingUserTurn = mem.pendingUserTurn
  BY <1>1, <1>2, <1>3 DEF Session
<1>5. d \o <<>> = d
  BY <1>2
<1>6. Conversation(mem') = Conversation(mem)
  BY <1>4, <1>5 DEF Conversation, d
<1> QED BY <1>4, <1>6 DEF IsSession

LEMMA KeptStep ==
  ASSUME TypeOK, Placed, [Next]_vars
  PROVE  Kept
<1> DEFINE cs == Conversation(mem)
<1>0. IsSession(mem) /\ IsSession(disk) /\ cs \in Seq(Message) /\ IsPrefix(cs, cs)
  BY SessionFields, PrefixSame DEF TypeOK, IsSession
<1>1. ASSUME UNCHANGED <<mem, disk>> PROVE Kept
  BY <1>0, <1>1 DEF Kept
<1>2. CASE StateRestore
  <2> DEFINE r == RestoreCheckpoint(mem)
             s == RestorePendingUserTurn(r)
  <2>1. IsSession(r) /\ IsPrefix(cs, Conversation(r))
    BY <1>0, RestoreTypes
  <2> HIDE DEF r
  <2>2. IsSession(s) /\ IsPrefix(Conversation(r), Conversation(s))
    BY <2>1, PendingTypes
  <2> HIDE DEF s
  <2>3. IsPrefix(cs, Conversation(s))
    <3>1. Conversation(r) \in Seq(Message) /\ Conversation(s) \in Seq(Message)
      BY <2>1, <2>2, SessionFields DEF IsSession
    <3> QED BY <1>0, <2>1, <2>2, <3>1, PrefixTrans
  <2>4. UNCHANGED <<mem, disk>> \/ \E ok \in BOOLEAN : Save(s, ok)
    BY <1>2 DEF StateRestore, s, r
  <2> QED BY <1>1, <2>2, <2>3, <2>4, SaveKept
<1>3. CASE StateBuild
  <2>1. pc # "idle"
    BY <1>3 DEF StateBuild
  <2>2. turn \in 1..MaxTurns /\ iter \in 0..MaxIterations
    BY <2>1, EntryTypes
  <2>3. PICK ok \in BOOLEAN : Save(PersistUserEarly(mem), ok)
    BY <1>3 DEF StateBuild
  <2>4. IsSession(PersistUserEarly(mem))
        /\ IsPrefix(cs, Conversation(PersistUserEarly(mem)))
    BY <1>0, <2>2, UserTypes
  <2> QED BY <2>3, <2>4, SaveKept
<1>4. ASSUME NEW kind \in CallKinds, NEW n \in 1..MaxCalls, ModelCalls(kind, n) PROVE Kept
  <2>1. pc # "idle"
    BY <1>4 DEF ModelCalls, ModelReplies
  <2>2. Entry(kind, n) \in Message
    BY <2>1, EntryTypes, Bounds DEF Kinds, CallKinds
  <2>3. PICK ok \in BOOLEAN : Save(SetCheckpoint(Entry(kind, n), <<>>, TRUE), ok)
    BY <1>4 DEF ModelCalls
  <2>4. <<>> \in Seq(Message)
    OBVIOUS
  <2> DEFINE u == SetCheckpoint(Entry(kind, n), <<>>, TRUE)
  <2>5. IsSession(u) /\ Conversation(u) = cs
    BY <1>0, <2>2, <2>4, SetTypes
  <2> HIDE DEF u
  <2>6. Save(u, ok)
    BY <2>3 DEF u
  <2> QED BY <1>0, <2>5, <2>6, SaveKept
<1>5. CASE ToolsCompleted
  <2>2. PICK ok \in BOOLEAN, k \in ResultCounts :
               Save(SetCheckpoint(Last(run), Results(k), FALSE), ok)
    BY <1>5 DEF ToolsCompleted
  <2>1. Last(run) \in Message /\ Results(k) \in Seq(Message)
    BY <1>5, ToolTypes DEF ToolsCompleted
  <2> DEFINE u == SetCheckpoint(Last(run), Results(k), FALSE)
  <2>5. IsSession(u) /\ Conversation(u) = cs
    BY <1>0, <2>1, SetTypes
  <2> HIDE DEF u
  <2>6. Save(u, ok)
    BY <2>2 DEF u
  <2> QED BY <1>0, <2>5, <2>6, SaveKept
<1>6. CASE ModelAnswers
  <2>1. pc # "idle"
    BY <1>6 DEF ModelAnswers, ModelReplies
  <2>2. Entry("answer", 0) \in Message
    BY <2>1, EntryTypes, Bounds DEF Kinds
  <2>3. PICK ok \in BOOLEAN : Save(SetCheckpoint(Entry("answer", 0), <<>>, FALSE), ok)
    BY <1>6 DEF ModelAnswers
  <2>4. <<>> \in Seq(Message)
    OBVIOUS
  <2> DEFINE u == SetCheckpoint(Entry("answer", 0), <<>>, FALSE)
  <2>5. IsSession(u) /\ Conversation(u) = cs
    BY <1>0, <2>2, <2>4, SetTypes
  <2> HIDE DEF u
  <2>6. Save(u, ok)
    BY <2>3 DEF u
  <2> QED BY <1>0, <2>5, <2>6, SaveKept
<1>7. CASE StateSave
  <2>1. run \in Seq(Message) /\ trimmed \in 0..MaxTrim
    BY DEF TypeOK
  <2>2. IsSession(AfterTurn)
    BY <1>0, <2>1, AfterTurnTypes
  <2>3. \E ok \in BOOLEAN : Save(AfterTurn, ok)
    BY <1>7 DEF StateSave
  <2> QED BY <1>7, <2>2, <2>3, SaveKept
<1>8. CASE StateSaveRaises
  <2>1. run \in Seq(Message) /\ trimmed \in 0..MaxTrim
    BY DEF TypeOK
  <2>2. IsSession(SaveTurn(mem)) /\ IsPrefix(cs, Conversation(SaveTurn(mem)))
    BY <1>0, <2>1, SaveTypes
  <2>3. mem' = SaveTurn(mem) /\ disk' = disk
    BY <1>8 DEF StateSaveRaises
  <2> QED BY <1>0, <2>2, <2>3 DEF Kept
<1>9. CASE Cancelled
  <2>1. IsSession(RestoreCheckpoint(mem))
        /\ IsPrefix(cs, Conversation(RestoreCheckpoint(mem)))
    BY <1>0, RestoreTypes
  <2>2. UNCHANGED <<mem, disk>> \/ \E ok \in BOOLEAN : Save(RestoreCheckpoint(mem), ok)
    BY <1>9 DEF Cancelled
  <2> QED BY <1>1, <2>1, <2>2, SaveKept
<1>10. CASE CrashAndRestart
  BY <1>0, <1>10 DEF CrashAndRestart, Kept
<1>11. CASE \/ ExecuteTool \/ ToolsFailed \/ ModelFails \/ ModelTruncatedOrEmpty
            \/ OutOfIterations \/ StateRespond \/ RunRaises \/ UNCHANGED vars
  <2>1. UNCHANGED <<mem, disk>>
    BY <1>11 DEF ExecuteTool, ToolsFailed, ModelFails, ModelTruncatedOrEmpty,
                 OutOfIterations, StateRespond, RunRaises, vars
  <2> QED BY <1>1, <2>1
<1>12. CASE WarmSummaryDrains
  <2>1. IsSession(mem') /\ Conversation(mem') = cs
    BY <1>0, <1>12, DrainTypes
  <2>2. disk' = disk
    BY <1>12 DEF WarmSummaryDrains
  <2> QED BY <1>0, <2>1, <2>2 DEF Kept
<1>13. CASE WarmSummaryEnds
  <2>1. \E ok \in BOOLEAN : Save(mem, ok)
    BY <1>13 DEF WarmSummaryEnds
  <2> QED BY <1>0, <2>1, SaveKept
<1> QED BY <1>2, <1>3, <1>4, <1>5, <1>6, <1>7, <1>8, <1>9, <1>10, <1>11, <1>12, <1>13
        DEF Next, RunStep

LEMMA SpendTypes ==
  ASSUME TypeOK, NEW a \in Nat, NEW b \in Nat, NEW c \in Nat, Spend(a, b, c)
  PROVE  used' \in [faults : 0..MaxFaults, saveFails : 0..MaxSaveFails,
                    followUps : 0..MaxFollowUps]
<1>1. used.faults \in Nat /\ used.saveFails \in Nat /\ used.followUps \in Nat
  BY Bounds DEF TypeOK
<1>2. /\ used.faults + a \in 0..MaxFaults /\ used.saveFails + b \in 0..MaxSaveFails
      /\ used.followUps + c \in 0..MaxFollowUps
  BY <1>1, Bounds DEF Spend
<1> QED BY <1>2 DEF Spend

LEMMA FaultNat == \A ok \in BOOLEAN : SaveFault(ok) \in Nat
BY DEF SaveFault

\* A run grows by messages.
LEMMA RunTypes ==
  ASSUME TypeOK, Placed, pc # "idle",
         NEW kind \in Kinds, NEW call \in 0..MaxCalls, NEW r \in Seq(Message), NEW f \in FollowUps
  PROVE  /\ r \o <<Entry(kind, call)>> \o f \in Seq(Message)
         /\ Append(r, Entry(kind, call)) \in Seq(Message)
<1> DEFINE m == Entry(kind, call)
<1>1. m \in Message /\ f \in Seq(Message)
  BY EntryTypes
<1> HIDE DEF m
<1>2. r \o <<m>> \o f \in Seq(Message) /\ Append(r, m) \in Seq(Message)
  BY <1>1
<1> QED BY <1>2 DEF m

LEMMA TypeStep ==
  ASSUME TypeOK, Placed, [Next]_vars
  PROVE  TypeOK' /\ Placed'
<1> DEFINE Rest == /\ pc' \in PCs /\ turn' \in 0..MaxTurns /\ iter' \in 0..MaxIterations
                   /\ run' \in Seq(Message) /\ trimmed' \in 0..MaxTrim
                   /\ summary' \in [due : Nat, running : Nat]
                   /\ execd' \in SUBSET ((1..MaxTurns) \X (0..MaxIterations) \X (1..MaxCalls))
                   /\ kept' \in SUBSET (1..MaxTurns) /\ doubtful' \in BOOLEAN
                   /\ used' \in [faults : 0..MaxFaults, saveFails : 0..MaxSaveFails,
                                 followUps : 0..MaxFollowUps]
                   /\ Placed'
<1> SUFFICES Rest
  <2>1. IsSession(mem)' /\ IsSession(disk)'
    BY KeptStep DEF Kept, IsSession
  <2> QED BY <2>1 DEF TypeOK
<1>0. /\ pc \in PCs /\ turn \in 0..MaxTurns /\ iter \in 0..MaxIterations
      /\ run \in Seq(Message) /\ trimmed \in 0..MaxTrim
      /\ summary \in [due : Nat, running : Nat]
      /\ execd \in SUBSET ((1..MaxTurns) \X (0..MaxIterations) \X (1..MaxCalls))
      /\ kept \in SUBSET (1..MaxTurns) /\ doubtful \in BOOLEAN
      /\ used \in [faults : 0..MaxFaults, saveFails : 0..MaxSaveFails,
                   followUps : 0..MaxFollowUps]
  BY DEF TypeOK
<1>p. /\ pc # "idle" => turn > 0
      /\ pc = "tools" => iter < MaxIterations /\ run # <<>>
  BY DEF Placed
<1>s. ASSUME NEW ok \in BOOLEAN, NEW n \in Nat, Spend(0, SaveFault(ok), n)
      PROVE  used' \in [faults : 0..MaxFaults, saveFails : 0..MaxSaveFails,
                        followUps : 0..MaxFollowUps]
  BY <1>s, FaultNat, SpendTypes
<1>u. ASSUME NEW n \in Nat, Spend(0, 0, n) \/ Spend(1, 0, 0)
      PROVE  used' \in [faults : 0..MaxFaults, saveFails : 0..MaxSaveFails,
                        followUps : 0..MaxFollowUps]
  BY <1>u, SpendTypes
<1>1. CASE StateRestore
  <2>1. used' = used \/ \E ok \in BOOLEAN : Spend(0, SaveFault(ok), 0)
    BY <1>1 DEF StateRestore
  <2>2. used' \in [faults : 0..MaxFaults, saveFails : 0..MaxSaveFails, followUps : 0..MaxFollowUps]
    BY <1>0, <1>s, <2>1
  <2>3. /\ turn' = turn + 1 /\ turn < MaxTurns /\ iter' = 0 /\ run' = <<>> /\ trimmed' = 0
        /\ pc' \in {"restored", "idle"} /\ UNCHANGED <<execd, kept, doubtful, summary>>
    BY <1>1 DEF StateRestore
  <2>4. turn' \in 0..MaxTurns /\ turn' > 0
    BY <1>0, <2>3, Bounds
  <2> QED BY <1>0, <2>2, <2>3, <2>4, Bounds DEF Placed, PCs
<1>2. CASE StateBuild
  <2>1. PICK ok \in BOOLEAN : Spend(0, SaveFault(ok), 0)
    BY <1>2 DEF StateBuild
  <2>2. used' \in [faults : 0..MaxFaults, saveFails : 0..MaxSaveFails, followUps : 0..MaxFollowUps]
    BY <1>s, <2>1
  <2>3. /\ pc = "restored" /\ pc' \in {"model", "idle"} /\ trimmed' \in 0..MaxTrim
        /\ UNCHANGED <<turn, iter, run, execd, kept, doubtful, summary>>
    BY <1>2 DEF StateBuild
  <2> QED BY <1>0, <1>p, <2>2, <2>3 DEF Placed, PCs
<1>3. ASSUME NEW kind \in CallKinds, NEW n \in 1..MaxCalls, ModelCalls(kind, n) PROVE Rest
  <2>1. /\ pc = "model" /\ iter < MaxIterations /\ pc' \in {"tools", "idle"}
        /\ run' = Append(run, Entry(kind, n))
        /\ UNCHANGED <<turn, iter, trimmed, execd, kept, doubtful, summary>>
    BY <1>3 DEF ModelCalls, ModelReplies
  <2>2. PICK ok \in BOOLEAN : Spend(0, SaveFault(ok), 0)
    BY <1>3 DEF ModelCalls
  <2>3. used' \in [faults : 0..MaxFaults, saveFails : 0..MaxSaveFails, followUps : 0..MaxFollowUps]
    BY <1>s, <2>2
  <2>4. Entry(kind, n) \in Message
    BY <2>1, EntryTypes, Bounds DEF Kinds, CallKinds
  <2>5. run' \in Seq(Message) /\ run' # <<>>
    BY <1>0, <2>1, <2>4
  <2> QED BY <1>0, <1>p, <2>1, <2>3, <2>5 DEF Placed, PCs
<1>4. CASE ExecuteTool
  <2>1. /\ pc = "tools" /\ Done < Last(run).call
        /\ execd' = execd \cup {<<turn, iter, Done + 1>>}
        /\ UNCHANGED <<mem, disk, pc, turn, iter, run, trimmed, kept, doubtful, used, summary>>
    BY <1>4 DEF ExecuteTool
  <2>2. Done + 1 \in 1..MaxCalls
    <3>1. Last(run).call \in 0..MaxCalls /\ Done \in Nat
      BY <2>1, ToolTypes, DoneNat
    <3> QED BY <2>1, <3>1, Bounds
  <2>3. turn \in 1..MaxTurns
    BY <2>1, EntryTypes
  <2> QED BY <1>0, <1>p, <2>1, <2>2, <2>3 DEF Placed
<1>5. CASE ToolsCompleted
  <2>1. /\ pc = "tools" /\ iter' = iter + 1 /\ pc' \in {"model", "idle"}
        /\ UNCHANGED <<turn, trimmed, execd, kept, doubtful, summary>>
    BY <1>5 DEF ToolsCompleted
  <2>2. PICK ok \in BOOLEAN, f \in FollowUps, k \in ResultCounts :
          run' = run \o Results(k) \o f /\ Spend(0, SaveFault(ok), Len(f))
    BY <1>5 DEF ToolsCompleted
  <2>3. f \in Seq(Message) /\ Len(f) \in Nat /\ Results(k) \in Seq(Message)
    BY <2>1, EntryTypes, ToolTypes
  <2>4. run' \in Seq(Message)
    BY <1>0, <2>2, <2>3
  <2>5. used' \in [faults : 0..MaxFaults, saveFails : 0..MaxSaveFails, followUps : 0..MaxFollowUps]
    BY <1>s, <2>2, <2>3
  <2>6. iter' \in 0..MaxIterations
    BY <1>0, <1>p, <2>1, Bounds
  <2> QED BY <1>0, <1>p, <2>1, <2>4, <2>5, <2>6 DEF Placed, PCs
<1>6. ASSUME NEW last \in Seq(Message), ContinueOrReturn(last), pc # "idle", iter < MaxIterations,
             UNCHANGED <<mem, disk, turn, trimmed, execd, kept, doubtful, summary>>
      PROVE  Rest
  <2>1. PICK f \in FollowUps :
          /\ run' = run \o last \o f /\ Spend(0, 0, Len(f))
          /\ pc' = IF f = <<>> THEN "ran" ELSE "model"
          /\ iter' = IF f = <<>> THEN iter ELSE iter + 1
    BY <1>6 DEF ContinueOrReturn
  <2>2. f \in Seq(Message) /\ Len(f) \in Nat
    BY <1>6, EntryTypes
  <2>3. run' \in Seq(Message)
    BY <1>0, <2>1, <2>2
  <2>4. used' \in [faults : 0..MaxFaults, saveFails : 0..MaxSaveFails, followUps : 0..MaxFollowUps]
    BY <1>u, <2>1, <2>2
  <2>5. iter' \in 0..MaxIterations /\ pc' \in {"ran", "model"}
    BY <1>0, <1>6, <2>1, Bounds
  <2> QED BY <1>0, <1>p, <1>6, <2>3, <2>4, <2>5 DEF Placed, PCs
<1>7. CASE ToolsFailed
  <2>1. pc = "tools"
    BY <1>7 DEF ToolsFailed
  <2>0. PICK k \in ResultCounts : ContinueOrReturn(Results(k) \o <<Entry("placeholder", 0)>>)
    BY <1>7 DEF ToolsFailed
  <2>2. Entry("placeholder", 0) \in Message /\ Results(k) \in Seq(Message)
    BY <2>1, EntryTypes, ToolTypes, Bounds DEF Kinds
  <2> DEFINE last == Results(k) \o <<Entry("placeholder", 0)>>
  <2>3. last \in Seq(Message)
    <3> DEFINE m == Entry("placeholder", 0)
    <3>1. m \in Message
      BY <2>2
    <3> HIDE DEF m
    <3> QED BY <2>2, <3>1 DEF m
  <2>4. ContinueOrReturn(last) /\ UNCHANGED <<mem, disk, turn, trimmed, execd, kept, doubtful, summary>>
    BY <1>7, <2>0 DEF ToolsFailed
  <2> HIDE DEF last
  <2> QED BY <1>6, <1>p, <2>1, <2>3, <2>4
<1>8. CASE ModelAnswers
  <2>1. /\ pc = "model" /\ iter < MaxIterations
        /\ UNCHANGED <<turn, trimmed, execd, kept, doubtful, summary>>
    BY <1>8 DEF ModelAnswers, ModelReplies
  <2>2. PICK ok \in BOOLEAN, f \in FollowUps :
          /\ run' = run \o <<Entry("answer", 0)>> \o f
          /\ pc' = IF ~ok THEN "idle" ELSE IF f = <<>> THEN "ran" ELSE "model"
          /\ iter' = IF f = <<>> THEN iter ELSE iter + 1
          /\ Spend(0, SaveFault(ok), Len(f))
    BY <1>8 DEF ModelAnswers
  <2>3. Len(f) \in Nat
    BY <2>1, EntryTypes
  <2>4. run' \in Seq(Message)
    BY <1>0, <2>1, <2>2, RunTypes, Bounds DEF Kinds
  <2>5. used' \in [faults : 0..MaxFaults, saveFails : 0..MaxSaveFails, followUps : 0..MaxFollowUps]
    BY <1>s, <2>2, <2>3
  <2>6. iter' \in 0..MaxIterations /\ pc' \in {"idle", "ran", "model"}
    BY <1>0, <2>1, <2>2, Bounds
  <2> QED BY <1>0, <1>p, <2>1, <2>4, <2>5, <2>6 DEF Placed, PCs
<1>9. CASE ModelFails
  <2>1. /\ pc = "model" /\ iter < MaxIterations
        /\ UNCHANGED <<mem, disk, turn, trimmed, execd, kept, doubtful, summary>>
    BY <1>9 DEF ModelFails, ModelReplies
  <2>2. CASE ContinueOrReturn(<<Entry("placeholder", 0)>>)
    <3>1. Entry("placeholder", 0) \in Message
      BY <2>1, EntryTypes, Bounds DEF Kinds
    <3>2. <<Entry("placeholder", 0)>> \in Seq(Message)
      BY <3>1
    <3> QED BY <1>6, <2>1, <2>2, <3>2
  <2>3. CASE run' = Injected(run) /\ pc' = "model" /\ iter' = iter + 1 /\ Spend(0, 0, 1)
    <3>1. used' \in [faults : 0..MaxFaults, saveFails : 0..MaxSaveFails, followUps : 0..MaxFollowUps]
      BY <1>u, <2>3
    <3>2. run' \in Seq(Message)
      <4>1. Entry("followup", 0) \in Message
        BY <2>1, EntryTypes, Bounds DEF Kinds
      <4>2. run # <<>> => Front(run) \in Seq(Message)
        <5>1. run # <<>> => /\ 1 \in Int /\ Len(run) - 1 \in Int
                            /\ \A i \in 1..Len(run) - 1 : run[i] \in Message
          BY <1>0
        <5> QED BY <5>1, SubSeqProperties DEF Front
      <4> QED BY <1>0, <2>3, <4>1, <4>2 DEF Injected
    <3>3. iter' \in 0..MaxIterations
      BY <1>0, <2>1, <2>3, Bounds
    <3> QED BY <1>0, <1>p, <2>1, <2>3, <3>1, <3>2, <3>3 DEF Placed, PCs
  <2> QED BY <1>9, <2>2, <2>3 DEF ModelFails
<1>10. CASE ModelTruncatedOrEmpty
  <2>1. /\ pc = "model" /\ iter < MaxIterations /\ iter' = iter + 1
        /\ run' \in {run, run \o <<Entry("partial", 0), Entry("resume", 0)>>}
        /\ UNCHANGED <<mem, disk, pc, turn, trimmed, execd, kept, doubtful, used, summary>>
    BY <1>10 DEF ModelTruncatedOrEmpty, ModelReplies
  <2>2. run' \in Seq(Message)
    <3>1. Entry("partial", 0) \in Message /\ Entry("resume", 0) \in Message
      BY <2>1, EntryTypes, Bounds DEF Kinds
    <3> DEFINE n == <<Entry("partial", 0), Entry("resume", 0)>>
    <3>2. n \in Seq(Message)
      BY <3>1
    <3>3. run' \in {run, run \o n}
      BY <2>1
    <3> HIDE DEF n
    <3>4. run \o n \in Seq(Message)
      BY <1>0, <3>2
    <3> QED BY <1>0, <3>3, <3>4, Zenon
  <2>3. iter' \in 0..MaxIterations
    BY <1>0, <2>1, Bounds
  <2> QED BY <1>0, <1>p, <2>1, <2>2, <2>3 DEF Placed
<1>11. CASE OutOfIterations
  <2>1. /\ pc = "model" /\ pc' = "ran"
        /\ UNCHANGED <<mem, disk, turn, iter, trimmed, execd, kept, doubtful, summary>>
    BY <1>11 DEF OutOfIterations
  <2>2. PICK f \in FollowUps :
          run' = run \o <<Entry("placeholder", 0)>> \o f /\ Spend(0, 0, Len(f))
    BY <1>11 DEF OutOfIterations
  <2>3. run' \in Seq(Message)
    BY <1>0, <2>1, <2>2, RunTypes, Bounds DEF Kinds
  <2>4. Len(f) \in Nat
    BY <2>1, EntryTypes
  <2>5. used' \in [faults : 0..MaxFaults, saveFails : 0..MaxSaveFails, followUps : 0..MaxFollowUps]
    BY <1>u, <2>2, <2>4
  <2> QED BY <1>0, <1>p, <2>1, <2>3, <2>5 DEF Placed, PCs
<1>12. CASE StateSave
  <2>1. /\ pc = "ran" /\ pc' \in {"saved", "idle"} /\ kept' \in {kept, kept \cup {turn}}
        /\ UNCHANGED <<turn, iter, run, trimmed, execd, doubtful>>
    BY <1>12 DEF StateSave
  <2>5. summary' \in [due : Nat, running : Nat]
    <3>1. summary' = summary \/ summary' = [summary EXCEPT !.due = @ + 1]
      BY <1>12 DEF StateSave
    <3> QED BY <1>0, <3>1
  <2>2. PICK ok \in BOOLEAN : Spend(0, SaveFault(ok), 0)
    BY <1>12 DEF StateSave
  <2>3. used' \in [faults : 0..MaxFaults, saveFails : 0..MaxSaveFails, followUps : 0..MaxFollowUps]
    BY <1>s, <2>2
  <2>4. turn \in 1..MaxTurns
    BY <2>1, EntryTypes
  <2> QED BY <1>0, <1>p, <2>1, <2>3, <2>4, <2>5 DEF Placed, PCs
<1>13. CASE StateSaveRaises
  <2>1. /\ pc' = "idle" /\ doubtful' \in BOOLEAN /\ Spend(1, 0, 0)
        /\ UNCHANGED <<turn, iter, run, trimmed, execd, kept, summary>>
    BY <1>0, <1>13 DEF StateSaveRaises
  <2>2. used' \in [faults : 0..MaxFaults, saveFails : 0..MaxSaveFails, followUps : 0..MaxFollowUps]
    BY <1>u, <2>1
  <2> QED BY <1>0, <2>1, <2>2 DEF Placed, PCs
<1>14. CASE RunRaises \/ CrashAndRestart
  <2>1. /\ pc' = "idle" /\ Spend(1, 0, 0)
        /\ UNCHANGED <<turn, iter, run, trimmed, execd, kept, doubtful>>
        /\ summary' \in {summary, [due |-> 0, running |-> 0]}
    BY <1>14 DEF RunRaises, CrashAndRestart
  <2>2. used' \in [faults : 0..MaxFaults, saveFails : 0..MaxSaveFails, followUps : 0..MaxFollowUps]
    BY <1>u, <2>1
  <2>3. summary' \in [due : Nat, running : Nat]
    BY <1>0, <2>1
  <2> QED BY <1>0, <2>1, <2>2, <2>3 DEF Placed, PCs
<1>15. CASE Cancelled
  <2>1. /\ pc' = "idle" /\ UNCHANGED <<turn, iter, run, trimmed, execd, kept, doubtful, summary>>
        /\ \E b \in Nat : Spend(1, b, 0)
    BY <1>15, FaultNat DEF Cancelled
  <2>2. used' \in [faults : 0..MaxFaults, saveFails : 0..MaxSaveFails, followUps : 0..MaxFollowUps]
    BY <2>1, SpendTypes
  <2> QED BY <1>0, <2>1, <2>2 DEF Placed, PCs
<1>16. CASE StateRespond \/ UNCHANGED vars
  BY <1>0, <1>p, <1>16 DEF StateRespond, vars, Placed, PCs
<1>17. CASE WarmSummaryDrains
  <2>1. /\ UNCHANGED <<pc, turn, iter, run, trimmed, execd, kept, doubtful, used>>
        /\ summary.due > 0
        /\ summary' = [due |-> summary.due - 1,
                       running |-> summary.running + IF mem.warm = <<>> THEN 0 ELSE 1]
    BY <1>17 DEF WarmSummaryDrains
  <2>2. summary' \in [due : Nat, running : Nat]
    <3>1. summary.due \in Nat /\ summary.running \in Nat
      BY <1>0
    <3>2. summary.due - 1 \in Nat /\ summary.running + (IF mem.warm = <<>> THEN 0 ELSE 1) \in Nat
      BY <2>1, <3>1
    <3> QED BY <2>1, <3>2
  <2> QED BY <1>0, <1>p, <2>1, <2>2 DEF Placed
<1>18. CASE WarmSummaryEnds
  <2>1. /\ UNCHANGED <<pc, turn, iter, run, trimmed, execd, kept, doubtful>>
        /\ summary.running > 0 /\ summary' = [summary EXCEPT !.running = @ - 1]
        /\ \E ok \in BOOLEAN : Spend(0, SaveFault(ok), 0)
    BY <1>18 DEF WarmSummaryEnds
  <2>2. summary' \in [due : Nat, running : Nat]
    BY <1>0, <2>1
  <2>3. used' \in [faults : 0..MaxFaults, saveFails : 0..MaxSaveFails, followUps : 0..MaxFollowUps]
    BY <1>s, <2>1
  <2> QED BY <1>0, <1>p, <2>1, <2>2, <2>3 DEF Placed
<1> HIDE DEF Rest
<1> QED BY <1>1, <1>2, <1>3, <1>4, <1>5, <1>7, <1>8, <1>9, <1>10, <1>11, <1>12, <1>13, <1>14,
           <1>15, <1>16, <1>17, <1>18 DEF Next, RunStep

LEMMA InitTypes ==
  ASSUME Init
  PROVE  TypeOK /\ Placed /\ FileIsPrefix
<1>1. /\ EmptySession \in Session /\ EmptySession.msgEnd = 0 /\ EmptySession.messages = <<>>
      /\ EmptySession.drained = <<>> /\ EmptySession.warm = <<>>
  BY DEF EmptySession, Session
<1>2. IsSession(EmptySession) /\ Conversation(EmptySession) \in Seq(Message)
  BY <1>1, SessionFields DEF IsSession
<1>3. IsSession(mem) /\ IsSession(disk) /\ mem = EmptySession /\ disk = EmptySession
  BY <1>1, <1>2 DEF Init
<1>3a. summary \in [due : Nat, running : Nat]
  BY DEF Init
<1>4. used \in [faults : 0..MaxFaults, saveFails : 0..MaxSaveFails, followUps : 0..MaxFollowUps]
  BY Bounds DEF Init
<1>5. /\ pc \in PCs /\ turn \in 0..MaxTurns /\ iter \in 0..MaxIterations /\ trimmed \in 0..MaxTrim
      /\ doubtful \in BOOLEAN /\ run \in Seq(Message) /\ kept = {} /\ execd = {} /\ pc = "idle"
  <2>1. /\ pc = "idle" /\ turn = 0 /\ iter = 0 /\ run = <<>> /\ trimmed = 0 /\ execd = {}
        /\ kept = {} /\ doubtful = FALSE
    BY DEF Init
  <2>2. run \in Seq(Message)
    BY <2>1
  <2>3. 0 \in 0..MaxTurns /\ 0 \in 0..MaxIterations /\ 0 \in 0..MaxTrim
    BY Bounds
  <2> QED BY <2>1, <2>2, <2>3 DEF PCs
<1>6. FileIsPrefix
  BY <1>2, <1>3, PrefixSame DEF FileIsPrefix
<1>6a. execd \in SUBSET ((1..MaxTurns) \X (0..MaxIterations) \X (1..MaxCalls))
      /\ kept \in SUBSET (1..MaxTurns)
  BY <1>5
<1>7. TypeOK
  BY <1>3, <1>3a, <1>4, <1>5, <1>6a DEF TypeOK
<1> QED BY <1>5, <1>6, <1>7 DEF Placed

\* The session in memory and on disk has its type whatever fails, with trimmed
\* prompts too: restore_checkpoint finds a longest overlap, tool results and
\* follow-ups are messages, and the loop counts its iterations.
THEOREM TurnTypes == Spec => []TypeOK
<1>1. Init => TypeOK /\ Placed
  BY InitTypes
<1>2. TypeOK /\ Placed /\ [Next]_vars => TypeOK' /\ Placed'
  BY TypeStep
<1> QED BY <1>1, <1>2, PTL DEF Spec

----------------------------------------------------------------------------
(* What the turn writes keeps the session restorable *)

LEMMA CheckpointThere ==
  ASSUME NEW c \in Checkpoint
  PROVE  c # NoCheckpoint
<1>1. c.assistant \in Message
  BY DEF Checkpoint
<1>2. "kind" \in DOMAIN c.assistant
  BY <1>1 DEF Message
<1>3. NoCheckpoint.assistant = <<>>
  BY DEF NoCheckpoint
<1>4. DOMAIN <<>> = {}
  OBVIOUS
<1> QED BY <1>2, <1>3, <1>4

LEMMA LaterRestorable ==
  ASSUME NEW s, IsSession(s), NEW t \in Nat, NEW t2 \in Nat, t <= t2, NEW k, NEW ex,
         NEW db, NEW db2, db => db2, Restorable(s, t, k, ex, db)
  PROVE  Restorable(s, t2, k, ex, db2)
<1> DEFINE cs == Conversation(s)
<1>1. cs \in Seq(Message)
  BY SessionFields DEF IsSession
<1>2. \A i \in DOMAIN cs : cs[i].turn <= t
  BY DEF Restorable
<1> HIDE DEF cs
<1>3. \A i \in DOMAIN cs : cs[i].turn \in Nat
  BY <1>1, MessageFields
<1>4. \A i \in DOMAIN cs : cs[i].turn <= t2
  BY <1>2, <1>3
<1> QED BY <1>4 DEF Restorable, cs

\* At the prompt the session holds nothing of the turn but its user message.
LEMMA PromptFacts ==
  ASSUME NEW s, IsSession(s), turn \in Nat, AtPrompt(s)
  PROVE  LET ms == s.messages
             cs == Conversation(s)
         IN  /\ s \in Session /\ ms \in Seq(Message) /\ cs \in Seq(Message)
             /\ Len(ms) \in Nat /\ Len(cs) \in Nat /\ ms # <<>> /\ Len(ms) \in DOMAIN ms
             /\ Last(ms) = ms[Len(ms)] /\ ms[Len(ms)].kind = "user" /\ ms[Len(ms)].turn = turn
             /\ Last(ms).kind \notin ToolKinds \cup CallKinds
             /\ OnlyUser(cs, turn) /\ LastUserOf(ms, turn)
<1> DEFINE ms == s.messages
           cs == Conversation(s)
<1>1. /\ s \in Session /\ ms \in Seq(Message) /\ cs \in Seq(Message) /\ ms # <<>>
      /\ Last(ms).kind = "user" /\ Last(ms).turn = turn
      /\ \A i \in DOMAIN cs : i < Len(cs) => cs[i].turn < turn
  BY SessionFields DEF IsSession, AtPrompt
<1>2. Len(cs) \in DOMAIN cs /\ cs[Len(cs)] = Last(ms)
  BY <1>1, LastOfConversation
<1> HIDE DEF ms, cs
<1>3. /\ Len(ms) \in Nat /\ Len(cs) \in Nat /\ Len(ms) \in DOMAIN ms /\ Last(ms) = ms[Len(ms)]
      /\ DOMAIN cs = 1..Len(cs)
  BY <1>1 DEF Last
<1>4. OnlyUser(cs, turn)
  <2> SUFFICES ASSUME NEW i \in DOMAIN cs, cs[i].turn = turn PROVE cs[i].kind = "user"
    BY DEF OnlyUser
  <2>1. ~(i < Len(cs))
    BY <1>1
  <2>2. i = Len(cs)
    BY <1>3, <2>1
  <2> QED BY <1>1, <1>2, <2>2
<1>5. LastUserOf(ms, turn)
  <2>1. Len(ms) + 1..Len(ms) = {}
    BY <1>3
  <2> QED BY <1>1, <1>3, <2>1 DEF LastUserOf
<1>6. Last(ms).kind \notin ToolKinds \cup CallKinds
  BY <1>1 DEF ToolKinds, CallKinds
<1> QED BY <1>1, <1>3, <1>4, <1>5, <1>6 DEF ms, cs

\* persist_user_message_early on a session that RESTORE has closed.
LEMMA UserKeeps ==
  ASSUME NEW s, IsSession(s), turn \in 1..MaxTurns, iter \in 0..MaxIterations,
         NEW k, NEW ex, NEW db, Restorable(s, turn, k, ex, db), s.checkpoint = NoCheckpoint,
         ~s.pendingUserTurn, turn \notin k,
         \A i \in DOMAIN Conversation(s) : Conversation(s)[i].turn < turn
  PROVE  LET u == PersistUserEarly(s)
         IN  /\ Restorable(u, turn, k, ex, db) /\ AtPrompt(u)
             /\ u.checkpoint = NoCheckpoint
             /\ \A e : RememberedIn(Conversation(s), e) => RememberedIn(Conversation(u), e)
<1> DEFINE u == PersistUserEarly(s)
           ms == s.messages
           us == u.messages
           cs == Conversation(s)
           cu == Conversation(u)
           m == Entry("user", 0)
<1>0. /\ ms \in Seq(Message) /\ Len(ms) \in Nat /\ turn \in Nat
      /\ cs \in Seq(Message) /\ Len(cs) \in Nat
  BY SessionFields, Bounds DEF IsSession
<1>1. /\ IsSession(u) /\ m \in Message /\ us = ms \o <<m>> /\ u.msgEnd = Len(ms) + 1
      /\ u.pendingUserTurn = TRUE /\ u.checkpoint = NoCheckpoint /\ cu = cs \o <<m>>
  BY UserTypes
<1>2. m.kind = "user" /\ m.turn = turn
  BY DEF Entry
<1>a. /\ (db \/ OnceIn(s)) /\ CallsAnswered(ms)
      /\ \A i \in DOMAIN cs : cs[i].turn < turn
      /\ MaxTrim = 0 => /\ Closed(ms) /\ UsersAnswered(s) /\ StartsWithUser(ms)
                        /\ WorkIn(s, ex)
  BY DEF Restorable
<1>b. u.messages = us /\ s.messages = ms /\ Conversation(s) = cs /\ Conversation(u) = cu
  OBVIOUS
<1> HIDE DEF u, ms, us, cs, cu, m
<1>3. <<m>> \in Seq(Message) /\ DOMAIN <<m>> = {1} /\ <<m>>[1] = m /\ Len(<<m>>) = 1
  BY <1>1
<1>4. us \in Seq(Message) /\ Len(us) = Len(ms) + 1 /\ us[Len(ms) + 1] = m
      /\ DOMAIN us = 1..(Len(ms) + 1) /\ \A i \in 1..Len(ms) : us[i] = ms[i] /\ i \in DOMAIN ms
  BY <1>0, <1>1
<1>4c. cu \in Seq(Message) /\ Len(cu) = Len(cs) + 1 /\ cu[Len(cs) + 1] = m
      /\ DOMAIN cu = 1..(Len(cs) + 1) /\ \A i \in 1..Len(cs) : cu[i] = cs[i] /\ i \in DOMAIN cs
  BY <1>0, <1>1
<1>5. Last(us) = m /\ us # <<>>
  BY <1>0, <1>4 DEF Last
<1>6. ASSUME NEW i \in DOMAIN cu, i < Len(cu) \/ cu[i].kind # "user"
      PROVE  cu[i].turn < turn
  <2>1. i \in 1..Len(cs)
    <3>1. i # Len(cs) + 1
      BY <1>0, <1>2, <1>4c, <1>6
    <3> QED BY <1>0, <1>4c, <3>1
  <2> QED BY <1>4c, <1>a, <2>1
<1>7. AtPrompt(u)
  BY <1>2, <1>5, <1>6, <1>b DEF AtPrompt
<1>8. CallsAnswered(us) /\ (MaxTrim = 0 => Closed(us))
  <2>1. Closed(<<m>>)
    BY <1>1, <1>2, ClosedOne DEF ToolKinds, CallKinds
  <2> QED BY <1>0, <1>1, <1>3, <1>a, <2>1, ClosedConcat, ClosedAnswered, AnsweredConcat
<1>9. \A i \in DOMAIN cu : cu[i].turn <= turn
  <2> SUFFICES ASSUME NEW i \in DOMAIN cu PROVE cu[i].turn <= turn
    OBVIOUS
  <2>1. CASE i < Len(cu)
    <3>1. cu[i].turn < turn /\ cu[i].turn \in Nat
      BY <1>4c, <1>6, <2>1, MessageFields
    <3> QED BY <1>0, <3>1
  <2>2. CASE ~(i < Len(cu))
    <3>1. i = Len(cs) + 1
      BY <1>0, <1>4c, <2>2
    <3> QED BY <1>0, <1>2, <1>4c, <3>1
  <2> QED BY <2>1, <2>2
<1>10. ASSUME MaxTrim = 0 PROVE UsersAnswered(u) /\ StartsWithUser(us)
  <2>0. StartsWithUser(us)
    <3>1. CASE ms = <<>>
      <4>1. us[1] = m
        BY <1>0, <1>4, <3>1
      <4> QED BY <1>2, <4>1 DEF StartsWithUser, UserKinds
    <3>2. CASE ms # <<>>
      <4>1. us[1] = ms[1]
        BY <1>0, <1>4, <3>2
      <4> QED BY <1>10, <1>a, <3>2, <4>1 DEF StartsWithUser
    <3> QED BY <3>1, <3>2
  <2> SUFFICES ASSUME NEW i \in DOMAIN us, us[i].kind = "user", i # Len(us)
               PROVE  us[i + 1].kind # "user"
    BY <1>1, <1>b, <2>0 DEF UsersAnswered
  <2>1. i \in 1..Len(ms) /\ ms[i].kind = "user" /\ i \in DOMAIN ms
    BY <1>0, <1>4
  <2>2. i # Len(ms) /\ ms[i + 1].kind # "user"
    BY <1>10, <1>a, <1>b, <2>1 DEF UsersAnswered
  <2>3. i + 1 \in 1..Len(ms)
    BY <1>0, <2>1, <2>2
  <2> QED BY <1>4, <2>2, <2>3
<1>11. PendingOpen(u)
  <2>1. ASSUME NEW i \in DOMAIN cu, cu[i].kind = "closed" PROVE cu[i].turn # turn
    <3>1. cu[i].turn < turn /\ cu[i].turn \in Nat
      BY <1>4c, <1>6, <2>1, MessageFields
    <3> QED BY <1>0, <3>1
  <2> QED BY <1>2, <1>5, <1>b, <2>1 DEF PendingOpen
<1>12. MarksOf(u, k)
  <2>1. u.msgEnd + 1..Len(us) = {}
    BY <1>0, <1>1, <1>4
  <2> QED BY <1>1, <1>2, <1>5, <1>b, <2>1 DEF MarksOf
<1>13. \A e : RememberedIn(cs, e) => RememberedIn(cu, e)
  BY <1>0, <1>1, <1>3, RememberedAppend
<1>14. ASSUME MaxTrim = 0 PROVE WorkIn(u, ex)
  BY <1>13, <1>14, <1>a, <1>b DEF WorkIn
<1>15. db \/ OnceIn(u)
  <2> SUFFICES ASSUME ~db PROVE Distinct(cu)
    BY <1>1, <1>b DEF OnceIn
  <2>1. Distinct(cs) /\ Distinct(<<m>>)
    BY <1>3, <1>a, <1>b DEF OnceIn, Distinct
  <2>2. ASSUME NEW i \in DOMAIN cs, NEW j \in DOMAIN <<m>> PROVE cs[i] # <<m>>[j]
    <3>1. cs[i].turn < turn /\ cs[i].turn \in Nat
      BY <1>0, <1>a, MessageFields
    <3> QED BY <1>0, <1>2, <1>3, <3>1
  <2> QED BY <1>0, <1>1, <1>3, <2>1, <2>2, DistinctAppend
<1>16. Restorable(u, turn, k, ex, db)
  BY <1>8, <1>9, <1>10, <1>11, <1>12, <1>14, <1>15, <1>b DEF Restorable
<1> QED BY <1>1, <1>7, <1>13, <1>16, <1>b DEF u

\* A checkpoint of the turn whose user message is the last one.
LEMMA CheckpointKeeps ==
  ASSUME NEW s, IsSession(s), turn \in Nat, NEW k, NEW ex, NEW db,
         Restorable(s, turn, k, ex, db), AtPrompt(s), turn \notin k,
         NEW c \in Checkpoint, CheckpointShape(c), c.assistant.turn = turn,
         MaxTrim = 0 =>
           \A e \in ex : RememberedIn(Conversation(s), e) \/ Remembers(c.assistant, e),
         NEW u, u.messages = s.messages, Conversation(u) = Conversation(s), u.checkpoint = c,
         u.msgEnd = s.msgEnd, u.pendingUserTurn = s.pendingUserTurn
  PROVE  Restorable(u, turn, k, ex, db)
<1>0. c # NoCheckpoint
  BY CheckpointThere
<1>1. /\ s.messages # <<>> /\ Last(s.messages).kind \notin ToolKinds \cup CallKinds
      /\ OnlyUser(Conversation(s), turn) /\ LastUserOf(s.messages, turn)
  BY PromptFacts
<1>4. /\ PendingOpen(u)
      /\ MaxTrim = 0 => UsersAnswered(u) /\ StartsWithUser(u.messages)
  BY DEF Restorable, UsersAnswered, PendingOpen
<1>5. MarksOf(u, k)
  BY <1>1 DEF Restorable, MarksOf
<1>6. MaxTrim = 0 => WorkIn(u, ex)
  BY <1>0 DEF WorkIn
<1>7. db \/ OnceIn(u)
  BY <1>1 DEF Restorable, OnceIn
<1>8. /\ CallsAnswered(u.messages) /\ (MaxTrim = 0 => Closed(u.messages))
      /\ \A i \in DOMAIN Conversation(u) : Conversation(u)[i].turn <= turn
  BY DEF Restorable
<1> QED BY <1>4, <1>5, <1>6, <1>7, <1>8 DEF Restorable

LEMMA ReversedFacts ==
  ASSUME NEW s \in Seq(Message)
  PROVE  /\ Reverse(s) \in Seq(Message) /\ Len(Reverse(s)) = Len(s)
         /\ \A i \in 1..Len(s) : Reverse(s)[i] = s[(Len(s) - i) + 1]
         /\ Len(s) # 0 => Reverse(s)[1] = s[Len(s)]
<1>0. Len(s) \in Nat
  OBVIOUS
<1>1. \A i \in 1..Len(s) : s[(Len(s) - i) + 1] \in Message
  OBVIOUS
<1>2. Reverse(s) = [i \in 1..Len(s) |-> s[(Len(s) - i) + 1]]
  BY DEF Reverse
<1>3. /\ Reverse(s) \in Seq(Message) /\ Len(Reverse(s)) = Len(s)
      /\ \A i \in 1..Len(s) : Reverse(s)[i] = s[(Len(s) - i) + 1]
  BY <1>0, <1>1, <1>2, IsASeq
<1>4. Len(s) # 0 => 1 \in 1..Len(s) /\ (Len(s) - 1) + 1 = Len(s)
  BY <1>0
<1> QED BY <1>3, <1>4

LEMMA SuffixTail ==
  ASSUME NEW r \in Seq(Message), NEW t \in Seq(Message), NEW ms \in Seq(Message), IsSuffix(r, t)
  PROVE  HasTail(ms \o t, r)
<1> DEFINE x == ms \o t
           d == Len(x) - Len(r)
<1>0. /\ Len(r) \in Nat /\ Len(t) \in Nat /\ Len(ms) \in Nat /\ x \in Seq(Message)
      /\ Len(x) = Len(ms) + Len(t)
      /\ \A i \in 1..Len(t) : x[Len(ms) + i] = t[i]
  BY Joined
<1>1. /\ Reverse(r) \in Seq(Message) /\ Len(Reverse(r)) = Len(r)
      /\ \A i \in 1..Len(r) : Reverse(r)[i] = r[(Len(r) - i) + 1]
  BY ReversedFacts
<1>2. /\ Reverse(t) \in Seq(Message) /\ Len(Reverse(t)) = Len(t)
      /\ \A i \in 1..Len(t) : Reverse(t)[i] = t[(Len(t) - i) + 1]
  BY ReversedFacts
<1>3. Len(r) <= Len(t) /\ \A i \in 1..Len(r) : Reverse(r)[i] = Reverse(t)[i]
  BY <1>1, <1>2, PrefixDef DEF IsSuffix
<1> HIDE DEF x
<1>4. ASSUME NEW j \in 1..Len(r) PROVE x[d + j] = r[j]
  <2> DEFINE i == (Len(r) - j) + 1
  <2>1. /\ i \in 1..Len(r) /\ i \in 1..Len(t) /\ (Len(r) - i) + 1 = j
        /\ (Len(t) - i) + 1 \in 1..Len(t) /\ d + j = Len(ms) + ((Len(t) - i) + 1)
    BY <1>0, <1>3
  <2> HIDE DEF i, d
  <2>2. r[j] = Reverse(r)[i] /\ Reverse(t)[i] = t[(Len(t) - i) + 1]
    BY <1>1, <1>2, <2>1
  <2>3. x[d + j] = t[(Len(t) - i) + 1]
    BY <1>0, <2>1
  <2> QED BY <1>3, <2>1, <2>2, <2>3
<1>5. SubSeq(x, d + 1, Len(x)) = r
  <2>0. d \in Nat /\ Len(x) \in Nat /\ Len(x) - (d + 1) + 1 = Len(r)
    BY <1>0, <1>3
  <2>1. /\ d + 1 \in Int /\ Len(x) \in Int
        /\ \A i \in d + 1..Len(x) : x[i] \in Message
    BY <1>0, <2>0
  <2> DEFINE y == SubSeq(x, d + 1, Len(x))
  <2>2. /\ y \in Seq(Message)
        /\ Len(y) = IF d + 1 <= Len(x) THEN Len(x) - (d + 1) + 1 ELSE 0
        /\ \A i \in 1..Len(x) - (d + 1) + 1 : y[i] = x[(d + 1) + i - 1]
    BY <2>1, SubSeqProperties
  <2> HIDE DEF y, d
  <2>3. Len(y) = Len(r)
    BY <1>0, <2>0, <2>2
  <2>4. ASSUME NEW i \in 1..Len(r) PROVE y[i] = r[i]
    <3>1. i \in 1..Len(x) - (d + 1) + 1 /\ (d + 1) + i - 1 = d + i
      BY <1>0, <2>0
    <3> QED BY <1>4, <2>2, <3>1
  <2>5. y = r
    BY <2>2, <2>3, <2>4, SeqEqual
  <2> QED BY <2>5 DEF y
<1>6. SubSeq(r, 1, Len(r)) = r
  BY SubSeqFull
<1>7. Len(r) <= Len(x)
  BY <1>0, <1>3
<1> QED BY <1>5, <1>6, <1>7 DEF HasTail, x

\* SAVE appends r, what the trimmed prompt left of the run; it clears both
\* marks, or it raises before it does.
LEMMA SaveKeeps ==
  ASSUME NEW s, IsSession(s), NEW u, IsSession(u), turn \in Nat, NEW r \in Seq(Message),
         NEW k2, NEW db2, doubtful => db2,
         Restorable(s, turn, kept, execd, doubtful), AtPrompt(s), RunOf(r, turn),
         CallsAnswered(r), r # <<>> => Last(r).kind \notin ToolKinds \cup CallKinds,
         MaxTrim = 0 => /\ r # <<>> /\ Closed(r)
                        /\ \A e \in execd : RememberedIn(Conversation(s), e) \/ RememberedIn(r, e),
         u.messages = s.messages \o r, u.msgEnd = Len(u.messages),
         Conversation(u) = Conversation(s) \o r,
         \/ u.checkpoint = NoCheckpoint /\ ~u.pendingUserTurn
         \/ /\ u.checkpoint = s.checkpoint /\ turn \notin k2
            /\ s.checkpoint # NoCheckpoint =>
                 /\ s.checkpoint.assistant.turn = turn
                 /\ db2 \/ r = <<>> \/ IsSuffix(Restored(s.checkpoint), r)
  PROVE  Restorable(u, turn, k2, execd, db2)
<1> DEFINE ms == s.messages
           us == u.messages
           cs == Conversation(s)
           cu == Conversation(u)
<1>c. /\ s \in Session /\ ms \in Seq(Message) /\ cs \in Seq(Message)
      /\ Len(ms) \in Nat /\ Len(cs) \in Nat /\ ms # <<>>
      /\ Last(ms) = ms[Len(ms)] /\ ms[Len(ms)].kind = "user" /\ ms[Len(ms)].turn = turn
      /\ Last(ms).kind \notin ToolKinds \cup CallKinds
      /\ OnlyUser(cs, turn)
  BY PromptFacts
<1>0. /\ Len(r) \in Nat /\ us = ms \o r /\ cu = cs \o r
      /\ us \in Seq(Message) /\ cu \in Seq(Message) /\ u \in Session
      /\ Len(us) = Len(ms) + Len(r)
  <2>1. us \in Seq(Message) /\ u \in Session
    BY SessionFields DEF IsSession
  <2>2. us = ms \o r /\ cu = cs \o r
    OBVIOUS
  <2> HIDE DEF ms, us, cs, cu
  <2> QED BY <1>c, <2>1, <2>2, Joined
<1>b. u.messages = us /\ s.messages = ms /\ Conversation(s) = cs /\ Conversation(u) = cu
  OBVIOUS
<1>a. /\ MarksOf(s, kept) /\ (doubtful \/ OnceIn(s)) /\ CallsAnswered(ms)
      /\ \A i \in DOMAIN cs : cs[i].turn <= turn
      /\ MaxTrim = 0 => Closed(ms) /\ UsersAnswered(s) /\ StartsWithUser(ms)
  BY DEF Restorable
<1>d. /\ Distinct(r) /\ DOMAIN r = 1..Len(r)
      /\ \A i \in DOMAIN r : r[i].turn = turn /\ r[i].kind \notin {"user", "closed"}
  BY DEF RunOf
<1>e. \A i \in DOMAIN r : r[i].kind # "user" /\ r[i].turn <= turn
  BY <1>d
<1> HIDE DEF ms, us, cs, cu
\* Of this turn the session had its user message only.
<1>1. \A i \in DOMAIN cs : cs[i].turn = turn => cs[i].kind = "user"
  BY <1>c DEF OnlyUser
<1>2. /\ CallsAnswered(us) /\ (MaxTrim = 0 => Closed(us))
      /\ \A i \in DOMAIN cu : cu[i].turn <= turn
  BY <1>0, <1>a, <1>c, <1>e, AnsweredConcat, ClosedConcat, TurnsAppend
<1>3. MaxTrim = 0 => UsersAnswered(u) /\ StartsWithUser(us)
  <2>1. us[1] = ms[1]
    BY <1>0, <1>c, Joined
  <2> QED BY <1>0, <1>a, <1>b, <1>c, <1>e, <2>1, UsersAppend DEF StartsWithUser
<1>4. /\ us # <<>> /\ Last(us).turn = turn
      /\ Last(us).kind \notin ToolKinds \cup CallKinds
  <2>0. us # <<>> /\ Last(us) = us[Len(us)]
    <3>1. Len(ms) # 0
      BY <1>c
    <3> QED BY <1>0, <1>c, <3>1 DEF Last
  <2>1. CASE r = <<>>
    <3>1. us = ms
      BY <1>0, <1>c, <2>1, ConcatEmptySeq
    <3> QED BY <1>c, <2>0, <3>1
  <2>2. CASE r # <<>>
    <3>1. us[Len(ms) + Len(r)] = r[Len(r)] /\ Len(r) \in DOMAIN r /\ Last(r) = r[Len(r)]
      BY <1>0, <1>c, <1>d, <2>2, Joined DEF Last
    <3> QED BY <1>0, <1>d, <2>0, <2>2, <3>1
  <2> QED BY <2>1, <2>2
<1>5. PendingOpen(u)
  <2> SUFFICES ASSUME NEW i \in DOMAIN cu, cu[i].kind = "closed" PROVE cu[i].turn # turn
    BY <1>4, <1>b DEF PendingOpen
  <2>1. CASE i \in 1..Len(cs) /\ cu[i] = cs[i]
    BY <1>c, <1>1, <2>1
  <2>2. CASE i > Len(cs) /\ i - Len(cs) \in 1..Len(r) /\ cu[i] = r[i - Len(cs)]
    BY <1>d, <2>2
  <2> QED BY <1>0, <1>c, <2>1, <2>2, JoinedFrom
<1>6. MarksOf(u, k2)
  <2>1. u.msgEnd + 1..Len(us) = {}
    BY <1>0, <1>b, <1>c
  <2>2. CASE u.checkpoint = NoCheckpoint /\ ~u.pendingUserTurn
    BY <1>b, <2>1, <2>2 DEF MarksOf
  <2>3. CASE /\ u.checkpoint = s.checkpoint /\ turn \notin k2
             /\ s.checkpoint # NoCheckpoint => s.checkpoint.assistant.turn = turn
    <3>1. ASSUME s.checkpoint # NoCheckpoint
          PROVE  CheckpointShape(s.checkpoint) /\ LastUserOf(us, turn)
      <4>1. CheckpointShape(s.checkpoint) /\ LastUserOf(ms, turn)
        BY <1>a, <1>b, <2>3, <3>1 DEF MarksOf
      <4> QED BY <1>0, <1>c, <1>e, <4>1, LastUserAppend
    <3> QED BY <1>4, <1>b, <2>1, <2>3, <3>1 DEF MarksOf
  <2> QED BY <2>2, <2>3
<1>7. ASSUME MaxTrim = 0 PROVE WorkIn(u, execd)
  <2>1. \A e \in execd : RememberedIn(cu, e)
    BY <1>0, <1>7, <1>b, <1>c, RememberedAppend
  <2> QED BY <1>b, <2>1 DEF WorkIn
<1>8. db2 \/ OnceIn(u)
  <2> SUFFICES ASSUME ~db2 PROVE OnceIn(u)
    OBVIOUS
  <2>1. Distinct(cu)
    <3>1. Distinct(cs)
      BY <1>a, <1>b DEF OnceIn
    <3>2. ASSUME NEW i \in DOMAIN cs, NEW j \in DOMAIN r PROVE cs[i] # r[j]
      BY <1>1, <1>d
    <3> QED BY <1>0, <1>c, <1>d, <3>1, <3>2, DistinctAppend
  <2>2. ASSUME u.checkpoint # NoCheckpoint, r # <<>>
        PROVE  HasTail(us, Restored(u.checkpoint))
    <3>1. u.checkpoint = s.checkpoint /\ IsSuffix(Restored(s.checkpoint), r)
      BY <2>2
    <3>2. CheckpointShape(s.checkpoint) /\ s.checkpoint \in Checkpoint
      BY <1>a, <1>c, <2>2, <3>1, SessionFields DEF MarksOf
    <3>3. Restored(s.checkpoint) \in Seq(Message)
      BY <3>2, RestoredFacts
    <3> QED BY <1>0, <1>c, <3>1, <3>3, SuffixTail
  <2>3. ASSUME u.checkpoint # NoCheckpoint, r = <<>>
        PROVE  OnlyUser(cu, u.checkpoint.assistant.turn)
    <3>1. cu = cs /\ u.checkpoint.assistant.turn = turn
      BY <1>0, <1>c, <2>3, ConcatEmptySeq
    <3> QED BY <1>1, <3>1 DEF OnlyUser
  <2> QED BY <1>b, <2>1, <2>2, <2>3 DEF OnceIn
<1> QED BY <1>2, <1>3, <1>5, <1>6, <1>7, <1>8, <1>b DEF Restorable

----------------------------------------------------------------------------
(* What the runner adds in one iteration *)

Block(n, K) ==
    /\ n \in Seq(Message) /\ Closed(n) /\ Distinct(n)
    /\ \A i \in DOMAIN n : n[i].turn = turn /\ n[i].iter = iter /\ n[i].kind \in K

LEMMA BlockOne ==
  ASSUME TypeOK, Placed, pc # "idle", NEW kind \in Kinds \ (ToolKinds \cup CallKinds)
  PROVE  Block(<<Entry(kind, 0)>>, {kind})
<1> DEFINE m == Entry(kind, 0)
<1>1. m \in Message /\ m.kind = kind /\ m.turn = turn /\ m.iter = iter
  <2>1. turn \in 1..MaxTurns /\ iter \in 0..MaxIterations /\ 0 \in 0..MaxCalls
    BY EntryTypes, Bounds
  <2> QED BY <2>1, EntryType
<1> HIDE DEF m
<1>2. Closed(<<m>>)
  BY <1>1, ClosedOne
<1>3. <<m>> \in Seq(Message) /\ DOMAIN <<m>> = {1} /\ <<m>>[1] = m
  BY <1>1
<1>4. Distinct(<<m>>)
  BY <1>3 DEF Distinct
<1>5. Block(<<m>>, {kind})
  BY <1>1, <1>2, <1>3, <1>4 DEF Block
<1> QED BY <1>5 DEF m

LEMMA BlockFollow ==
  ASSUME TypeOK, Placed, pc # "idle", NEW f \in FollowUps
  PROVE  Block(f, {"followup"})
<1>1. Block(<<Entry("followup", 0)>>, {"followup"})
  BY BlockOne DEF Kinds, ToolKinds, CallKinds
<1>2. Block(<<>>, {"followup"})
  BY ClosedEmpty DEF Block, Distinct
<1>3. f = <<>> \/ f = <<Entry("followup", 0)>>
  BY DEF FollowUps
<1> QED BY <1>1, <1>2, <1>3

LEMMA BlockJoin ==
  ASSUME NEW n, NEW m, NEW K, NEW L, Block(n, K), Block(m, L), K \cap L = {}
  PROVE  Block(n \o m, K \cup L)
<1>0. n \in Seq(Message) /\ m \in Seq(Message) /\ n \o m \in Seq(Message)
  BY Joined DEF Block
<1>1. Closed(n \o m)
  BY <1>0, ClosedConcat DEF Block
<1>2. ASSUME NEW i \in DOMAIN n, NEW j \in DOMAIN m PROVE n[i] # m[j]
  BY DEF Block
<1>3. Distinct(n \o m)
  BY <1>0, <1>2, DistinctAppend DEF Block
<1>4. ASSUME NEW i \in DOMAIN (n \o m)
      PROVE  LET x == (n \o m)[i] IN x.turn = turn /\ x.iter = iter /\ x.kind \in K \cup L
  <2>0. DOMAIN n = 1..Len(n) /\ DOMAIN m = 1..Len(m)
    BY <1>0
  <2>1. CASE i \in 1..Len(n) /\ (n \o m)[i] = n[i]
    BY <2>0, <2>1 DEF Block
  <2>2. CASE i > Len(n) /\ i - Len(n) \in 1..Len(m) /\ (n \o m)[i] = m[i - Len(n)]
    BY <2>0, <2>2 DEF Block
  <2> QED BY <1>0, <2>1, <2>2, JoinedFrom
<1> QED BY <1>0, <1>1, <1>3, <1>4 DEF Block

LEMMA MessageEqual ==
  ASSUME NEW m \in Message, NEW n \in Message, m.kind = n.kind, m.turn = n.turn,
         m.iter = n.iter, m.call = n.call
  PROVE  m = n
BY DEF Message

\* The calls of a reply and the results they got.
LEMMA ToolBlock ==
  ASSUME TypeOK, Placed, pc = "tools", Last(run) = Entry(Last(run).kind, Last(run).call),
         Last(run).kind \in CallKinds, Last(run).call # 0, NEW k \in ResultCounts
  PROVE  LET n == <<Last(run)>> \o Results(k)
             c == [assistant |-> Last(run), completed |-> Results(k), pending |-> FALSE]
         IN  /\ Block(n, ToolKinds \cup CallKinds)
             /\ Front(run) \in Seq(Message) /\ run \o Results(k) = Front(run) \o n
             /\ \A e : /\ e[1] = turn /\ e[2] = iter /\ e[3] <= Last(run).call
                       => RememberedIn(n, e)
             /\ c \in Checkpoint /\ CheckpointShape(c)
<1> DEFINE a == Last(run)
           R == Results(k)
           c == [assistant |-> a, completed |-> R, pending |-> FALSE]
           n == <<a>> \o R
<1>0. /\ run \in Seq(Message) /\ run # <<>> /\ a \in Message /\ a.call \in Nat
      /\ a.call \in 0..MaxCalls /\ R \in Seq(Message) /\ k \in 0..a.call
  BY ToolTypes
<1>k. a.kind = "calls" => k = a.call
  BY DEF ResultCounts
<1>1. a.kind \in CallKinds /\ a.turn = turn /\ a.iter = iter
  BY DEF Entry
<1>2. R = ToolMessages(a, k, "result")
  <2>1. ASSUME NEW i \in 1..k
        PROVE  Entry("result", i) = [a EXCEPT !.kind = "result", !.call = i]
    <3> DEFINE m == [a EXCEPT !.kind = "result", !.call = i]
    <3>0. i \in 0..MaxCalls /\ "result" \in Kinds
      BY <1>0, Bounds DEF Kinds
    <3>1. /\ m \in Message /\ m.kind = "result" /\ m.turn = a.turn /\ m.iter = a.iter /\ m.call = i
      <4> HIDE DEF a
      <4> QED BY <1>0, <3>0 DEF Message
    <3>2. /\ Entry("result", i) \in Message /\ Entry("result", i).kind = "result"
          /\ Entry("result", i).turn = turn /\ Entry("result", i).iter = iter
          /\ Entry("result", i).call = i
      BY <3>0, EntryTypes, EntryType
    <3> HIDE DEF m
    <3>3. Entry("result", i) = m
      BY <1>1, <3>1, <3>2, MessageEqual
    <3> QED BY <3>3 DEF m
  <2> QED BY <2>1 DEF Results, ToolMessages
<1>3. c \in Checkpoint /\ c.assistant = a /\ c.completed = R /\ c.pending = FALSE
  BY <1>0 DEF Checkpoint
<1>4. CheckpointShape(c)
  <2>1. a.call # 0
    OBVIOUS
  <2> HIDE DEF a, c, R
  <2> QED BY <1>0, <1>k, <1>1, <1>2, <1>3, <2>1 DEF CheckpointShape
<1>5. Restored(c) = n
  BY DEF Restored
<1> HIDE DEF a, c, n, R
<1>6. /\ n \in Seq(Message) /\ Closed(n) /\ Len(n) \in Nat /\ Len(n) # 0 /\ n[1] = a
      /\ \A i \in DOMAIN n : i # 1 => ResultOf(n[i], a, i - 1)
  BY <1>3, <1>4, <1>5, RestoredFacts
<1>7. Distinct(n)
  BY <1>3, <1>4, <1>5, RestoredKinds
<1>8. ASSUME NEW i \in DOMAIN n
      PROVE  n[i].turn = turn /\ n[i].iter = iter /\ n[i].kind \in ToolKinds \cup CallKinds
  <2>1. CASE i = 1
    BY <1>1, <1>6, <2>1
  <2>2. CASE i # 1
    BY <1>1, <1>6, <2>2 DEF ResultOf
  <2> QED BY <2>1, <2>2
<1>9. Block(n, ToolKinds \cup CallKinds)
  BY <1>6, <1>7, <1>8 DEF Block
<1>10. Front(run) \in Seq(Message) /\ run = Front(run) \o <<a>>
  BY <1>0, FrontFacts DEF a
<1>11. run \o R = Front(run) \o n
  <2>1. <<a>> \in Seq(Message)
    BY <1>0
  <2>2. (Front(run) \o <<a>>) \o R = Front(run) \o (<<a>> \o R)
    BY <1>0, <1>10, <2>1, Associative
  <2> QED BY <1>10, <2>2 DEF n
<1>12. ASSUME NEW e, e[1] = turn, e[2] = iter, e[3] <= a.call PROVE RememberedIn(n, e)
  <2>1. 1 \in DOMAIN n
    BY <1>6
  <2>2. Remembers(a, e)
    BY <1>1, <1>12 DEF Remembers
  <2> QED BY <1>6, <2>1, <2>2 DEF RememberedIn
<1> QED BY <1>3, <1>4, <1>9, <1>10, <1>11, <1>12 DEF a, c, n, R

LEMMA RunGrows ==
  ASSUME NEW r \in Seq(Message), RunOf(r, turn), Closed(r), Before(r, iter), iter \in Nat,
         NEW n, NEW K, Block(n, K), K \cap {"user", "closed"} = {}
  PROVE  /\ r \o n \in Seq(Message) /\ RunOf(r \o n, turn) /\ Closed(r \o n)
         /\ Before(r \o n, iter + 1)
         /\ \A e : RememberedIn(r, e) \/ RememberedIn(n, e) => RememberedIn(r \o n, e)
         /\ \A i \in DOMAIN n : \E j \in DOMAIN (r \o n) : (r \o n)[j] = n[i]
         /\ n # <<>> => Last(r \o n) = Last(n)
<1>0. /\ n \in Seq(Message) /\ r \o n \in Seq(Message) /\ Len(r) \in Nat /\ Len(n) \in Nat
      /\ DOMAIN r = 1..Len(r) /\ DOMAIN n = 1..Len(n) /\ DOMAIN (r \o n) = 1..(Len(r) + Len(n))
      /\ \A i \in 1..Len(n) : (r \o n)[Len(r) + i] = n[i]
  BY Joined DEF Block
<1>1. Closed(r \o n)
  BY <1>0, ClosedConcat DEF Block
<1>2. ASSUME NEW i \in DOMAIN r, NEW j \in DOMAIN n PROVE r[i] # n[j]
  <2>1. r[i].iter < iter /\ n[j].iter = iter /\ r[i].iter \in Nat
    BY <1>0, MessageFields DEF Before, Block
  <2> QED BY <2>1
<1>3. Distinct(r \o n)
  BY <1>0, <1>2, DistinctAppend DEF Block, RunOf
<1>4. ASSUME NEW i \in DOMAIN (r \o n)
      PROVE  LET x == (r \o n)[i]
             IN  x.turn = turn /\ x.kind \notin {"user", "closed"} /\ x.iter < iter + 1
  <2>1. CASE i \in 1..Len(r) /\ (r \o n)[i] = r[i]
    <3>1. r[i].iter < iter /\ r[i].iter \in Nat
      BY <1>0, <2>1, MessageFields DEF Before
    <3>2. r[i].iter < iter + 1
      BY <3>1
    <3> QED BY <1>0, <2>1, <3>2 DEF RunOf
  <2>2. CASE i > Len(r) /\ i - Len(r) \in 1..Len(n) /\ (r \o n)[i] = n[i - Len(r)]
    <3>1. /\ n[i - Len(r)].iter = iter /\ n[i - Len(r)].turn = turn
          /\ n[i - Len(r)].kind \in K
      BY <1>0, <2>2 DEF Block
    <3>2. iter < iter + 1
      OBVIOUS
    <3> QED BY <2>2, <3>1, <3>2
  <2> QED BY <1>0, <2>1, <2>2, JoinedFrom
<1>5. \A e : RememberedIn(r, e) \/ RememberedIn(n, e) => RememberedIn(r \o n, e)
  BY <1>0, RememberedAppend
<1>6. ASSUME NEW i \in DOMAIN n PROVE \E j \in DOMAIN (r \o n) : (r \o n)[j] = n[i]
  <2>1. Len(r) + i \in DOMAIN (r \o n) /\ (r \o n)[Len(r) + i] = n[i]
    BY <1>0
  <2> QED BY <2>1
<1>7. ASSUME n # <<>> PROVE Last(r \o n) = Last(n)
  <2>1. Len(n) \in 1..Len(n) /\ Len(r \o n) = Len(r) + Len(n) /\ r \o n # <<>>
    BY <1>0, <1>7, Joined
  <2> QED BY <1>0, <2>1 DEF Last
<1> QED BY <1>0, <1>1, <1>3, <1>4, <1>5, <1>6, <1>7 DEF RunOf, Before

----------------------------------------------------------------------------
(* The steps *)

LEMMA ExecTypes ==
  ASSUME TypeOK
  PROVE  \A e \in execd : e[1] \in Nat /\ e[2] \in Nat /\ e[3] \in Nat /\ e[3] # 0
<1>1. ASSUME NEW e \in execd
      PROVE  e[1] \in Nat /\ e[2] \in Nat /\ e[3] \in Nat /\ e[3] # 0
  <2>1. e \in (1..MaxTurns) \X (0..MaxIterations) \X (1..MaxCalls)
    BY DEF TypeOK
  <2>2. e[1] \in 1..MaxTurns /\ e[2] \in 0..MaxIterations /\ e[3] \in 1..MaxCalls
    BY <2>1
  <2> QED BY <2>2, Bounds
<1> QED BY <1>1

LEMMA GoesIdle ==
  ASSUME TurnInv, pc' = "idle", UNCHANGED <<turn, kept, execd>>
  PROVE  TurnInv' /\ RunInv'
BY DEF TurnInv, RunInv, Started

LEMMA Writes ==
  ASSUME SessionInv, NEW s, Restorable(s, turn, kept, execd, doubtful), NEW ok \in BOOLEAN,
         Save(s, ok), UNCHANGED <<turn, kept, execd, doubtful>>
  PROVE  SessionInv'
BY DEF SessionInv, Save

LEMMA Leaves ==
  ASSUME SessionInv, UNCHANGED <<mem, disk, turn, kept, execd, doubtful>>
  PROVE  SessionInv'
BY DEF SessionInv

\* A turn that goes on.
LEMMA Running ==
  ASSUME TurnInv, pc \in {"model", "tools"}, pc' \in {"model", "tools", "ran"},
         UNCHANGED <<turn, kept>>, mem'.messages = mem.messages,
         Conversation(mem') = Conversation(mem),
         \/ mem'.checkpoint = mem.checkpoint
         \/ mem'.checkpoint.assistant.turn = turn,
         RunOf(run', turn), turn \in Nat,
         \A e \in execd' : e \in execd \/ e[1] = turn
  PROVE  TurnInv'
<1>1. /\ AtPrompt(mem) /\ turn \notin kept
      /\ mem.checkpoint # NoCheckpoint => mem.checkpoint.assistant.turn = turn
      /\ \A e \in execd : e[1] <= turn
      /\ MaxTrim = 0 => \A e \in execd : e[1] < turn => RememberedIn(Conversation(mem), e)
      /\ \A t \in kept : t <= turn
  BY DEF TurnInv, Started
<1>0. Conversation(mem)' = Conversation(mem) /\ mem.messages' = mem.messages
  BY DEF Conversation
<1>2. AtPrompt(mem)'
  BY <1>0, <1>1 DEF AtPrompt
<1>3. /\ \A e \in execd' : e[1] <= turn
      /\ MaxTrim = 0 => \A e \in execd' : e[1] < turn => RememberedIn(Conversation(mem)', e)
  BY <1>0, <1>1
<1>4. mem'.checkpoint # NoCheckpoint => mem'.checkpoint.assistant.turn = turn
  BY <1>1
<1>5. pc' # "restored" /\ pc' # "idle"
  OBVIOUS
<1> QED BY <1>1, <1>2, <1>3, <1>4, <1>5 DEF TurnInv, Started

\* The answer or the placeholder that ends a run, and a follow-up.
LEMMA EndBlock ==
  ASSUME TypeOK, Placed, pc # "idle", NEW kind \in {"answer", "placeholder"}, NEW f \in FollowUps
  PROVE  LET n == <<Entry(kind, 0)>> \o f
         IN  /\ Block(n, {kind, "followup"}) /\ 1 \in DOMAIN n /\ n[1].kind = kind
             /\ n # <<>> /\ Last(n).kind \notin ToolKinds \cup CallKinds
<1> DEFINE p == <<Entry(kind, 0)>>
<1>1. Block(p, {kind})
  BY BlockOne DEF Kinds, ToolKinds, CallKinds
<1>2. Block(f, {"followup"})
  BY BlockFollow
<1>3. Block(p \o f, {kind} \cup {"followup"})
  <2> HIDE DEF p
  <2> QED BY <1>1, <1>2, BlockJoin
<1>4. {kind} \cup {"followup"} = {kind, "followup"}
  OBVIOUS
<1>5. Len(p) = 1 /\ p[1].kind = kind
  BY DEF Entry
<1> HIDE DEF p
<1>6. 1 \in DOMAIN (p \o f) /\ (p \o f)[1] = p[1]
  <2>1. p \in Seq(Message) /\ f \in Seq(Message)
    BY <1>1, <1>2 DEF Block
  <2>2. /\ DOMAIN (p \o f) = 1..(Len(p) + Len(f)) /\ Len(f) \in Nat
        /\ \A i \in 1..Len(p) : (p \o f)[i] = p[i]
    BY <2>1, Joined
  <2> QED BY <1>5, <2>2
<1>7. Block(p \o f, {kind, "followup"})
  BY <1>3, <1>4
<1>8. p \o f # <<>> /\ Last(p \o f).kind \in {kind, "followup"}
  <2> DEFINE n == p \o f
  <2>1. n \in Seq(Message) /\ 1 \in DOMAIN n /\ \A i \in DOMAIN n : n[i].kind \in {kind, "followup"}
    BY <1>6, <1>7 DEF Block
  <2> HIDE DEF n
  <2>2. n # <<>> /\ Len(n) \in DOMAIN n
    BY <2>1
  <2>3. Last(n) = n[Len(n)]
    BY DEF Last
  <2>4. n # <<>> /\ Last(n).kind \in {kind, "followup"}
    BY <2>1, <2>2, <2>3
  <2> QED BY <2>4 DEF n
<1>9. Last(p \o f).kind \notin ToolKinds \cup CallKinds
  BY <1>8 DEF ToolKinds, CallKinds
<1> QED BY <1>5, <1>6, <1>7, <1>8, <1>9 DEF p

\* What the run is after an iteration that added n.
Grown(n) ==
    /\ run' \in Seq(Message) /\ RunOf(run', turn) /\ Closed(run') /\ Before(run', iter + 1)
    /\ \A e \in execd : e[1] = turn => e[2] < iter + 1 /\ RememberedIn(run', e)
    /\ \A i \in DOMAIN n : \E j \in DOMAIN run' : run'[j] = n[i]
    /\ n # <<>> => Last(run') = Last(n)

LEMMA ModelGrows ==
  ASSUME TypeOK, Placed, TurnInv, RunInv, pc = "model", NEW n, NEW K, Block(n, K),
         K \cap {"user", "closed"} = {}, run' = run \o n
  PROVE  Grown(n)
<1>1. run \in Seq(Message) /\ iter \in Nat /\ RunOf(run, turn) /\ Closed(run) /\ Before(run, iter)
  BY EntryTypes DEF TypeOK, TurnInv, Started, RunInv
<1>2. ASSUME NEW e \in execd, e[1] = turn PROVE e[2] < iter + 1 /\ RememberedIn(run, e)
  <2>1. e[2] < iter /\ RememberedIn(run, e) /\ e[2] \in Nat
    BY <1>2, ExecTypes DEF RunInv
  <2> QED BY <1>1, <2>1
<1>3. /\ run \o n \in Seq(Message) /\ RunOf(run \o n, turn) /\ Closed(run \o n)
      /\ Before(run \o n, iter + 1)
      /\ \A e : RememberedIn(run, e) \/ RememberedIn(n, e) => RememberedIn(run \o n, e)
      /\ \A i \in DOMAIN n : \E j \in DOMAIN (run \o n) : (run \o n)[j] = n[i]
      /\ n # <<>> => Last(run \o n) = Last(n)
  BY <1>1, RunGrows
<1> QED BY <1>2, <1>3 DEF Grown

LEMMA ToolsGrow ==
  ASSUME TypeOK, Placed, TurnInv, RunInv, pc = "tools", NEW n, NEW K, Block(n, K),
         K \cap (ToolKinds \cup CallKinds \cup {"user", "closed"}) = {},
         NEW k \in ResultCounts, run' = (run \o Results(k)) \o n
  PROVE  Grown(n)
<1> DEFINE a == Last(run)
           r == Front(run)
           b == <<a>> \o Results(k)
           x == b \o n
           L == (ToolKinds \cup CallKinds) \cup K
<1>1. /\ run \in Seq(Message) /\ run # <<>> /\ iter \in Nat /\ RunOf(run, turn)
      /\ a = Entry(a.kind, a.call) /\ a.kind \in CallKinds /\ a.call # 0
      /\ Closed(r) /\ Before(r, iter) /\ a.call \in Nat
  BY EntryTypes, ToolTypes DEF TypeOK, Placed, TurnInv, Started, RunInv
<1>2. /\ Block(b, ToolKinds \cup CallKinds) /\ r \in Seq(Message)
      /\ run \o Results(k) = r \o b
      /\ \A e : e[1] = turn /\ e[2] = iter /\ e[3] <= a.call => RememberedIn(b, e)
  BY <1>1, ToolBlock
<1>3. RunOf(r, turn)
  <2>1. /\ Len(r) = Len(run) - 1 /\ Len(run) \in Nat /\ \A i \in 1..Len(run) - 1 : r[i] = run[i]
    BY <1>1, FrontFacts
  <2> HIDE DEF r
  <2>2. \A i \in DOMAIN r : i \in DOMAIN run /\ r[i] = run[i]
    <3>1. DOMAIN r = 1..Len(r) /\ DOMAIN run = 1..Len(run)
      BY <1>1, <1>2
    <3>2. DOMAIN r = 1..Len(run) - 1 /\ 1..Len(run) - 1 \subseteq DOMAIN run
      BY <2>1, <3>1
    <3> QED BY <2>1, <3>2
  <2> QED BY <1>1, <2>2 DEF RunOf, Distinct
<1> HIDE DEF a, r, b
<1>4. Block(x, L)
  <2>1. (ToolKinds \cup CallKinds) \cap K = {}
    OBVIOUS
  <2> QED BY <1>2, <2>1, BlockJoin
<1>5. n \in Seq(Message) /\ b \in Seq(Message) /\ run' = r \o x
  <2>1. n \in Seq(Message) /\ b \in Seq(Message)
    BY <1>2 DEF Block
  <2>2. (r \o b) \o n = r \o (b \o n)
    BY <1>2, <2>1, Associative
  <2> QED BY <1>2, <2>1, <2>2
<1>6. L \cap {"user", "closed"} = {}
  BY DEF ToolKinds, CallKinds
<1> HIDE DEF L
<1>7. /\ r \o x \in Seq(Message) /\ RunOf(r \o x, turn) /\ Closed(r \o x)
      /\ Before(r \o x, iter + 1)
      /\ \A e : RememberedIn(r, e) \/ RememberedIn(x, e) => RememberedIn(r \o x, e)
      /\ \A i \in DOMAIN x : \E j \in DOMAIN (r \o x) : (r \o x)[j] = x[i]
      /\ x # <<>> => Last(r \o x) = Last(x)
  <2> HIDE DEF x
  <2> QED BY <1>1, <1>2, <1>3, <1>4, <1>6, RunGrows
<1>8. ASSUME NEW e \in execd, e[1] = turn PROVE e[2] < iter + 1 /\ RememberedIn(r \o x, e)
  <2>0. e[2] \in Nat /\ e[3] \in Nat /\ e[3] # 0
    BY ExecTypes
  <2>1. (e[2] < iter /\ RememberedIn(r, e)) \/ (e[2] = iter /\ e[3] <= a.call)
    BY <1>8 DEF RunInv, a, r
  <2>2. CASE e[2] < iter /\ RememberedIn(r, e)
    BY <1>1, <1>7, <2>0, <2>2
  <2>3. CASE e[2] = iter /\ e[3] <= a.call
    <3>2. RememberedIn(b, e)
      BY <1>2, <1>8, <2>3
    <3>3. RememberedIn(x, e)
      BY <1>5, <3>2, RememberedAppend
    <3> QED BY <1>1, <1>7, <2>3, <3>3
  <2> QED BY <2>1, <2>2, <2>3
<1>9. ASSUME NEW i \in DOMAIN n PROVE \E j \in DOMAIN (r \o x) : (r \o x)[j] = n[i]
  <2>1. Len(b) + i \in DOMAIN x /\ x[Len(b) + i] = n[i]
    <3>1. /\ DOMAIN x = 1..(Len(b) + Len(n)) /\ Len(b) \in Nat /\ Len(n) \in Nat
          /\ DOMAIN n = 1..Len(n) /\ \A j \in 1..Len(n) : x[Len(b) + j] = n[j]
      BY <1>5, Joined
    <3> HIDE DEF x
    <3> QED BY <3>1
  <2> HIDE DEF x
  <2> QED BY <1>7, <2>1
<1>10. ASSUME n # <<>> PROVE Last(r \o x) = Last(n)
  <2>1. /\ Len(x) = Len(b) + Len(n) /\ Len(b) \in Nat /\ Len(n) \in Nat /\ x \in Seq(Message)
        /\ \A j \in 1..Len(n) : x[Len(b) + j] = n[j]
    BY <1>5, Joined
  <2> HIDE DEF x
  <2>2. Len(n) \in 1..Len(n)
    BY <1>5, <1>10
  <2>3. x # <<>> /\ x[Len(x)] = n[Len(n)]
    BY <2>1, <2>2
  <2>4. Last(x) = Last(n)
    BY <2>3 DEF Last
  <2> QED BY <1>7, <2>3, <2>4
<1> QED BY <1>5, <1>7, <1>8, <1>9, <1>10 DEF Grown

\* The runner goes on, or it returns with an answer or a placeholder.
LEMMA GoesOn ==
  ASSUME TypeOK, Placed, TurnInv, pc \in {"model", "tools"}, NEW n, Grown(n),
         UNCHANGED <<turn, kept, execd>>, mem'.messages = mem.messages,
         Conversation(mem') = Conversation(mem),
         \/ mem'.checkpoint = mem.checkpoint
         \/ mem'.checkpoint.assistant.turn = turn,
         \/ pc' = "model" /\ iter' = iter + 1
         \/ /\ pc' = "ran" /\ \E i \in DOMAIN n : n[i].kind \in {"answer", "placeholder"}
            /\ n # <<>> /\ Last(n).kind \notin ToolKinds \cup CallKinds
  PROVE  TurnInv' /\ RunInv'
<1>1. turn \in Nat
  BY EntryTypes
<1>2. TurnInv'
  BY <1>1, Running DEF Grown
<1>3. CASE pc' = "model" /\ iter' = iter + 1
  BY <1>2, <1>3 DEF Grown, RunInv
<1>4. CASE /\ pc' = "ran" /\ \E i \in DOMAIN n : n[i].kind \in {"answer", "placeholder"}
           /\ n # <<>> /\ Last(n).kind \notin ToolKinds \cup CallKinds
  BY <1>2, <1>4 DEF Grown, RunInv
<1> QED BY <1>2, <1>3, <1>4

LEMMA RestoreStep ==
  ASSUME TypeOK, SessionInv, TurnInv, StateRestore
  PROVE  SessionInv' /\ TurnInv' /\ RunInv'
<1> DEFINE r == RestoreCheckpoint(mem)
           s == RestorePendingUserTurn(r)
           t == turn + 1
<1>0. /\ IsSession(mem) /\ IsSession(disk) /\ turn \in Nat /\ t \in Nat /\ turn <= t
      /\ turn' = t /\ iter' = 0 /\ run' = <<>>
      /\ UNCHANGED <<execd, kept, doubtful>>
      /\ Restorable(mem, turn, kept, execd, doubtful) /\ Restorable(disk, turn, kept, execd, doubtful)
  BY Bounds, ExecTypes DEF TypeOK, SessionInv, StateRestore
<1>1. \/ s = mem /\ pc' = "restored" /\ UNCHANGED <<mem, disk>>
      \/ \E ok \in BOOLEAN : Save(s, ok) /\ pc' = IF ok THEN "restored" ELSE "idle"
  BY DEF StateRestore
<1>2. IsSession(r) /\ Restorable(r, turn, kept, execd, doubtful) /\ r.checkpoint = NoCheckpoint
  BY <1>0, RestoreKeeps
<1> HIDE DEF r
<1>3. /\ IsSession(s) /\ Restorable(s, turn, kept, execd, doubtful)
      /\ s.checkpoint = NoCheckpoint /\ ~s.pendingUserTurn
  BY <1>0, <1>2, PendingKeeps
<1> HIDE DEF s
<1>4. Restorable(s, t, kept, execd, doubtful) /\ Restorable(disk, t, kept, execd, doubtful)
  <2> HIDE DEF t
  <2> QED BY <1>0, <1>3, LaterRestorable
<1>5. mem' = s /\ disk' \in {disk, s} /\ pc' \in {"restored", "idle"}
  BY <1>1 DEF Save
<1>6. SessionInv'
  BY <1>0, <1>4, <1>5 DEF SessionInv
<1>7. /\ \A e \in execd : e[1] < t
      /\ MaxTrim = 0 => \A e \in execd : RememberedIn(Conversation(s), e)
      /\ \A k \in kept : k < t /\ k <= t
      /\ \A i \in DOMAIN Conversation(s) : Conversation(s)[i].turn < t
  <2>1. ASSUME NEW e \in execd PROVE e[1] < t /\ e[1] <= t
    <3>1. e[1] <= turn /\ e[1] \in Nat
      BY ExecTypes DEF TurnInv
    <3> QED BY <1>0, <3>1
  <2>2. ASSUME NEW k \in kept PROVE k < t /\ k <= t
    <3>1. k <= turn /\ k \in Nat
      BY Bounds DEF TurnInv, TypeOK
    <3> QED BY <1>0, <3>1
  <2>3. ASSUME NEW i \in DOMAIN Conversation(s) PROVE Conversation(s)[i].turn < t
    <3>1. Conversation(s)[i].turn <= turn /\ Conversation(s)[i].turn \in Nat
      <4>1. Conversation(s) \in Seq(Message)
        BY <1>3, SessionFields DEF IsSession
      <4>2. Conversation(s)[i] \in Message
        BY <4>1
      <4> QED BY <1>3, <4>2, MessageFields DEF Restorable
    <3> QED BY <1>0, <3>1
  <2>4. MaxTrim = 0 => \A e \in execd : RememberedIn(Conversation(s), e)
    BY <1>3 DEF Restorable, WorkIn
  <2> HIDE DEF t
  <2> QED BY <2>1, <2>2, <2>3, <2>4
<1>8. t \notin kept /\ \A e \in execd : e[1] <= t
  <2>1. \A e \in execd : e[1] < t /\ e[1] \in Nat
    BY <1>7, ExecTypes
  <2> HIDE DEF t
  <2> QED BY <1>0, <1>7, <2>1
<1> HIDE DEF t
<1>s. mem' = s /\ Conversation(mem)' = Conversation(s)
  BY <1>5 DEF Conversation
<1>9. TurnInv'
  BY <1>0, <1>3, <1>5, <1>7, <1>8, <1>s DEF TurnInv, Started
<1>10. RunInv'
  BY <1>5 DEF RunInv
<1> QED BY <1>6, <1>9, <1>10

LEMMA BuildStep ==
  ASSUME TypeOK, Placed, SessionInv, TurnInv, StateBuild
  PROVE  SessionInv' /\ TurnInv' /\ RunInv'
<1> DEFINE u == PersistUserEarly(mem)
<1>0. /\ pc = "restored" /\ UNCHANGED <<turn, iter, run, execd, kept, doubtful>>
      /\ IsSession(mem) /\ Restorable(mem, turn, kept, execd, doubtful)
  BY DEF StateBuild, TypeOK, SessionInv
<1>1. /\ mem.checkpoint = NoCheckpoint /\ ~mem.pendingUserTurn
      /\ \A i \in DOMAIN Conversation(mem) : Conversation(mem)[i].turn < turn
      /\ run = <<>> /\ turn \notin kept
      /\ \A e \in execd : e[1] < turn
      /\ MaxTrim = 0 => \A e \in execd : RememberedIn(Conversation(mem), e)
      /\ \A k \in kept : k <= turn
      /\ \A e \in execd : e[1] <= turn
  BY <1>0 DEF TurnInv
<1>2. turn \in 1..MaxTurns /\ iter \in 0..MaxIterations /\ turn \in Nat
  BY <1>0, EntryTypes
<1>3. /\ Restorable(u, turn, kept, execd, doubtful) /\ AtPrompt(u)
      /\ u.checkpoint = NoCheckpoint
      /\ \A e : RememberedIn(Conversation(mem), e) => RememberedIn(Conversation(u), e)
  BY <1>0, <1>1, <1>2, UserKeeps
<1>4. PICK ok \in BOOLEAN : Save(u, ok) /\ pc' = IF ok THEN "model" ELSE "idle"
  BY DEF StateBuild
<1> HIDE DEF u
<1>5. SessionInv'
  BY <1>0, <1>3, <1>4, Writes
<1>6. CASE pc' = "idle"
  BY <1>0, <1>5, <1>6, GoesIdle
<1>7. CASE pc' = "model"
  <2>1. mem' = u /\ Conversation(mem)' = Conversation(u)
    BY <1>4 DEF Save, Conversation
  <2>2. AtPrompt(mem)'
    BY <1>0, <1>3, <2>1 DEF AtPrompt
  <2>3. RunOf(<<>>, turn) /\ Closed(<<>>) /\ Before(<<>>, iter)
    BY ClosedEmpty DEF RunOf, Distinct, Before
  <2>4. TurnInv'
    BY <1>0, <1>1, <1>3, <1>7, <2>1, <2>2, <2>3 DEF TurnInv, Started
  <2>5. \A e \in execd : e[1] # turn
    BY <1>1, <1>2, ExecTypes
  <2>6. RunInv'
    BY <1>0, <1>1, <1>7, <2>3, <2>5 DEF RunInv
  <2> QED BY <1>5, <2>4, <2>6
<1> QED BY <1>4, <1>6, <1>7

\* A checkpoint that the runner writes: the executed calls of the turn belong
\* to its assistant message or to an earlier iteration.
LEMMA CheckpointStep ==
  ASSUME TypeOK, Placed, SessionInv, TurnInv, Started, NEW a \in Message, NEW c \in Seq(Message),
         NEW p \in BOOLEAN, CheckpointShape([assistant |-> a, completed |-> c, pending |-> p]),
         a.turn = turn, a.iter = iter,
         \A e \in execd : e[1] = turn =>
           \/ e[2] < iter
           \/ a.kind \in CallKinds /\ e[2] = iter /\ e[3] <= a.call,
         NEW ok \in BOOLEAN, Save(SetCheckpoint(a, c, p), ok),
         UNCHANGED <<turn, kept, execd, doubtful>>
  PROVE  /\ SessionInv' /\ mem'.messages = mem.messages
         /\ Conversation(mem') = Conversation(mem)
         /\ mem'.checkpoint = [assistant |-> a, completed |-> c, pending |-> p]
         /\ mem'.checkpoint.assistant.turn = turn
         /\ ok => disk' = mem'
<1> DEFINE cp == [assistant |-> a, completed |-> c, pending |-> p]
           u == SetCheckpoint(a, c, p)
<1>0. /\ IsSession(mem) /\ Restorable(mem, turn, kept, execd, doubtful) /\ turn \in Nat
      /\ iter \in Nat /\ AtPrompt(mem) /\ turn \notin kept
      /\ \A e \in execd : e[1] <= turn
      /\ MaxTrim = 0 => \A e \in execd : e[1] < turn => RememberedIn(Conversation(mem), e)
  BY EntryTypes DEF TypeOK, SessionInv, TurnInv, Started
<1>1. /\ IsSession(u) /\ u.messages = mem.messages /\ u.checkpoint = cp
      /\ u.msgEnd = mem.msgEnd /\ u.pendingUserTurn = mem.pendingUserTurn
      /\ Conversation(u) = Conversation(mem)
  BY <1>0, SetTypes
<1>2. cp \in Checkpoint /\ cp.assistant = a /\ CheckpointShape(cp)
  BY DEF Checkpoint
<1> HIDE DEF cp, u
<1>3. ASSUME MaxTrim = 0, NEW e \in execd
      PROVE  RememberedIn(Conversation(mem), e) \/ Remembers(cp.assistant, e)
  <2>1. e[1] \in Nat /\ e[2] \in Nat /\ e[1] <= turn
    BY <1>0, ExecTypes
  <2>2. CASE e[1] < turn
    BY <1>0, <1>3, <2>2
  <2>3. CASE e[1] = turn
    <3>1. CASE e[2] < iter
      <4>1. a.iter > e[2]
        BY <1>0, <2>1, <3>1
      <4>2. a.kind \in CallKinds \cup {"answer"}
        BY <1>2 DEF CheckpointShape
      <4> QED BY <1>2, <2>3, <4>1, <4>2 DEF Remembers
    <3>2. CASE a.kind \in CallKinds /\ e[2] = iter /\ e[3] <= a.call
      BY <1>2, <2>3, <3>2 DEF Remembers
    <3> QED BY <2>3, <3>1, <3>2
  <2> QED BY <1>0, <2>1, <2>2, <2>3
<1>4. cp.assistant.turn = turn
  BY <1>2
<1>5. Restorable(u, turn, kept, execd, doubtful)
  BY <1>0, <1>1, <1>2, <1>3, <1>4, CheckpointKeeps
<1>6. Save(u, ok)
  BY DEF u
<1>7. SessionInv'
  BY <1>5, <1>6, Writes
<1>8. mem' = u /\ (ok => disk' = u) /\ Conversation(mem') = Conversation(u)
  BY <1>6 DEF Save
<1> QED BY <1>1, <1>4, <1>7, <1>8 DEF cp

LEMMA ModelCallsStep ==
  ASSUME TypeOK, Placed, SessionInv, TurnInv, RunInv, NEW kind \in CallKinds,
         NEW n \in 1..MaxCalls, ModelCalls(kind, n)
  PROVE  SessionInv' /\ TurnInv' /\ RunInv'
<1> DEFINE a == Entry(kind, n)
<1>0. /\ pc = "model" /\ iter < MaxIterations /\ run' = Append(run, a) /\ Started
      /\ UNCHANGED <<turn, iter, trimmed, execd, kept, doubtful>>
      /\ run \in Seq(Message) /\ RunOf(run, turn) /\ Closed(run) /\ Before(run, iter)
      /\ \A e \in execd : e[1] = turn => e[2] < iter /\ RememberedIn(run, e)
  BY DEF ModelCalls, ModelReplies, TypeOK, TurnInv, RunInv, Started
<1>1. /\ a \in Message /\ a.kind = kind /\ a.kind \in CallKinds /\ a.turn = turn /\ a.iter = iter /\ a.call = n
      /\ n # 0 /\ iter \in Nat /\ turn \in Nat
  <2>1. n \in 0..MaxCalls /\ n # 0 /\ kind \in Kinds
    BY Bounds DEF Kinds, CallKinds
  <2> QED BY <1>0, <2>1, EntryTypes, EntryType
<1>2. CheckpointShape([assistant |-> a, completed |-> <<>>, pending |-> TRUE])
  <2> HIDE DEF a
  <2> QED BY <1>1 DEF CheckpointShape
<1>3. PICK ok \in BOOLEAN : /\ Save(SetCheckpoint(a, <<>>, TRUE), ok)
                            /\ pc' = IF ok THEN "tools" ELSE "idle"
  BY DEF ModelCalls
<1>a. a = Entry(a.kind, a.call)
  BY <1>1
<1> HIDE DEF a
<1>4. /\ SessionInv' /\ mem'.messages = mem.messages
      /\ Conversation(mem') = Conversation(mem)
      /\ mem'.checkpoint = [assistant |-> a, completed |-> <<>>, pending |-> TRUE]
      /\ mem'.checkpoint.assistant.turn = turn
      /\ ok => disk' = mem'
  <2>1. <<>> \in Seq(Message)
    OBVIOUS
  <2> QED BY <1>0, <1>1, <1>2, <1>3, <2>1, CheckpointStep
<1>5. CASE ~ok
  <2>1. pc' = "idle"
    BY <1>3, <1>5
  <2> QED BY <1>0, <1>4, <2>1, GoesIdle
<1>6. CASE ok
  <2>0. pc' = "tools" /\ disk' = mem'
    BY <1>3, <1>4, <1>6
  <2>1. /\ run' = run \o <<a>> /\ <<a>> \in Seq(Message) /\ run' \in Seq(Message) /\ run' # <<>>
        /\ Len(run') = Len(run) + 1 /\ Len(run) \in Nat
    BY <1>0, <1>1, AppendIsConcat
  <2>2. Last(run') = a /\ Front(run') = run
    <3>1. /\ Front(run') \in Seq(Message) /\ Len(Front(run')) = Len(run') - 1
          /\ \A i \in 1..Len(run') - 1 : Front(run')[i] = run'[i]
          /\ Last(run') = run'[Len(run')]
      BY <2>1, FrontFacts
    <3>2. run'[Len(run) + 1] = a /\ \A i \in 1..Len(run) : run'[i] = run[i]
      BY <1>0, <1>1
    <3> DEFINE g == Front(run')
    <3>3. g \in Seq(Message) /\ Len(g) = Len(run) /\ \A i \in 1..Len(run) : g[i] = run[i]
      BY <2>1, <3>1, <3>2
    <3> HIDE DEF g
    <3>4. g = run
      BY <1>0, <3>3, SeqEqual
    <3> QED BY <2>1, <3>1, <3>2, <3>4 DEF g
  <2>3. RunOf(run', turn)
    <3>1. Distinct(<<a>>) /\ DOMAIN <<a>> = {1} /\ <<a>>[1] = a
      BY DEF Distinct
    <3>2. ASSUME NEW i \in DOMAIN run, NEW j \in DOMAIN <<a>> PROVE run[i] # <<a>>[j]
      <4>1. run[i].iter < iter /\ run[i].iter \in Nat
        BY <1>0, MessageFields DEF Before
      <4> QED BY <1>1, <3>1, <4>1
    <3>3. Distinct(run \o <<a>>)
      BY <1>0, <2>1, <3>1, <3>2, DistinctAppend DEF RunOf
    <3>4. ASSUME NEW i \in DOMAIN run'
          PROVE  run'[i].turn = turn /\ run'[i].kind \notin {"user", "closed"}
      <4>0. DOMAIN run = 1..Len(run) /\ Len(<<a>>) = 1
        BY <1>0
      <4>1. CASE i \in 1..Len(run) /\ run'[i] = run[i]
        BY <1>0, <4>0, <4>1 DEF RunOf
      <4>2. CASE i > Len(run) /\ i - Len(run) \in 1..Len(<<a>>) /\ run'[i] = <<a>>[i - Len(run)]
        BY <1>1, <3>1, <4>0, <4>2 DEF CallKinds
      <4> QED BY <1>0, <2>1, <4>1, <4>2, JoinedFrom
    <3> QED BY <2>1, <3>3, <3>4 DEF RunOf
  <2>4. TurnInv'
    BY <1>0, <1>1, <1>4, <2>0, <2>3, Running
  <2>5. Last(run)' = Entry(Last(run).kind, Last(run).call)' /\ Last(run').kind \in CallKinds
    <3>1. a = [kind |-> a.kind, turn |-> turn, iter |-> iter, call |-> a.call]
      BY <1>a DEF Entry
    <3>2. Last(run') = [kind |-> Last(run').kind, turn |-> turn', iter |-> iter',
                        call |-> Last(run').call]
      BY <1>0, <2>2, <3>1, Zenon
    <3> QED BY <1>1, <2>2, <3>2 DEF Entry
  <2>6. /\ Closed(Front(run')) /\ Before(Front(run'), iter') /\ Last(run').call # 0
        /\ mem'.checkpoint = [assistant |-> Last(run'), completed |-> <<>>, pending |-> TRUE]
        /\ disk'.checkpoint = mem'.checkpoint
    BY <1>0, <1>1, <1>4, <2>0, <2>2
  <2>7. \A e \in execd' : e[1] = turn' => e[2] < iter' /\ RememberedIn(Front(run'), e)
    BY <1>0, <2>2
  <2>8. RunInv'
    BY <2>0, <2>5, <2>6, <2>7 DEF RunInv
  <2> QED BY <1>4, <2>4, <2>8
<1> QED BY <1>5, <1>6

LEMMA ExecuteStep ==
  ASSUME TypeOK, Placed, SessionInv, TurnInv, RunInv, ExecuteTool
  PROVE  SessionInv' /\ TurnInv' /\ RunInv'
<1> DEFINE x == <<turn, iter, Done + 1>>
           a == Last(run)
           c == mem.checkpoint
<1>0. /\ pc = "tools" /\ Done < a.call /\ execd' = execd \cup {x}
      /\ UNCHANGED <<mem, disk, pc, turn, iter, run, trimmed, kept, doubtful, used, summary>>
      /\ turn \in Nat /\ iter \in Nat /\ a \in Message /\ a.call \in Nat /\ Done \in Nat
  BY EntryTypes, ToolTypes, DoneNat DEF ExecuteTool
<1>1. /\ a = Entry(a.kind, a.call) /\ a.kind \in CallKinds /\ a.call # 0
      /\ Closed(Front(run)) /\ Before(Front(run), iter)
      /\ c = [assistant |-> a, completed |-> <<>>, pending |-> TRUE] /\ disk.checkpoint = c
      /\ \A e \in execd : e[1] = turn => \/ e[2] < iter /\ RememberedIn(Front(run), e)
                                         \/ e[2] = iter /\ e[3] <= a.call
  BY <1>0 DEF RunInv
<1>2. a.kind \in CallKinds /\ a.turn = turn /\ a.iter = iter
  BY <1>1 DEF Entry
<1>3. x[1] = turn /\ x[2] = iter /\ x[3] = Done + 1
  OBVIOUS
<1> HIDE DEF x, a
<1>4. c \in Checkpoint /\ c.assistant = a
  BY <1>0, <1>1 DEF Checkpoint
<1> HIDE DEF c
<1>5. x[3] <= a.call
  BY <1>0, <1>3
<1>6. Remembers(c.assistant, x) /\ c # NoCheckpoint
  BY <1>2, <1>3, <1>4, <1>5, CheckpointThere DEF Remembers
<1>7. ASSUME NEW s \in {mem, disk}
      PROVE  Restorable(s, turn, kept, execd', doubtful)
  <2>0. Restorable(s, turn, kept, execd, doubtful) /\ s.checkpoint = c
    BY <1>1 DEF SessionInv, c
  <2>1. ASSUME MaxTrim = 0 PROVE WorkIn(s, execd')
    <3>1. WorkIn(s, execd)
      BY <2>0, <2>1 DEF Restorable
    <3> QED BY <1>0, <1>6, <2>0, <3>1 DEF WorkIn
  <2> QED BY <2>0, <2>1 DEF Restorable
<1>8. SessionInv'
  BY <1>0, <1>7 DEF SessionInv
<1>9. TurnInv'
  <2>1. RunOf(run, turn)
    BY <1>0 DEF TurnInv, Started
  <2>2. /\ mem'.messages = mem.messages /\ mem'.checkpoint = mem.checkpoint
        /\ Conversation(mem') = Conversation(mem)
    BY <1>0
  <2>3. \A e \in execd' : e \in execd \/ e[1] = turn
    BY <1>0, <1>3
  <2> QED BY <1>0, <2>1, <2>2, <2>3, Running
<1>10. RunInv'
  <2>1. \A e \in execd' : e[1] = turn => \/ e[2] < iter /\ RememberedIn(Front(run), e)
                                         \/ e[2] = iter /\ e[3] <= a.call
    BY <1>0, <1>1, <1>3, <1>5
  <2>2. Last(run)' = Entry(Last(run).kind, Last(run).call)' /\ Last(run)'.kind \in CallKinds
    BY <1>0, <1>1 DEF Entry, a
  <2> QED BY <1>0, <1>1, <2>1, <2>2 DEF RunInv, a, c
<1> QED BY <1>8, <1>9, <1>10

LEMMA ToolsCompletedStep ==
  ASSUME TypeOK, Placed, SessionInv, TurnInv, RunInv, ToolsCompleted
  PROVE  SessionInv' /\ TurnInv' /\ RunInv'
<1> DEFINE a == Last(run)
<1>3. PICK ok \in BOOLEAN, f \in FollowUps, k \in ResultCounts :
        /\ run' = run \o Results(k) \o f
        /\ Save(SetCheckpoint(a, Results(k), FALSE), ok)
        /\ pc' = IF ok THEN "model" ELSE "idle"
  BY DEF ToolsCompleted
<1> DEFINE c == [assistant |-> a, completed |-> Results(k), pending |-> FALSE]
<1>0. /\ pc = "tools" /\ iter' = iter + 1 /\ UNCHANGED <<turn, trimmed, execd, kept, doubtful>>
      /\ Started /\ a \in Message /\ Results(k) \in Seq(Message) /\ iter \in Nat
      /\ a = Entry(a.kind, a.call) /\ a.kind \in CallKinds /\ a.call # 0
  BY EntryTypes, ToolTypes DEF ToolsCompleted, RunInv, Started
<1>1. a.turn = turn /\ a.iter = iter
  BY <1>0 DEF Entry
<1>2. CheckpointShape(c)
  BY <1>0, ToolBlock
<1>4. \A e \in execd : e[1] = turn => \/ e[2] < iter
                                      \/ a.kind \in CallKinds /\ e[2] = iter /\ e[3] <= a.call
  BY <1>0, <1>1 DEF RunInv
<1> HIDE DEF a
<1>5. /\ SessionInv' /\ mem'.messages = mem.messages
      /\ Conversation(mem') = Conversation(mem)
      /\ mem'.checkpoint.assistant.turn = turn
  BY <1>0, <1>1, <1>2, <1>3, <1>4, CheckpointStep
<1>6. CASE pc' = "idle"
  BY <1>0, <1>5, <1>6, GoesIdle
<1>7. CASE pc' = "model"
  <2>1. Block(f, {"followup"})
    BY <1>0, BlockFollow
  <2>3. {"followup"} \cap (ToolKinds \cup CallKinds \cup {"user", "closed"}) = {}
    BY DEF ToolKinds, CallKinds
  <2>2. Grown(f)
    BY <1>0, <1>3, <2>1, <2>3, ToolsGrow
  <2> QED BY <1>0, <1>5, <1>7, <2>2, GoesOn
<1> QED BY <1>3, <1>6, <1>7

LEMMA Regroup ==
  ASSUME NEW s \in Seq(Message), NEW t \in Seq(Message), NEW u \in Seq(Message),
         NEW v \in Seq(Message)
  PROVE  (s \o (t \o u)) \o v = (s \o t) \o (u \o v)
<1>1. s \o t \in Seq(Message)
  OBVIOUS
<1>2. (s \o t) \o u = s \o (t \o u)
  BY Associative
<1>3. ((s \o t) \o u) \o v = (s \o t) \o (u \o v)
  BY <1>1, Associative
<1> QED BY <1>2, <1>3

\* A placeholder ends the run, or a follow-up lets it go on.
LEMMA ContinueStep ==
  ASSUME TypeOK, Placed, SessionInv, TurnInv, RunInv, pc \in {"model", "tools"},
         NEW last, ContinueOrReturn(last),
         UNCHANGED <<mem, disk, turn, trimmed, execd, kept, doubtful>>,
         NEW k, pc = "tools" => k \in ResultCounts,
         last = IF pc = "model" THEN <<Entry("placeholder", 0)>>
                ELSE Results(k) \o <<Entry("placeholder", 0)>>
  PROVE  SessionInv' /\ TurnInv' /\ RunInv'
<1> DEFINE p == <<Entry("placeholder", 0)>>
<1>1. PICK f \in FollowUps :
        /\ run' = run \o last \o f
        /\ pc' = IF f = <<>> THEN "ran" ELSE "model"
        /\ iter' = IF f = <<>> THEN iter ELSE iter + 1
  BY DEF ContinueOrReturn
<1> DEFINE n == p \o f
<1>2. /\ Block(n, {"placeholder", "followup"}) /\ 1 \in DOMAIN n /\ n[1].kind = "placeholder"
      /\ n # <<>> /\ Last(n).kind \notin ToolKinds \cup CallKinds
  BY EndBlock
<1>3. p \in Seq(Message) /\ f \in Seq(Message) /\ run \in Seq(Message)
  <2>1. Block(p, {"placeholder"})
    BY BlockOne DEF Kinds, ToolKinds, CallKinds
  <2> QED BY <2>1, EntryTypes DEF Block, TypeOK
<1>4. CASE pc = "model"
  <2>1. run' = (run \o p) \o f
    BY <1>1, <1>4
  <2> HIDE DEF p
  <2>2. run' = run \o n
    BY <1>3, <2>1, Associative
  <2> HIDE DEF n
  <2>3. Grown(n)
    BY <1>2, <1>4, <2>2, ModelGrows
  <2> QED BY <1>1, <1>2, <2>3, GoesOn, Leaves
<1>5. CASE pc = "tools"
  <2>0. Results(k) \in Seq(Message)
    BY <1>5, ToolTypes
  <2>1. run' = (run \o (Results(k) \o p)) \o f
    BY <1>1, <1>5
  <2> HIDE DEF p
  <2>2. (run \o (Results(k) \o p)) \o f = (run \o Results(k)) \o (p \o f)
    <3> HIDE DEF n
    <3>1. \A s, t, u, v \in Seq(Message) : (s \o (t \o u)) \o v = (s \o t) \o (u \o v)
      BY Regroup
    <3>2. run \in Seq(Message)
      BY <1>3
    <3>3. p \in Seq(Message)
      BY <1>3
    <3>4. f \in Seq(Message)
      BY <1>3
    <3>5. Results(k) \in Seq(Message)
      BY <2>0
    <3>6. \A t, u, v \in Seq(Message) : (run \o (t \o u)) \o v = (run \o t) \o (u \o v)
      BY <3>1, <3>2
    <3>7. \A u, v \in Seq(Message) : (run \o (Results(k) \o u)) \o v = (run \o Results(k)) \o (u \o v)
      BY <3>6, <3>5
    <3>8. \A v \in Seq(Message) : (run \o (Results(k) \o p)) \o v = (run \o Results(k)) \o (p \o v)
      BY <3>7, <3>3
    <3> QED BY <3>8, <3>4
  <2>5. run' = (run \o Results(k)) \o n
    BY <2>1, <2>2
  <2> HIDE DEF n
  <2>7. {"placeholder", "followup"} \cap (ToolKinds \cup CallKinds \cup {"user", "closed"}) = {}
    BY DEF ToolKinds, CallKinds
  <2>6. Grown(n)
    BY <1>2, <1>5, <2>5, <2>7, ToolsGrow
  <2> QED BY <1>1, <1>2, <2>6, GoesOn, Leaves
<1> QED BY <1>4, <1>5

LEMMA ModelAnswersStep ==
  ASSUME TypeOK, Placed, SessionInv, TurnInv, RunInv, ModelAnswers
  PROVE  SessionInv' /\ TurnInv' /\ RunInv'
<1> DEFINE a == Entry("answer", 0)
           p == <<a>>
<1>0. /\ pc = "model" /\ Started /\ UNCHANGED <<turn, trimmed, execd, kept, doubtful>>
      /\ run \in Seq(Message)
      /\ \A e \in execd : e[1] = turn => e[2] < iter
  BY DEF ModelAnswers, ModelReplies, Started, TypeOK, RunInv
<1>1. a \in Message /\ a.kind = "answer" /\ a.turn = turn /\ a.iter = iter /\ a.call = 0
  <2>1. 0 \in 0..MaxCalls /\ "answer" \in Kinds
    BY Bounds DEF Kinds
  <2> QED BY <1>0, <2>1, EntryTypes, EntryType
<1>2. CheckpointShape([assistant |-> a, completed |-> <<>>, pending |-> FALSE])
  <2> HIDE DEF a
  <2> QED BY <1>1 DEF CheckpointShape
<1>3. PICK ok \in BOOLEAN, f \in FollowUps :
        /\ run' = run \o p \o f
        /\ Save(SetCheckpoint(a, <<>>, FALSE), ok)
        /\ pc' = IF ~ok THEN "idle" ELSE IF f = <<>> THEN "ran" ELSE "model"
        /\ iter' = IF f = <<>> THEN iter ELSE iter + 1
  BY DEF ModelAnswers
<1> DEFINE n == p \o f
<1>4. /\ Block(n, {"answer", "followup"}) /\ 1 \in DOMAIN n /\ n[1].kind = "answer"
      /\ n # <<>> /\ Last(n).kind \notin ToolKinds \cup CallKinds
  BY <1>0, EndBlock
<1> HIDE DEF a
<1>5. /\ SessionInv' /\ mem'.messages = mem.messages
      /\ Conversation(mem') = Conversation(mem)
      /\ mem'.checkpoint.assistant.turn = turn
  <2>1. <<>> \in Seq(Message)
    OBVIOUS
  <2> QED BY <1>0, <1>1, <1>2, <1>3, <2>1, CheckpointStep
<1>6. CASE pc' = "idle"
  BY <1>0, <1>5, <1>6, GoesIdle
<1>7. CASE pc' # "idle"
  <2>1. p \in Seq(Message) /\ f \in Seq(Message)
    BY <1>0, <1>1, EntryTypes
  <2> HIDE DEF p
  <2>2. run' = run \o n
    BY <1>0, <1>3, <2>1, Associative
  <2> HIDE DEF n
  <2>3. Grown(n)
    BY <1>0, <1>4, <2>2, ModelGrows
  <2> QED BY <1>0, <1>3, <1>4, <1>5, <1>7, <2>3, GoesOn
<1> QED BY <1>6, <1>7

\* A follow-up that is injected behind a user message takes its place.
LEMMA InjectStep ==
  ASSUME TypeOK, Placed, SessionInv, TurnInv, RunInv, pc = "model", run' = Injected(run),
         pc' = "model", iter' = iter + 1,
         UNCHANGED <<mem, disk, turn, trimmed, execd, kept, doubtful>>
  PROVE  SessionInv' /\ TurnInv' /\ RunInv'
<1> DEFINE m == Entry("followup", 0)
<1>0. /\ run \in Seq(Message) /\ iter \in Nat /\ RunOf(run, turn) /\ Closed(run)
      /\ Before(run, iter)
      /\ \A e \in execd : e[1] = turn => e[2] < iter /\ RememberedIn(run, e)
  BY EntryTypes DEF TypeOK, TurnInv, Started, RunInv
<1>1. \E n : Grown(n)
  <2>1. CASE run = <<>>
    <3>1. Block(<<>>, {})
      BY ClosedEmpty DEF Block, Distinct
    <3>2. run' = run \o <<>>
      BY <2>1 DEF Injected
    <3>3. Grown(<<>>)
      BY <3>1, <3>2, ModelGrows
    <3> QED BY <3>3
  <2>2. CASE run # <<>> /\ Last(run).kind \notin UserKinds
    <3>1. Block(<<m>>, {"followup"})
      BY BlockOne DEF Kinds, ToolKinds, CallKinds
    <3>2. run' = Append(run, m)
      BY <2>2 DEF Injected
    <3> HIDE DEF m
    <3>3. m \in Message
      <4>1. 1 \in DOMAIN <<m>> /\ <<m>>[1] = m
        OBVIOUS
      <4>2. <<m>> \in Seq(Message)
        BY <3>1 DEF Block
      <4> QED BY <4>1, <4>2
    <3>4. run' = run \o <<m>>
      BY <1>0, <3>2, <3>3, AppendIsConcat
    <3>5. Grown(<<m>>)
      BY <3>1, <3>4, ModelGrows
    <3> QED BY <3>5
  <2>3. CASE run # <<>> /\ Last(run).kind \in UserKinds
    <3> DEFINE r == Front(run)
    <3>1. Block(<<m>>, {"followup"})
      BY BlockOne DEF Kinds, ToolKinds, CallKinds
    <3>2. run' = Append(r, m)
      BY <2>3 DEF Injected
    <3>3. Last(run).kind \notin ToolKinds \cup CallKinds \cup {"answer"}
      BY <2>3, NoUserKinds
    <3>4. Closed(r) /\ r \in Seq(Message) /\ Len(r) = Len(run) - 1
          /\ \A i \in 1..Len(run) - 1 : r[i] = run[i]
      BY <1>0, <2>3, <3>3, ClosedFront
    <3>5. Len(run) \in Nat /\ Len(run) # 0 /\ Last(run) = run[Len(run)]
      BY <1>0, <2>3, FrontFacts
    <3> HIDE DEF m, r
    <3>6. /\ DOMAIN r = 1..Len(run) - 1 /\ DOMAIN run = 1..Len(run)
          /\ \A i \in DOMAIN r : i \in DOMAIN run /\ r[i] = run[i]
      <4>1. DOMAIN r = 1..Len(r) /\ DOMAIN run = 1..Len(run)
        BY <1>0, <3>4
      <4>2. DOMAIN r = 1..Len(run) - 1 /\ 1..Len(run) - 1 \subseteq DOMAIN run
        BY <3>4, <3>5, <4>1
      <4> QED BY <3>4, <4>1, <4>2
    <3>7. RunOf(r, turn) /\ Before(r, iter)
      BY <1>0, <3>6 DEF RunOf, Distinct, Before
    <3>8. ASSUME NEW e \in execd, e[1] = turn PROVE e[2] < iter /\ RememberedIn(r, e)
      <4>1. e[2] < iter /\ RememberedIn(run, e)
        BY <1>0, <3>8
      <4>2. PICK i \in DOMAIN run : Remembers(run[i], e)
        BY <4>1 DEF RememberedIn
      <4>3. i # Len(run)
        BY <3>3, <3>5, <4>2 DEF Remembers
      <4>4. i \in DOMAIN r
        BY <3>5, <3>6, <4>3
      <4>5. r[i] = run[i]
        BY <3>6, <4>4
      <4> QED BY <4>1, <4>2, <4>4, <4>5 DEF RememberedIn
    <3>9. m \in Message
      <4>1. 1 \in DOMAIN <<m>> /\ <<m>>[1] = m
        OBVIOUS
      <4>2. <<m>> \in Seq(Message)
        BY <3>1 DEF Block
      <4> QED BY <4>1, <4>2
    <3>10. run' = r \o <<m>>
      BY <3>2, <3>4, <3>9, AppendIsConcat
    <3>11. /\ r \o <<m>> \in Seq(Message) /\ RunOf(r \o <<m>>, turn) /\ Closed(r \o <<m>>)
           /\ Before(r \o <<m>>, iter + 1)
           /\ \A e : RememberedIn(r, e) \/ RememberedIn(<<m>>, e) => RememberedIn(r \o <<m>>, e)
           /\ \A i \in DOMAIN <<m>> : \E j \in DOMAIN (r \o <<m>>) : (r \o <<m>>)[j] = <<m>>[i]
           /\ <<m>> # <<>> => Last(r \o <<m>>) = Last(<<m>>)
      <4> DEFINE n == <<m>>
                 K == {"followup"}
      <4>1. Block(n, K) /\ K \cap {"user", "closed"} = {}
        BY <3>1
      <4> HIDE DEF n, K
      <4>2. /\ r \o n \in Seq(Message) /\ RunOf(r \o n, turn) /\ Closed(r \o n)
            /\ Before(r \o n, iter + 1)
            /\ \A e : RememberedIn(r, e) \/ RememberedIn(n, e) => RememberedIn(r \o n, e)
            /\ \A i \in DOMAIN n : \E j \in DOMAIN (r \o n) : (r \o n)[j] = n[i]
            /\ n # <<>> => Last(r \o n) = Last(n)
        BY <1>0, <3>4, <3>7, <4>1, RunGrows
      <4> QED BY <4>2 DEF n
    <3>12. ASSUME NEW e \in execd, e[1] = turn PROVE e[2] < iter + 1
      <4>1. e[2] < iter /\ e[2] \in Nat
        BY <3>8, <3>12, ExecTypes
      <4> QED BY <1>0, <4>1
    <3>13. Grown(<<m>>)
      BY <3>8, <3>10, <3>11, <3>12 DEF Grown
    <3> QED BY <3>13
  <2> QED BY <2>1, <2>2, <2>3
<1>2. PICK n : Grown(n)
  BY <1>1
<1> QED BY <1>2, GoesOn, Leaves

LEMMA TruncatedStep ==
  ASSUME TypeOK, Placed, SessionInv, TurnInv, RunInv, ModelTruncatedOrEmpty
  PROVE  SessionInv' /\ TurnInv' /\ RunInv'
<1> DEFINE p == <<Entry("partial", 0)>>
           q == <<Entry("resume", 0)>>
           n == <<Entry("partial", 0), Entry("resume", 0)>>
<1>0. /\ pc = "model" /\ pc' = "model" /\ iter' = iter + 1 /\ run' \in {run, run \o n}
      /\ UNCHANGED <<mem, disk, turn, trimmed, execd, kept, doubtful>> /\ run \in Seq(Message)
  BY DEF ModelTruncatedOrEmpty, ModelReplies, TypeOK
<1>1. Block(p, {"partial"}) /\ Block(q, {"resume"})
  BY <1>0, BlockOne DEF Kinds, ToolKinds, CallKinds
<1>2. p \o q = n
  <2> DEFINE x == Entry("partial", 0)
             y == Entry("resume", 0)
             w == <<x>> \o <<y>>
  <2>0. x \in Message /\ y \in Message
    BY <1>0, EntryTypes, Bounds DEF Kinds
  <2> HIDE DEF x, y
  <2>1. w \in Seq(Message) /\ Len(w) = 2 /\ w[1] = x /\ w[2] = y
    BY <2>0
  <2>2. <<x, y>> \in Seq(Message) /\ Len(<<x, y>>) = 2
    BY <2>0
  <2> HIDE DEF w
  <2>3. \A i \in 1..Len(w) : w[i] = <<x, y>>[i]
    BY <2>1
  <2>4. w = <<x, y>>
    BY <2>1, <2>2, <2>3, SeqEqual
  <2> QED BY <2>4 DEF w, x, y
<1> HIDE DEF p, q, n
<1>3. Block(n, {"partial"} \cup {"resume"})
  BY <1>1, <1>2, BlockJoin
<1>4. Block(<<>>, {})
  BY ClosedEmpty DEF Block, Distinct
<1>5. run \o <<>> = run
  BY <1>0, ConcatEmptySeq
<1>6. CASE run' = run
  <2>1. Grown(<<>>)
    BY <1>0, <1>4, <1>5, <1>6, ModelGrows
  <2> QED BY <1>0, <2>1, GoesOn, Leaves
<1>7. CASE run' = run \o n
  <2>1. Grown(n)
    BY <1>0, <1>3, <1>7, ModelGrows
  <2> QED BY <1>0, <2>1, GoesOn, Leaves
<1> QED BY <1>0, <1>6, <1>7

LEMMA OutOfIterationsStep ==
  ASSUME TypeOK, Placed, SessionInv, TurnInv, RunInv, OutOfIterations
  PROVE  SessionInv' /\ TurnInv' /\ RunInv'
<1> DEFINE p == <<Entry("placeholder", 0)>>
<1>0. /\ pc = "model" /\ pc' = "ran" /\ run \in Seq(Message)
      /\ UNCHANGED <<mem, disk, turn, iter, trimmed, execd, kept, doubtful>>
  BY DEF OutOfIterations, TypeOK
<1>1. PICK f \in FollowUps : run' = run \o p \o f
  BY DEF OutOfIterations
<1> DEFINE n == p \o f
<1>2. /\ Block(n, {"placeholder", "followup"}) /\ 1 \in DOMAIN n /\ n[1].kind = "placeholder"
      /\ n # <<>> /\ Last(n).kind \notin ToolKinds \cup CallKinds
  BY <1>0, EndBlock
<1>3. p \in Seq(Message) /\ f \in Seq(Message)
  <2>1. Block(p, {"placeholder"})
    BY <1>0, BlockOne DEF Kinds, ToolKinds, CallKinds
  <2> QED BY <1>0, <2>1, EntryTypes DEF Block
<1> HIDE DEF p
<1>4. run' = run \o n
  BY <1>0, <1>1, <1>3, Associative
<1> HIDE DEF n
<1>5. Grown(n)
  BY <1>0, <1>2, <1>4, ModelGrows
<1> QED BY <1>0, <1>2, <1>5, GoesOn, Leaves

\* The end of a run is one, too, except that it may begin with results.
LEMMA RunEnd ==
  ASSUME NEW r \in Seq(Message), RunOf(r, turn), Closed(r), NEW d \in Nat,
         NEW n \in Seq(Message), Len(r) = d + Len(n), \A i \in 1..Len(n) : n[i] = r[d + i]
  PROVE  RunOf(n, turn) /\ CallsAnswered(n) /\ (n # <<>> => Last(n) = Last(r))
<1>0. /\ Len(n) \in Nat /\ DOMAIN n = 1..Len(n) /\ DOMAIN r = 1..(d + Len(n))
      /\ \A i \in 1..Len(n) : d + i \in DOMAIN r /\ n[i] \in Message
  OBVIOUS
<1>1. ASSUME NEW i \in DOMAIN n, NEW j \in DOMAIN n, i # j PROVE n[i] # n[j]
  <2>1. d + i # d + j
    BY <1>0, <1>1
  <2>2. r[d + i] # r[d + j]
    BY <1>0, <2>1 DEF RunOf, Distinct
  <2> QED BY <1>0, <2>2
<1>2. ASSUME NEW i \in DOMAIN n PROVE n[i].turn = turn /\ n[i].kind \notin {"user", "closed"}
  BY <1>0 DEF RunOf
<1>3. RunOf(n, turn)
  BY <1>1, <1>2 DEF RunOf, Distinct
<1>4. CallsAnswered(n)
  <2> SUFFICES ASSUME NEW i \in DOMAIN n, n[i].kind = "calls", NEW c \in 1..n[i].call
               PROVE  i + c <= Len(n) /\ Answers(n[i + c], n[i], c)
    BY DEF CallsAnswered
  <2>1. i \in 1..Len(n) /\ n[i].call \in Nat /\ n[i] = r[d + i] /\ d + i \in DOMAIN r
    BY <1>0, MessageFields
  <2>2. (d + i) + c <= Len(r) /\ Answers(r[(d + i) + c], r[d + i], c)
    BY <2>1 DEF Closed, CallsAnswered
  <2>3. i + c \in 1..Len(n) /\ (d + i) + c = d + (i + c)
    BY <1>0, <2>1, <2>2
  <2>4. n[i + c] = r[(d + i) + c]
    BY <2>3
  <2>5. i + c <= Len(n)
    BY <1>0, <2>3
  <2> QED BY <2>1, <2>2, <2>4, <2>5
<1>5. ASSUME n # <<>> PROVE Last(n) = Last(r)
  <2>1. Len(n) \in 1..Len(n)
    BY <1>0, <1>5
  <2>2. n[Len(n)] = r[Len(r)]
    BY <2>1
  <2> QED BY <2>2 DEF Last
<1> QED BY <1>3, <1>4, <1>5

\* What SAVE appends is the end of the run.
LEMMA Saved ==
  ASSUME TypeOK, RunOf(run, turn), Closed(run)
  PROVE  LET n == SubSeq(run, trimmed + 1, Len(run))
         IN  /\ run \in Seq(Message) /\ n \in Seq(Message) /\ RunOf(n, turn) /\ CallsAnswered(n)
             /\ MaxTrim = 0 => n = run
             /\ n # <<>> => Last(n) = Last(run)
<1> DEFINE n == SubSeq(run, trimmed + 1, Len(run))
<1>0. run \in Seq(Message) /\ trimmed \in Nat /\ Len(run) \in Nat
  BY Bounds DEF TypeOK
<1>1. MaxTrim = 0 => n = run
  <2>1. MaxTrim = 0 => trimmed + 1 = 1
    BY DEF TypeOK
  <2> QED BY <1>0, <2>1, SubSeqFull
<1>2. CASE trimmed + 1 > Len(run)
  <2>1. n = <<>>
    BY <1>0, <1>2, SubSeqEmpty
  <2>2. CallsAnswered(<<>>) /\ RunOf(<<>>, turn) /\ <<>> \in Seq(Message)
    BY ClosedEmpty, ClosedAnswered DEF RunOf, Distinct
  <2> HIDE DEF n
  <2>3. n \in Seq(Message) /\ RunOf(n, turn) /\ CallsAnswered(n) /\ ~(n # <<>>)
    BY <2>1, <2>2
  <2> QED BY <1>0, <1>1, <2>3 DEF n
<1>3. CASE trimmed + 1 <= Len(run)
  <2>1. /\ trimmed + 1 \in Int /\ Len(run) \in Int
        /\ \A i \in trimmed + 1..Len(run) : run[i] \in Message
    BY <1>0
  <2>2. /\ n \in Seq(Message)
        /\ Len(n) = IF trimmed + 1 <= Len(run) THEN Len(run) - (trimmed + 1) + 1 ELSE 0
        /\ \A i \in 1..Len(run) - (trimmed + 1) + 1 : n[i] = run[(trimmed + 1) + i - 1]
    BY <2>1, SubSeqProperties
  <2> HIDE DEF n
  <2>3. Len(run) = trimmed + Len(n) /\ Len(n) \in Nat
    BY <1>0, <1>3, <2>2
  <2>4. ASSUME NEW i \in 1..Len(n) PROVE n[i] = run[trimmed + i]
    <3>1. i \in 1..Len(run) - (trimmed + 1) + 1 /\ (trimmed + 1) + i - 1 = trimmed + i
      BY <1>0, <2>3
    <3> QED BY <2>2, <3>1
  <2>5. RunOf(n, turn) /\ CallsAnswered(n) /\ (n # <<>> => Last(n) = Last(run))
    BY <1>0, <2>2, <2>3, <2>4, RunEnd
  <2> QED BY <1>0, <1>1, <2>2, <2>5 DEF n
<1> QED BY <1>0, <1>2, <1>3

\* A checkpoint that ends the run is its final answer, or calls whose results
\* are all lost: what is left of the run ends with it too.
LEMMA CheckpointEnds ==
  ASSUME NEW c \in Checkpoint, CheckpointShape(c), NEW r \in Seq(Message),
         IsSuffix(Restored(c), r), Last(r).kind \notin ToolKinds,
         NEW n \in Seq(Message), n # <<>>, Last(n) = Last(r)
  PROVE  IsSuffix(Restored(c), n)
<1> DEFINE x == Restored(c)
<1>1. /\ x \in Seq(Message) /\ Len(x) \in Nat /\ Len(x) # 0
      /\ \A i \in DOMAIN x : i # 1 => ResultOf(x[i], c.assistant, i - 1)
  BY RestoredFacts
<1> HIDE DEF x
<1>2. /\ Len(x) \in Nat /\ Len(x) # 0 /\ Len(r) \in Nat /\ Len(n) \in Nat /\ Len(n) # 0
      /\ Len(x) <= Len(r) /\ \A i \in 1..Len(x) : Reverse(x)[i] = Reverse(r)[i]
      /\ Reverse(x) \in Seq(Message) /\ Len(Reverse(x)) = Len(x)
      /\ Reverse(x)[1] = x[Len(x)] /\ Reverse(r)[1] = r[Len(r)]
      /\ Reverse(n) \in Seq(Message) /\ Len(Reverse(n)) = Len(n) /\ Reverse(n)[1] = n[Len(n)]
  <2>0. /\ Len(x) \in Nat /\ Len(x) # 0 /\ Len(r) \in Nat /\ Len(n) \in Nat /\ Len(n) # 0
    BY <1>1
  <2>1. \A s \in Seq(Message) : Reverse(s) \in Seq(Message) /\ Len(Reverse(s)) = Len(s)
                                /\ (Len(s) # 0 => Reverse(s)[1] = s[Len(s)])
    BY ReversedFacts
  <2>2. Reverse(x) \in Seq(Message) /\ Reverse(r) \in Seq(Message) /\ IsPrefix(Reverse(x), Reverse(r))
    BY <1>1, <2>1 DEF IsSuffix, x
  <2>3. Len(Reverse(x)) <= Len(Reverse(r)) /\ \A i \in 1..Len(Reverse(x)) : Reverse(x)[i] = Reverse(r)[i]
    BY <2>2, PrefixDef
  <2>4. Len(r) # 0
    BY <1>1, <2>0, <2>1, <2>3
  <2> QED BY <1>1, <2>0, <2>1, <2>3, <2>4
<1>3. x[Len(x)] = Last(r)
  <2>1. 1 \in 1..Len(x)
    BY <1>2
  <2> QED BY <1>2, <2>1 DEF Last
\* Otherwise its last message would be a result.
<1>4. Len(x) = 1
  <2> SUFFICES ASSUME Len(x) # 1 PROVE FALSE
    OBVIOUS
  <2>1. Len(x) \in DOMAIN x
    BY <1>1
  <2>2. ResultOf(x[Len(x)], c.assistant, Len(x) - 1)
    BY <1>1, <2>1
  <2> QED BY <1>3, <2>2 DEF ResultOf
<1>5. Reverse(x)[1] = Reverse(n)[1]
  BY <1>2, <1>3 DEF Last
<1>6. IsPrefix(Reverse(x), Reverse(n))
  BY <1>2, <1>4, <1>5, PrefixDef
<1> QED BY <1>6 DEF IsSuffix, x

\* What SAVE finds, and the messages it appends.
LEMMA Ran ==
  ASSUME TypeOK, Placed, SessionInv, TurnInv, RunInv, pc = "ran"
  PROVE  /\ IsSession(mem) /\ Restorable(mem, turn, kept, execd, doubtful) /\ turn \in Nat
         /\ AtPrompt(mem) /\ RunOf(run, turn) /\ Closed(run) /\ run # <<>>
         /\ turn \notin kept
         /\ mem.checkpoint # NoCheckpoint => mem.checkpoint.assistant.turn = turn
         /\ Last(run).kind \notin ToolKinds \cup CallKinds
         /\ \E i \in DOMAIN run : run[i].kind \in {"answer", "placeholder"}
         /\ LET n == SubSeq(run, trimmed + 1, Len(run))
            IN  /\ n \in Seq(Message) /\ RunOf(n, turn) /\ CallsAnswered(n)
                /\ n # <<>> => Last(n) = Last(run)
                /\ n # <<>> => Last(n).kind \notin ToolKinds \cup CallKinds
                /\ MaxTrim = 0 => /\ n = run /\ n # <<>> /\ Closed(n)
                                  /\ \A e \in execd : \/ RememberedIn(Conversation(mem), e)
                                                      \/ RememberedIn(n, e)
<1> DEFINE n == SubSeq(run, trimmed + 1, Len(run))
<1>1. /\ IsSession(mem) /\ Restorable(mem, turn, kept, execd, doubtful) /\ turn \in Nat
  BY EntryTypes DEF TypeOK, SessionInv
<1>2. /\ AtPrompt(mem) /\ RunOf(run, turn) /\ Closed(run) /\ turn \notin kept
      /\ mem.checkpoint # NoCheckpoint => mem.checkpoint.assistant.turn = turn
      /\ \E i \in DOMAIN run : run[i].kind \in {"answer", "placeholder"}
      /\ \A e \in execd : e[1] <= turn /\ (e[1] = turn => RememberedIn(run, e))
      /\ MaxTrim = 0 => \A e \in execd : e[1] < turn => RememberedIn(Conversation(mem), e)
      /\ Last(run).kind \notin ToolKinds \cup CallKinds
  BY DEF TurnInv, Started, RunInv
<1>3. run # <<>>
  <2>1. DOMAIN run # {}
    BY <1>2
  <2> QED BY <2>1
<1>4. ASSUME MaxTrim = 0, NEW e \in execd
      PROVE  RememberedIn(Conversation(mem), e) \/ RememberedIn(run, e)
  <2>1. e[1] < turn \/ e[1] = turn
    BY <1>1, <1>2, ExecTypes
  <2> QED BY <1>2, <1>4, <2>1
<1>5. /\ n \in Seq(Message) /\ RunOf(n, turn) /\ CallsAnswered(n)
      /\ MaxTrim = 0 => n = run
      /\ n # <<>> => Last(n) = Last(run)
  BY <1>2, Saved
<1> HIDE DEF n
<1>6. /\ n # <<>> => Last(n).kind \notin ToolKinds \cup CallKinds
      /\ MaxTrim = 0 => /\ n = run /\ n # <<>> /\ Closed(n)
                        /\ \A e \in execd : \/ RememberedIn(Conversation(mem), e)
                                            \/ RememberedIn(n, e)
  BY <1>2, <1>3, <1>4, <1>5
<1> QED BY <1>1, <1>2, <1>3, <1>5, <1>6 DEF n

\* The session that SAVE spills and writes.
LEMMA SavedRestorable ==
  ASSUME TypeOK, Placed, SessionInv, TurnInv, RunInv, pc = "ran"
  PROVE  /\ IsSession(AfterTurn)
         /\ Restorable(AfterTurn, turn, kept, execd, doubtful)
         /\ Restorable(AfterTurn, turn, kept \cup {turn}, execd, doubtful)
         /\ MaxTrim = 0 => Conversation(AfterTurn) = Conversation(mem) \o run
<1> DEFINE n == SubSeq(run, trimmed + 1, Len(run))
           u == SavedSession
<1>1. /\ IsSession(mem) /\ Restorable(mem, turn, kept, execd, doubtful) /\ turn \in Nat
      /\ AtPrompt(mem) /\ n \in Seq(Message) /\ RunOf(n, turn) /\ CallsAnswered(n)
      /\ n # <<>> => Last(n).kind \notin ToolKinds \cup CallKinds
      /\ MaxTrim = 0 => /\ n = run /\ n # <<>> /\ Closed(n)
                        /\ \A e \in execd : \/ RememberedIn(Conversation(mem), e)
                                            \/ RememberedIn(n, e)
  BY Ran
<1>2. run \in Seq(Message) /\ trimmed \in 0..MaxTrim
  BY DEF TypeOK
<1>3. /\ IsSession(u) /\ u.messages = mem.messages \o n /\ u.msgEnd = Len(u.messages)
      /\ u.checkpoint = NoCheckpoint /\ ~u.pendingUserTurn
      /\ Conversation(u) = Conversation(mem) \o n
  <2>1. u = [SaveTurn(mem) EXCEPT !.pendingUserTurn = FALSE, !.checkpoint = NoCheckpoint]
    BY DEF SavedSession
  <2>2. FALSE \in BOOLEAN
    OBVIOUS
  <2> QED BY <1>1, <1>2, <2>1, <2>2, SaveTypes
<1>4. IsSession(AfterTurn) /\ AfterTurn = Spill(u)
  BY <1>1, <1>2, AfterTurnTypes
<1> HIDE DEF n, u
<1>5. ASSUME NEW k2 PROVE Restorable(u, turn, k2, execd, doubtful)
  <2>1. doubtful => doubtful
    OBVIOUS
  <2> QED BY <1>1, <1>3, <2>1, SaveKeeps
<1>6. ASSUME NEW k2
      PROVE  /\ Restorable(AfterTurn, turn, k2, execd, doubtful)
             /\ MaxTrim = 0 => Conversation(AfterTurn) = Conversation(u)
  <2>1. Restorable(u, turn, k2, execd, doubtful)
    BY <1>5
  <2> QED BY <1>1, <1>3, <1>4, <2>1, SpillKeeps
<1>7. /\ Restorable(AfterTurn, turn, kept, execd, doubtful)
      /\ Restorable(AfterTurn, turn, kept \cup {turn}, execd, doubtful)
      /\ MaxTrim = 0 => Conversation(AfterTurn) = Conversation(u)
  BY <1>6
<1> QED BY <1>1, <1>3, <1>4, <1>7

LEMMA SaveStep ==
  ASSUME TypeOK, Placed, SessionInv, TurnInv, RunInv, StateSave
  PROVE  SessionInv' /\ TurnInv' /\ RunInv'
<1> DEFINE u == AfterTurn
<1>0. pc = "ran" /\ UNCHANGED <<turn, iter, run, trimmed, execd, doubtful>>
  BY DEF StateSave
<1>2. PICK ok \in BOOLEAN : /\ Save(u, ok) /\ pc' = IF ok THEN "saved" ELSE "idle"
                            /\ kept' = IF ok THEN kept \cup {turn} ELSE kept
  BY DEF StateSave
<1>3. /\ Restorable(u, turn, kept, execd, doubtful)
      /\ Restorable(u, turn, kept \cup {turn}, execd, doubtful)
  BY <1>0, SavedRestorable
<1> HIDE DEF u
<1>4. CASE ok
  <2>1. mem' = u /\ disk' = u /\ kept' = kept \cup {turn} /\ pc' = "saved"
    BY <1>2, <1>4 DEF Save
  <2>2. SessionInv'
    BY <1>0, <1>3, <2>1 DEF SessionInv
  <2>3. TurnInv'
    <3>1. turn \in Nat
      BY <1>0, Ran
    <3>2. \A t \in kept \cup {turn} : t <= turn
      BY <3>1 DEF TurnInv
    <3> QED BY <1>0, <2>1, <3>2 DEF TurnInv, Started
  <2>4. RunInv'
    BY <2>1 DEF RunInv
  <2> QED BY <2>2, <2>3, <2>4
<1>5. CASE ~ok
  <2>1. pc' = "idle" /\ kept' = kept
    BY <1>2, <1>5
  <2>2. SessionInv'
    BY <1>0, <1>2, <1>3, <2>1, Writes
  <2> QED BY <1>0, <2>1, <2>2, GoesIdle
<1> QED BY <1>4, <1>5

LEMMA SaveRaisesStep ==
  ASSUME TypeOK, Placed, SessionInv, TurnInv, RunInv, StateSaveRaises
  PROVE  SessionInv' /\ TurnInv' /\ RunInv'
<1> DEFINE u == SaveTurn(mem)
           n == SubSeq(run, trimmed + 1, Len(run))
<1>0. /\ pc = "ran" /\ pc' = "idle" /\ mem' = u
      /\ UNCHANGED <<disk, turn, iter, run, trimmed, execd, kept>>
      /\ doubtful => doubtful'
      /\ mem.checkpoint # NoCheckpoint => doubtful' \/ IsSuffix(Restored(mem.checkpoint), run)
  BY DEF StateSaveRaises
<1>1. /\ IsSession(u) /\ u.messages = mem.messages \o n /\ u.msgEnd = Len(u.messages)
      /\ u.checkpoint = mem.checkpoint /\ Conversation(u) = Conversation(mem) \o n
  <2>1. run \in Seq(Message) /\ trimmed \in 0..MaxTrim /\ IsSession(mem) /\ TRUE \in BOOLEAN
    BY DEF TypeOK
  <2> QED BY <2>1, SaveTypes
<1> HIDE DEF u
<1>2. Restorable(u, turn, kept, execd, doubtful')
  <2>1. /\ IsSession(mem) /\ Restorable(mem, turn, kept, execd, doubtful) /\ turn \in Nat
        /\ AtPrompt(mem) /\ run \in Seq(Message) /\ turn \notin kept
        /\ mem.checkpoint # NoCheckpoint => mem.checkpoint.assistant.turn = turn
        /\ Last(run).kind \notin ToolKinds
        /\ n \in Seq(Message) /\ RunOf(n, turn) /\ CallsAnswered(n)
        /\ n # <<>> => Last(n) = Last(run)
        /\ n # <<>> => Last(n).kind \notin ToolKinds \cup CallKinds
        /\ MaxTrim = 0 => /\ n # <<>> /\ Closed(n)
                          /\ \A e \in execd : \/ RememberedIn(Conversation(mem), e)
                                              \/ RememberedIn(n, e)
    BY <1>0, Ran DEF TypeOK
  <2> HIDE DEF n
  <2>2. ASSUME mem.checkpoint # NoCheckpoint, ~doubtful', n # <<>>
        PROVE  IsSuffix(Restored(mem.checkpoint), n)
    <3>1. mem.checkpoint \in Checkpoint /\ CheckpointShape(mem.checkpoint)
      BY <2>1, <2>2, SessionFields DEF Restorable, MarksOf, IsSession
    <3>2. IsSuffix(Restored(mem.checkpoint), run)
      BY <1>0, <2>2
    <3> QED BY <2>1, <2>2, <3>1, <3>2, CheckpointEnds
  <2>3. /\ u.checkpoint = mem.checkpoint /\ turn \notin kept
        /\ mem.checkpoint # NoCheckpoint =>
             /\ mem.checkpoint.assistant.turn = turn
             /\ doubtful' \/ n = <<>> \/ IsSuffix(Restored(mem.checkpoint), n)
    BY <1>1, <2>1, <2>2
  <2>4. doubtful => doubtful'
    BY <1>0
  <2> QED BY <1>1, <2>1, <2>3, <2>4, SaveKeeps
<1>3. Restorable(disk, turn, kept, execd, doubtful')
  <2>1. IsSession(disk) /\ Restorable(disk, turn, kept, execd, doubtful) /\ turn \in Nat
    BY Bounds DEF TypeOK, SessionInv
  <2>2. turn <= turn
    BY <2>1
  <2> QED BY <1>0, <2>1, <2>2, LaterRestorable
<1>4. SessionInv'
  BY <1>0, <1>2, <1>3 DEF SessionInv
<1> QED BY <1>0, <1>4, GoesIdle

LEMMA CancelledStep ==
  ASSUME TypeOK, SessionInv, TurnInv, Cancelled
  PROVE  SessionInv' /\ TurnInv' /\ RunInv'
<1>0. pc' = "idle" /\ UNCHANGED <<turn, iter, run, trimmed, execd, kept, doubtful>>
  BY DEF Cancelled
<1>1. Restorable(RestoreCheckpoint(mem), turn, kept, execd, doubtful)
  <2>1. IsSession(mem) /\ turn \in Nat /\ Restorable(mem, turn, kept, execd, doubtful)
    BY Bounds DEF TypeOK, SessionInv
  <2> QED BY <2>1, RestoreKeeps
<1>2. UNCHANGED <<mem, disk>> \/ \E ok \in BOOLEAN : Save(RestoreCheckpoint(mem), ok)
  BY DEF Cancelled
<1>3. SessionInv'
  BY <1>0, <1>1, <1>2, Writes, Leaves
<1> QED BY <1>0, <1>3, GoesIdle

\* A warm summary changes neither the current messages nor the marks.
LEMMA DrainsStep ==
  ASSUME TypeOK, SessionInv, TurnInv, RunInv, WarmSummaryDrains
  PROVE  SessionInv' /\ TurnInv' /\ RunInv'
<1>0. UNCHANGED <<disk, pc, turn, iter, run, trimmed, execd, kept, doubtful>>
  BY DEF WarmSummaryDrains
<1>1. /\ Conversation(mem') = Conversation(mem)
      /\ mem'.messages = mem.messages /\ mem'.checkpoint = mem.checkpoint
      /\ mem'.msgEnd = mem.msgEnd /\ mem'.pendingUserTurn = mem.pendingUserTurn
  BY DrainTypes DEF TypeOK
<1>2. Restorable(mem', turn, kept, execd, doubtful)
  <2>1. Restorable(mem, turn, kept, execd, doubtful)
    BY DEF SessionInv
  <2>2. PendingOpen(mem') /\ MarksOf(mem', kept) /\ (doubtful \/ OnceIn(mem'))
    BY <1>1, <2>1 DEF Restorable, PendingOpen, MarksOf, OnceIn
  <2>3. MaxTrim = 0 => UsersAnswered(mem') /\ WorkIn(mem', execd)
    BY <1>1, <2>1 DEF Restorable, UsersAnswered, WorkIn
  <2> QED BY <1>1, <2>1, <2>2, <2>3 DEF Restorable
<1>3. SessionInv'
  BY <1>0, <1>2 DEF SessionInv
<1>4. Conversation(mem)' = Conversation(mem)
  BY <1>1 DEF Conversation
<1>5. TurnInv'
  <2>1. /\ Started' = Started
    BY <1>0 DEF Started
  <2>2. Started => AtPrompt(mem)'
    BY <1>0, <1>1, <1>4 DEF TurnInv, AtPrompt
  <2>3. pc = "restored" =>
          \A i \in DOMAIN Conversation(mem)' : Conversation(mem)'[i].turn < turn
    BY <1>4 DEF TurnInv
  <2>4. Started \/ pc = "restored" =>
          (MaxTrim = 0 => \A e \in execd : e[1] < turn => RememberedIn(Conversation(mem)', e))
    BY <1>4 DEF TurnInv
  <2> QED BY <1>0, <1>1, <2>1, <2>2, <2>3, <2>4 DEF TurnInv
<1>6. RunInv'
  BY <1>0, <1>1 DEF RunInv, Entry
<1> QED BY <1>3, <1>5, <1>6

LEMMA EndsStep ==
  ASSUME TypeOK, SessionInv, TurnInv, RunInv, WarmSummaryEnds
  PROVE  SessionInv' /\ TurnInv' /\ RunInv'
<1>0. /\ UNCHANGED <<pc, turn, iter, run, trimmed, execd, kept, doubtful>>
      /\ \E ok \in BOOLEAN : Save(mem, ok)
  BY DEF WarmSummaryEnds
<1>1. mem' = mem /\ (disk' = mem \/ disk' = disk)
  BY <1>0 DEF Save
<1>2. SessionInv'
  BY <1>0, <1>1 DEF SessionInv
<1>3. TurnInv'
  <2>1. Conversation(mem)' = Conversation(mem)
    BY <1>1 DEF Conversation
  <2> QED BY <1>0, <1>1, <2>1 DEF TurnInv, Started, AtPrompt
<1>4. RunInv'
  BY <1>0, <1>1 DEF RunInv, Entry
<1> QED BY <1>2, <1>3, <1>4

LEMMA TurnStep ==
  ASSUME TypeOK, Placed, SessionInv, TurnInv, RunInv, [Next]_vars
  PROVE  SessionInv' /\ TurnInv' /\ RunInv'
<1>1. CASE ToolsFailed \/ ModelFails
  <2>1. UNCHANGED <<mem, disk, turn, trimmed, execd, kept, doubtful>>
    BY <1>1 DEF ToolsFailed, ModelFails
  <2>2. CASE ToolsFailed
    <3>1. PICK k \in ResultCounts : ContinueOrReturn(Results(k) \o <<Entry("placeholder", 0)>>)
      BY <2>2 DEF ToolsFailed
    <3> DEFINE last == Results(k) \o <<Entry("placeholder", 0)>>
    <3>2. pc = "tools" /\ ContinueOrReturn(last)
      BY <2>2, <3>1 DEF ToolsFailed
    <3>3. last = IF pc = "model" THEN <<Entry("placeholder", 0)>>
                 ELSE Results(k) \o <<Entry("placeholder", 0)>>
      BY <3>2
    <3> HIDE DEF last
    <3> QED BY <2>1, <3>2, <3>3, ContinueStep
  <2>3. CASE ModelFails
    <3>1. pc = "model"
      BY <2>3 DEF ModelFails, ModelReplies
    <3>2. \/ run' = Injected(run) /\ pc' = "model" /\ iter' = iter + 1
          \/ ContinueOrReturn(<<Entry("placeholder", 0)>>)
      BY <2>3 DEF ModelFails
    <3>3. CASE ContinueOrReturn(<<Entry("placeholder", 0)>>)
      <4> DEFINE last == <<Entry("placeholder", 0)>>
      <4>1. /\ last = IF pc = "model" THEN <<Entry("placeholder", 0)>>
                      ELSE Results(0) \o <<Entry("placeholder", 0)>>
            /\ ContinueOrReturn(last) /\ (pc = "tools" => 0 \in ResultCounts)
        BY <3>1, <3>3
      <4> HIDE DEF last
      <4> QED BY <2>1, <3>1, <4>1, ContinueStep
    <3> QED BY <2>1, <3>1, <3>2, <3>3, InjectStep
  <2> QED BY <1>1, <2>2, <2>3
<1>2. CASE RunRaises \/ StateRespond
  <2>1. pc' = "idle" /\ UNCHANGED <<mem, disk, turn, kept, execd, doubtful>>
    BY <1>2 DEF RunRaises, StateRespond
  <2> QED BY <2>1, GoesIdle, Leaves
<1>3. CASE CrashAndRestart
  <2>1. /\ mem' = disk /\ disk' = disk /\ pc' = "idle"
        /\ UNCHANGED <<turn, kept, execd, doubtful>>
    BY <1>3 DEF CrashAndRestart
  <2>2. SessionInv'
    BY <2>1 DEF SessionInv
  <2> QED BY <2>1, <2>2, GoesIdle
<1>4. CASE UNCHANGED vars
  <2>1. UNCHANGED <<mem, disk, pc, turn, iter, run, execd, kept, doubtful>>
    BY <1>4 DEF vars
  <2>2. Conversation(mem)' = Conversation(mem)
    BY <2>1 DEF Conversation
  <2>3. SessionInv' /\ RunInv'
    BY <2>1 DEF SessionInv, RunInv, Entry
  <2>4. TurnInv'
    BY <2>1, <2>2 DEF TurnInv, Started, AtPrompt
  <2> QED BY <2>3, <2>4
<1>5. CASE \E kind \in CallKinds, n \in 1..MaxCalls : ModelCalls(kind, n)
  BY <1>5, ModelCallsStep
<1> QED BY <1>1, <1>2, <1>3, <1>4, <1>5, RestoreStep, BuildStep, ExecuteStep,
           ToolsCompletedStep, ModelAnswersStep, TruncatedStep, OutOfIterationsStep,
           SaveStep, SaveRaisesStep, CancelledStep, DrainsStep, EndsStep
        DEF Next, RunStep

\* What becomes of the file: the conversation it holds only gets longer.
LEMMA FileStep ==
  ASSUME TypeOK, Placed, SessionInv, TurnInv, RunInv, FileIsPrefix, MaxTrim = 0, [Next]_vars
  PROVE  /\ Conversation(disk) \in Seq(Message) /\ Conversation(disk') \in Seq(Message)
         /\ IsPrefix(Conversation(disk), Conversation(disk'))
         /\ FileIsPrefix'
<1> DEFINE c == Conversation(mem)
           d == Conversation(disk)
           c2 == Conversation(mem')
           d2 == Conversation(disk')
<1>1. Kept
  BY KeptStep
<1>2. c \in Seq(Message) /\ d \in Seq(Message) /\ c2 \in Seq(Message) /\ d2 \in Seq(Message)
  BY <1>1, SessionFields DEF TypeOK, Kept, IsSession
<1>3. FileIsPrefix' = IsPrefix(d2, c2)
  BY DEF FileIsPrefix, Conversation
<1>4. IsPrefix(d, c)
  BY DEF FileIsPrefix
<1>5. CASE mem' = disk /\ disk' = disk
  <2>1. c2 = d /\ d2 = d
    BY <1>5
  <2> HIDE DEF c, d, c2, d2
  <2>2. IsPrefix(d, d)
    BY <1>2, PrefixSame
  <2> QED BY <1>2, <1>3, <2>1, <2>2 DEF d, d2
<1>6. CASE ~(mem' = disk /\ disk' = disk)
  <2>1. disk' \in {disk, mem'} /\ (StateSave \/ IsPrefix(c, c2))
    BY <1>1, <1>6 DEF Kept
  <2>2. IsPrefix(c, c2)
    <3>1. CASE StateSave
      <4>1. /\ pc = "ran" /\ mem' = AfterTurn
        BY <3>1 DEF StateSave, Save
      <4>2. c2 = c \o run /\ run \in Seq(Message)
        BY <4>1, SavedRestorable DEF TypeOK
      <4> HIDE DEF c, c2
      <4> QED BY <1>2, <4>2, PrefixConcat
    <3> QED BY <2>1, <3>1
  <2>3. d2 = d \/ d2 = c2
    BY <2>1
  <2> HIDE DEF c, d, c2, d2
  <2>4. IsPrefix(d, c2)
    BY <1>2, <1>4, <2>2, PrefixTrans
  <2>5. IsPrefix(d, d) /\ IsPrefix(c2, c2)
    BY <1>2, PrefixSame
  <2>6. IsPrefix(d, d2) /\ IsPrefix(d2, c2)
    BY <2>3, <2>4, <2>5
  <2> QED BY <1>2, <1>3, <2>6 DEF d, d2
<1> QED BY <1>5, <1>6

LEMMA DurableStep ==
  ASSUME TypeOK, Placed, FileIsPrefix, SessionInv, TurnInv, RunInv, SavedTurnDurable,
         MaxTrim = 0, [Next]_vars
  PROVE  SavedTurnDurable'
<1> DEFINE x == Conversation(disk)
           y == Conversation(disk')
<1>0. x \in Seq(Message) /\ y \in Seq(Message) /\ IsPrefix(x, y)
  BY FileStep
<1>a. SavedTurnDurable' <=> \A t \in kept' : \E i \in DOMAIN y :
                              y[i].turn = t /\ y[i].kind \in {"answer", "placeholder"}
  BY DEF SavedTurnDurable, Conversation
<1>b. \A t \in kept : \E i \in DOMAIN x :
        x[i].turn = t /\ x[i].kind \in {"answer", "placeholder"}
  BY DEF SavedTurnDurable
<1>1. ASSUME NEW i \in DOMAIN x
      PROVE  i \in DOMAIN y /\ y[i] = x[i]
  <2> HIDE DEF x, y
  <2>1. Len(x) <= Len(y) /\ \A j \in 1..Len(x) : x[j] = y[j]
    BY <1>0, PrefixDef
  <2> QED BY <1>0, <2>1
<1>2. \A t \in kept : \E i \in DOMAIN y :
        y[i].turn = t /\ y[i].kind \in {"answer", "placeholder"}
  <2> HIDE DEF x, y
  <2> QED BY <1>b, <1>1
<1>3. CASE kept' = kept
  BY <1>2, <1>3, <1>a
<1>4. CASE kept' # kept
  <2>1. StateSave
    BY <1>4 DEF Next, RunStep, vars, StateRestore, StateBuild, ModelCalls, ExecuteTool,
                ToolsCompleted, ToolsFailed, ModelAnswers, ModelFails, ModelTruncatedOrEmpty,
                OutOfIterations, StateSaveRaises, StateRespond, RunRaises, Cancelled,
                CrashAndRestart, WarmSummaryDrains, WarmSummaryEnds
  <2>2. pc = "ran" /\ kept' = kept \cup {turn} /\ disk' = AfterTurn
    BY <1>4, <2>1 DEF StateSave, Save
  <2> DEFINE c == Conversation(mem)
  <2>3. y = c \o run /\ c \in Seq(Message) /\ run \in Seq(Message)
    BY <2>2, SavedRestorable, SessionFields DEF TypeOK, IsSession
  <2>4. PICK i \in DOMAIN run : run[i].kind \in {"answer", "placeholder"}
    BY <2>2, Ran
  <2>5. run[i].turn = turn
    BY <2>2, Ran DEF RunOf
  <2> HIDE DEF c, x, y
  <2>6. Len(c) + i \in DOMAIN y /\ y[Len(c) + i] = run[i]
    <3>1. /\ DOMAIN y = 1..(Len(c) + Len(run)) /\ Len(c) \in Nat
          /\ Len(run) \in Nat /\ DOMAIN run = 1..Len(run)
          /\ \A j \in 1..Len(run) : y[Len(c) + j] = run[j]
      BY <2>3, Joined
    <3> QED BY <3>1
  <2> QED BY <1>2, <1>a, <2>2, <2>4, <2>5, <2>6
<1> QED BY <1>3, <1>4

LEMMA InitTurns ==
  ASSUME Init
  PROVE  SessionInv /\ TurnInv /\ RunInv /\ SavedTurnDurable
<1>1. /\ mem.messages = <<>> /\ mem.checkpoint = NoCheckpoint /\ mem.pendingUserTurn = FALSE
      /\ mem.msgEnd = 0 /\ disk = mem /\ execd = {} /\ kept = {} /\ pc = "idle"
      /\ mem.drained = <<>> /\ mem.warm = <<>>
  BY DEF Init, EmptySession
<1>2. DOMAIN mem.messages = {} /\ mem.msgEnd + 1..Len(mem.messages) = {}
  BY <1>1
<1>3. DOMAIN Conversation(mem) = {}
  BY <1>1 DEF Conversation
<1>4. OnceIn(mem) /\ PendingOpen(mem) /\ MarksOf(mem, kept) /\ WorkIn(mem, execd)
  BY <1>1, <1>2, <1>3 DEF OnceIn, Distinct, PendingOpen, MarksOf, WorkIn
<1>5. UsersAnswered(mem) /\ StartsWithUser(mem.messages)
  BY <1>1, <1>2 DEF UsersAnswered, StartsWithUser
<1>6. Closed(mem.messages) /\ CallsAnswered(mem.messages)
  BY <1>1, ClosedEmpty, ClosedAnswered
<1>7. Restorable(mem, turn, kept, execd, doubtful)
  BY <1>3, <1>4, <1>5, <1>6 DEF Restorable
<1> QED BY <1>1, <1>7 DEF SessionInv, TurnInv, RunInv, Started, SavedTurnDurable

LEMMA TurnInvariant == Spec => []TurnsInv
<1>1. Init => TurnsInv
  BY InitTypes, InitTurns DEF TurnsInv
<1>2. TurnsInv /\ [Next]_vars => TurnsInv'
  BY TypeStep, FileStep, TurnStep, DurableStep DEF TurnsInv
<1> QED BY <1>1, <1>2, PTL DEF Spec

----------------------------------------------------------------------------
(* Theorems: whatever the budget trims off the prompt *)

\* No message is in the conversation twice, as long as no SAVE raised for a turn
\* that went on behind its checkpoint: a session ends with what its checkpoint
\* stands for, or it holds of that turn the user message only, and the spill
\* moves messages instead of copying them.  What SAVE skips of a turn whose
\* prompt was trimmed does not matter: a checkpoint that ends the run is its
\* final answer.
THEOREM MessagesNotTwice == Spec => []NothingTwice
<1>1. TurnsInv => NothingTwice
  BY DEF TurnsInv, SessionInv, Restorable, OnceIn, Distinct, NothingTwice
<1> QED BY <1>1, TurnInvariant, PTL

\* At the start of a turn no tool call of a reply that ran its tools one by one
\* lacks a result: restore_checkpoint appends a checkpoint as a whole or finds it
\* whole at the end, what SAVE skips of a turn comes before what it saves, and
\* the spill cuts in front of a user message.  (A parallel batch may lose
\* results.)
THEOREM CallsAreAnswered == Spec => []CallsHaveResults
<1>1. TurnsInv => CallsHaveResults
  BY DEF TurnsInv, SessionInv, Restorable, CallsHaveResults
<1> QED BY <1>1, TurnInvariant, PTL

\* A checkpoint, cached or on disk, belongs to the last user message of its
\* session: what is restored is never put behind a later turn.
THEOREM CheckpointsInPlace == Spec => []CheckpointOfLastTurn
<1>1. TurnsInv => CheckpointOfLastTurn
  BY DEF TurnsInv, SessionInv, Restorable, MarksOf, LastUserOf, CheckpointOfLastTurn
<1> QED BY <1>1, TurnInvariant, PTL

\* Only messages of interrupted turns are missing from a prompt: SAVE and the
\* early user message move the episode's end, restoring does not, and the spill
\* moves it back by no more than what it takes away.
THEOREM PromptsHaveSavedTurns == Spec => []PromptHasSavedTurns
<1>1. TurnsInv => PromptHasSavedTurns
  BY DEF TurnsInv, SessionInv, Restorable, MarksOf, PromptHasSavedTurns
<1> QED BY <1>1, TurnInvariant, PTL

----------------------------------------------------------------------------
(* Theorems: prompts that the budget does not trim *)

\* What the session file holds, as current messages, in the warm buffer or
\* handed to a warm summary, is only ever added to: no crash, restore,
\* cancellation, spill or save takes a message away, changes it or reorders it.
THEOREM FileOnlyGrows ==
  ASSUME MaxTrim = 0
  PROVE  Spec => PersistedNeverLost
<1>1. TurnsInv /\ [Next]_vars => IsPrefix(Conversation(disk), Conversation(disk'))
  BY FileStep DEF TurnsInv
<1>2. TurnsInv /\ [Next]_vars => [IsPrefix(Conversation(disk), Conversation(disk'))]_vars
  BY <1>1
<1> QED BY <1>2, TurnInvariant, PTL DEF Spec, PersistedNeverLost

\* Whatever interrupted the turns before, and wherever the spill cut, the
\* history that a new turn starts from pairs tool calls and results: each result
\* stands behind its call, and only calls of a parallel batch may go without.
THEOREM HistoriesClosed ==
  ASSUME MaxTrim = 0
  PROVE  Spec => []HistoryClosed
<1>1. TurnsInv => HistoryClosed
  BY DEF TurnsInv, SessionInv, Restorable, HistoryClosed
<1> QED BY <1>1, TurnInvariant, PTL

\* At the start of a turn every user message has been answered or closed by
\* restore_pending_user_turn, and a checkpoint, cached or on disk, belongs to
\* the last user message of its session.
THEOREM InterruptionsClosed ==
  ASSUME MaxTrim = 0
  PROVE  Spec => []InterruptedTurnClosed
<1>1. ASSUME TurnsInv PROVE TurnsClosed
  <2> SUFFICES ASSUME pc = "restored", NEW i \in DOMAIN mem.messages,
                      mem.messages[i].kind = "user"
               PROVE  i < Len(mem.messages) /\ mem.messages[i + 1].kind # "user"
    BY DEF TurnsClosed
  <2>1. UsersAnswered(mem) /\ ~mem.pendingUserTurn /\ mem.messages \in Seq(Message)
    BY <1>1, SessionFields
       DEF TurnsInv, SessionInv, Restorable, TurnInv, TypeOK, IsSession
  <2>2. i # Len(mem.messages) /\ mem.messages[i + 1].kind # "user"
    BY <2>1 DEF UsersAnswered
  <2>3. i \in 1..Len(mem.messages) /\ Len(mem.messages) \in Nat
    BY <2>1
  <2> QED BY <2>2, <2>3
<1>2. TurnsInv => TurnsClosed
  BY <1>1
<1>3. TurnsClosed /\ CheckpointOfLastTurn => InterruptedTurnClosed
  BY DEF InterruptedTurnClosed
<1> QED BY <1>2, <1>3, TurnInvariant, CheckpointsInPlace, PTL

\* A tool call that was executed is in the conversation that the next turn finds,
\* or a later reply of its turn is; a turn that was saved keeps its closing
\* message in the file, until a warm summary takes it from there; and only
\* messages of interrupted turns are missing from a prompt.
THEOREM WorkKept ==
  ASSUME MaxTrim = 0
  PROVE  Spec => []WorkRemembered
<1>1. ASSUME TurnsInv PROVE LastCallsRemembered
  <2> SUFFICES ASSUME pc = "restored", NEW e \in execd
               PROVE  RememberedIn(Conversation(mem), e)
    BY DEF LastCallsRemembered, RememberedIn, Remembers
  <2>1. WorkIn(mem, execd) /\ mem.checkpoint = NoCheckpoint
    BY <1>1 DEF TurnsInv, SessionInv, Restorable, TurnInv
  <2> QED BY <2>1 DEF WorkIn
<1>2. TurnsInv => LastCallsRemembered /\ SavedTurnDurable
  BY <1>1 DEF TurnsInv
<1>3. LastCallsRemembered /\ SavedTurnDurable /\ PromptHasSavedTurns => WorkRemembered
  BY DEF WorkRemembered
<1> QED BY <1>2, <1>3, TurnInvariant, PromptsHaveSavedTurns, PTL
=============================================================================
