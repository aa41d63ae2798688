------------------------- MODULE CronServiceProofs -------------------------
(***************************************************************************)
(* Proofs about CronService: what jobs.json, the action log and the timer  *)
(* guarantee together, for any jobs and schedules, however calls, ticks,   *)
(* crashes and another process interleave.                                 *)
(***************************************************************************)
EXTENDS CronService, Integers, FiniteSetTheorems, SequenceTheorems, TLAPS

----------------------------------------------------------------------------
(* The inductive invariant *)

\* A record with which a job would run again for a due time it completed.
Spent(j, r) == r.enabled /\ <<j, r.next>> \in runs

Mentions(es, j) == \E i \in 1..Len(es) : es[i].job = j

\* Who may be removed, and through which line of the log.
RemovalInv ==
    /\ \A i \in 1..Len(log) : log[i].del => log[i].job \in removed
    /\ \A i \in 1..Len(ext) : ext[i].del => ext[i].job \notin SystemJobs
    /\ removed \cap SystemJobs = {}

\* The timer belongs to a running service.  What a tick has to complete, and
\* what completed, was due.
TickInv ==
    /\ timer > 0 => running
    /\ \A i \in Ticks : \A r \in has[i] : r[2] \in 1..now
    /\ \A r \in runs : r[2] \in 1..now

\* Ticks that execute together have executed beside one another: _timer_active
\* is reset and a store replaced only under such ticks.
BesideInv ==
    /\ \A i, k \in Executing : i # k => JobsOf(i) \subseteq beside
    /\ \A i \in Executing : ~active \/ i \in detached => JobsOf(i) \subseteq beside

\* A job that is there: a line of the log brings it, or the file has it and the
\* tick under way, which will save its own store, has it too.
There(j) ==
    \/ Mentions(log, j)
    \/ j \in DOMAIN disk /\ (Executing # {} => j \in DOMAIN mem)

RunOnce(j) == j \in DeleteAfter /\ \E r \in runs : r[1] = j

KeptInv == \A j \in added \ removed : There(j) \/ RunOnce(j) \/ torn

\* A job that is gone: nobody is about to append it, and a tick that still has
\* it will meet the line of the log that removes it.
Gone(j) ==
    /\ \A i \in 1..Len(ext) : ext[i].job = j => ext[i].del
    /\ j \notin DOMAIN Loaded
    /\ Executing # {} /\ j \in DOMAIN mem => Mentions(log, j)

GoneInv == \A j \in removed \ stale : Gone(j) \/ torn

\* Completed due times are nowhere: not in a line of the log or one about to be
\* appended, not in the store of a tick, not in the file of a running service
\* that will load it next, and not among what a tick has to complete.  (In a
\* tick, and after a stop or a crash in one, the file is behind: start computes
\* the due times anew.  A call that cancels a tick has saved its store.)
DueTimes(j) ==
    /\ \A i \in 1..Len(log) : log[i].job = j /\ ~log[i].del => ~Spent(j, log[i].rec)
    /\ \A i \in 1..Len(ext) : ext[i].job = j /\ ~ext[i].del => ~Spent(j, ext[i].rec)
    /\ running /\ Executing # {} /\ j \in DOMAIN mem => ~Spent(j, mem[j])
    /\ running /\ (~active \/ cancelled # {}) /\ j \in DOMAIN disk => ~Spent(j, disk[j])
    /\ \A i \in Ticks : \A r \in has[i] : r[1] = j => r \notin runs

Excused == stale \cup beside

OnceInv == again \subseteq Excused /\ \A j \in Jobs \ Excused : DueTimes(j)

CronInv ==
    TypeOK /\ RemovalInv /\ TickInv /\ BesideInv /\ KeptInv /\ GoneInv /\ OnceInv

----------------------------------------------------------------------------
(***************************************************************************)
(* The well-ordering of the naturals.  It stands in for induction over     *)
(* data: a claim about every n holds when no n is the least one to         *)
(* violate it.                                                             *)
(***************************************************************************)

\* A non-empty set of naturals has a least element: the initial segments of
\* its elements are finite sets, and the strict inclusion of finite sets is
\* well-founded.
LEMMA LeastNat ==
  ASSUME NEW T \in SUBSET Nat, T # {}
  PROVE  \E m \in T : \A n \in T : m <= n
<1> DEFINE U == {1..n : n \in T}
           R == StrictSubsetOrdering(Nat)
<1>1. IsWellFoundedOn(R, FiniteSubsetsOf(Nat))
  BY FS_StrictSubsetOrderingWellFounded
<1>2. \A n \in T : 1..n \in FiniteSubsetsOf(Nat)
  BY FS_Interval DEF FiniteSubsetsOf
<1>3. U \subseteq FiniteSubsetsOf(Nat) /\ U # {}
  BY <1>2
<1>4. \E x \in U : \A y \in U : ~ (<<y, x>> \in R)
  <2> HIDE DEF U, R
  <2> QED BY <1>1, <1>3, WFMin
<1>5. PICK m \in T : \A y \in U : ~ (<<y, 1..m>> \in R)
  BY <1>4
<1>6. ASSUME NEW n \in T, n < m
      PROVE  FALSE
  <2>1. 1..n \subseteq 1..m /\ m \in 1..m /\ m \notin 1..n
    BY <1>6
  <2>2. <<1..n, 1..m>> \in R
    BY <2>1 DEF StrictSubsetOrdering
  <2> QED BY <2>2, <1>5
<1> QED BY <1>6

\* A set that holds zero, and with every natural its successor, holds every
\* natural.
LEMMA EveryNat ==
  ASSUME NEW P \in SUBSET Nat, 0 \in P, \A m \in P : m + 1 \in P
  PROVE  P = Nat
<1> SUFFICES ASSUME Nat \ P # {} PROVE FALSE
  OBVIOUS
<1>1. PICK m \in Nat \ P : \A n \in Nat \ P : m <= n
  <2>1. Nat \ P \in SUBSET Nat
    OBVIOUS
  <2> QED BY <2>1, LeastNat
<1>2. m # 0 /\ m - 1 \in Nat /\ m - 1 \notin Nat \ P
  BY <1>1
<1>3. (m - 1) + 1 \in P
  BY <1>2
<1> QED BY <1>3

----------------------------------------------------------------------------
(* The merge of the log into the store *)

\* The line of the log that decides about job j, among the first n.
Decides(es, n, j, i) ==
    /\ i \in 1..n /\ es[i].job = j
    /\ \A k \in 1..n : k > i => es[k].job # j

\* Store r is store s after the first n lines, as far as job j is concerned.
Follows(s, es, n, j, r) ==
    /\ (\A i \in 1..n : es[i].job # j) =>
         (j \in DOMAIN r <=> j \in DOMAIN s) /\ (j \in DOMAIN s => r[j] = s[j])
    /\ \A i \in 1..n : Decides(es, n, j, i) =>
         (j \in DOMAIN r <=> ~es[i].del) /\ (~es[i].del => r[j] = es[i].rec)

LEMMA WithFacts ==
  ASSUME NEW s, NEW j, NEW r
  PROVE  /\ DOMAIN With(s, j, r) = DOMAIN s \cup {j}
         /\ With(s, j, r)[j] = r
         /\ \A k \in DOMAIN s : k # j => With(s, j, r)[k] = s[k]
         /\ DOMAIN Without(s, j) = DOMAIN s \ {j}
         /\ \A k \in DOMAIN s : k # j => Without(s, j)[k] = s[k]
BY DEF With, Without

LEMMA StoreFacts ==
  ASSUME NEW s, IsStore(s), NEW j \in Jobs, NEW r \in Job
  PROVE  IsStore(With(s, j, r)) /\ IsStore(Without(s, j))
<1>1. IsStore(With(s, j, r))
  BY DEF IsStore, With
<1>2. IsStore(Without(s, j))
  BY DEF IsStore, Without
<1> QED BY <1>1, <1>2

LEMMA AppliedFacts ==
  ASSUME NEW s, IsStore(s), NEW a \in Entry
  PROVE  IsStore(Applied(s, a))
<1>1. a.job \in Jobs /\ a.rec \in Job
  BY DEF Entry
<1> QED BY <1>1, StoreFacts DEF Applied

Merged(s, es, f, n) == IF n = 0 THEN s ELSE Applied(f[n - 1], es[n])

\* The recursion along the log defines a function.
LEMMA ReplayExists ==
  ASSUME NEW s, NEW es, Len(es) \in Nat
  PROVE  \E f : /\ f = [n \in 0..Len(es) |-> Merged(s, es, f, n)]
                /\ Replay(s, es) = f[Len(es)]
<1> DEFINE P == {m \in Nat : \E f : f = [n \in 0..m |-> Merged(s, es, f, n)]}
<1>1. 0 \in P
  <2> DEFINE f == [n \in 0..0 |-> s]
  <2>1. f = [n \in 0..0 |-> Merged(s, es, f, n)]
    BY DEF Merged
  <2> QED BY <2>1
<1>2. ASSUME NEW m \in P PROVE m + 1 \in P
  <2>1. PICK f : f = [n \in 0..m |-> Merged(s, es, f, n)]
    BY <1>2
  <2> DEFINE g == [n \in 0..(m + 1) |-> IF n = m + 1 THEN Merged(s, es, f, m + 1) ELSE f[n]]
  <2>2. ASSUME NEW n \in 0..(m + 1) PROVE g[n] = Merged(s, es, g, n)
    <3>1. n # 0 => g[n - 1] = f[n - 1]
      OBVIOUS
    <3>2. Merged(s, es, g, n) = Merged(s, es, f, n)
      BY <3>1 DEF Merged
    <3>3. n # m + 1 => f[n] = Merged(s, es, f, n)
      BY <2>1
    <3> QED BY <3>2, <3>3
  <2>3. g = [n \in 0..(m + 1) |-> Merged(s, es, g, n)]
    BY <2>2
  <2> HIDE DEF g
  <2>4. \E h : h = [n \in 0..(m + 1) |-> Merged(s, es, h, n)]
    BY <2>3
  <2> QED BY <2>4
<1>3. P = Nat
  <2>1. P \in SUBSET Nat
    OBVIOUS
  <2> HIDE DEF P
  <2> QED BY <2>1, <1>1, <1>2, EveryNat
<1>4. \E f : f = [n \in 0..Len(es) |-> Merged(s, es, f, n)]
  BY <1>3
<1> DEFINE F == CHOOSE h : h = [n \in 0..Len(es) |-> Merged(s, es, h, n)]
<1>5. F = [n \in 0..Len(es) |-> Merged(s, es, F, n)]
  BY <1>4
<1>6. Replay(s, es) = F[Len(es)]
  BY DEF Replay, Merged
<1> QED BY <1>5, <1>6

\* One more line.
LEMMA FollowsStep ==
  ASSUME NEW s, NEW es \in Seq(Entry), NEW n \in 1..Len(es), NEW j, NEW r,
         Follows(s, es, n - 1, j, r)
  PROVE  Follows(s, es, n, j, Applied(r, es[n]))
<1>1. /\ n \in Nat /\ n - 1 \in Nat /\ Len(es) \in Nat
      /\ \A i \in 1..n : i \in 1..(n - 1) \/ i = n
      /\ \A i \in 1..(n - 1) : i \in 1..n /\ i < n
  OBVIOUS
<1>a. es[n] \in Entry
  OBVIOUS
<1>2. PICK a : a = es[n] /\ a.del \in BOOLEAN
  BY <1>a DEF Entry
<1>3. PICK t : t = Applied(r, a)
  OBVIOUS
<1>4. CASE a.job = j
  <2>1. (j \in DOMAIN t <=> ~a.del) /\ (~a.del => t[j] = a.rec)
    BY <1>2, <1>3, <1>4 DEF Applied, With, Without
  <2>2. \A i \in 1..n : Decides(es, n, j, i) => i = n
    BY <1>1, <1>2, <1>4 DEF Decides
  <2>3. n \in 1..n
    BY <1>1
  <2> QED BY <1>2, <1>3, <1>4, <2>1, <2>2, <2>3 DEF Follows
<1>5. CASE a.job # j
  <2>1. (j \in DOMAIN t <=> j \in DOMAIN r) /\ (j \in DOMAIN r => t[j] = r[j])
    BY <1>2, <1>3, <1>5 DEF Applied, With, Without
  <2>2. \A i \in 1..n : Decides(es, n, j, i) => i \in 1..(n - 1) /\ Decides(es, n - 1, j, i)
    BY <1>1, <1>2, <1>5 DEF Decides
  <2>3. (\A i \in 1..n : es[i].job # j) => (\A i \in 1..(n - 1) : es[i].job # j)
    BY <1>1
  <2> QED BY <1>2, <1>3, <2>1, <2>2, <2>3 DEF Follows
<1> QED BY <1>4, <1>5

\* What the merged store has of a job is what the last line about it says, and
\* what the file has if there is none.
LEMMA ReplayFacts ==
  ASSUME NEW s, IsStore(s), NEW es \in Seq(Entry)
  PROVE  /\ IsStore(Replay(s, es))
         /\ \A j : Follows(s, es, Len(es), j, Replay(s, es))
<1>1. Len(es) \in Nat
  OBVIOUS
<1>2. PICK f : f = [n \in 0..Len(es) |-> Merged(s, es, f, n)] /\ Replay(s, es) = f[Len(es)]
  BY <1>1, ReplayExists
<1> DEFINE Good(n) == IsStore(f[n]) /\ \A j : Follows(s, es, n, j, f[n])
           P == {n \in Nat : n <= Len(es) => Good(n)}
<1>3. 0 \in P
  <2>1. f[0] = s
    BY <1>1, <1>2 DEF Merged
  <2> QED BY <2>1 DEF Follows
<1>4. ASSUME NEW m \in P PROVE m + 1 \in P
  <2> SUFFICES ASSUME m + 1 <= Len(es) PROVE Good(m + 1)
    BY <1>1
  <2>1. m + 1 \in 1..Len(es) /\ (m + 1) - 1 = m /\ Good(m)
    BY <1>1, <1>4
  <2>2. f[m + 1] = Applied(f[m], es[m + 1]) /\ es[m + 1] \in Entry
    <3>1. m + 1 \in 0..Len(es) /\ m + 1 # 0 /\ es[m + 1] \in Entry
      BY <1>1, <2>1
    <3>2. f[m + 1] = Merged(s, es, f, m + 1)
      BY <1>2, <3>1
    <3>3. Merged(s, es, f, m + 1) = Applied(f[(m + 1) - 1], es[m + 1])
      BY <3>1 DEF Merged
    <3> QED BY <2>1, <3>1, <3>2, <3>3
  <2>3. IsStore(f[m + 1])
    BY <2>1, <2>2, AppliedFacts
  <2>4. \A j : Follows(s, es, m + 1, j, f[m + 1])
    BY <2>1, <2>2, FollowsStep
  <2> QED BY <2>3, <2>4
<1>5. P = Nat
  <2>1. P \in SUBSET Nat
    OBVIOUS
  <2> HIDE DEF P
  <2> QED BY <2>1, <1>3, <1>4, EveryNat
<1>6. Good(Len(es))
  BY <1>1, <1>5
<1> QED BY <1>2, <1>6

\* A job the log mentions has a line that decides: the last one about it.
LEMMA DecidingLine ==
  ASSUME NEW es \in Seq(Entry), NEW j, Mentions(es, j)
  PROVE  \E i \in 1..Len(es) : Decides(es, Len(es), j, i)
<1>1. Len(es) \in Nat
  OBVIOUS
<1> DEFINE T == {n \in Nat : n <= Len(es) /\ \A k \in 1..Len(es) : k > n => es[k].job # j}
<1>2. Len(es) \in T
  BY <1>1
<1>3. PICK m \in T : \A n \in T : m <= n
  <2>1. T \in SUBSET Nat /\ T # {}
    BY <1>2
  <2> HIDE DEF T
  <2> QED BY <2>1, LeastNat
<1>4. m # 0
  BY <1>1, <1>3 DEF Mentions
<1>5. m - 1 \notin T /\ m - 1 \in Nat
  BY <1>3, <1>4
<1>6. PICK k \in 1..Len(es) : k > m - 1 /\ es[k].job = j
  BY <1>1, <1>3, <1>5
<1>7. k = m
  BY <1>1, <1>3, <1>6
<1> QED BY <1>1, <1>3, <1>6, <1>7 DEF Decides

\* A job that the log does not mention is as in the file.
LEMMA Unmentioned ==
  ASSUME NEW s, IsStore(s), NEW es \in Seq(Entry), NEW j, ~Mentions(es, j)
  PROVE  /\ j \in DOMAIN Replay(s, es) <=> j \in DOMAIN s
         /\ j \in DOMAIN s => Replay(s, es)[j] = s[j]
<1>1. \A i \in 1..Len(es) : es[i].job # j
  BY DEF Mentions
<1> QED BY <1>1, ReplayFacts DEF Follows

\* A job that the log mentions is there, or not, whatever the file has.
LEMMA Mentioned ==
  ASSUME NEW s, IsStore(s), NEW es \in Seq(Entry), NEW j, Mentions(es, j)
  PROVE  \E i \in 1..Len(es) :
            /\ es[i].job = j
            /\ j \in DOMAIN Replay(s, es) <=> ~es[i].del
            /\ ~es[i].del => Replay(s, es)[j] = es[i].rec
            /\ \A t : IsStore(t) => (j \in DOMAIN Replay(t, es) <=> ~es[i].del)
<1>1. PICK i \in 1..Len(es) : Decides(es, Len(es), j, i)
  BY DecidingLine
<1>2. \A t : IsStore(t) => Follows(t, es, Len(es), j, Replay(t, es))
  BY ReplayFacts
<1>3. \A t : IsStore(t) => (j \in DOMAIN Replay(t, es) <=> ~es[i].del)
  BY <1>1, <1>2 DEF Follows
<1>4. ~es[i].del => Replay(s, es)[j] = es[i].rec
  BY <1>1, <1>2 DEF Follows
<1>5. es[i].job = j
  BY <1>1 DEF Decides
<1> QED BY <1>3, <1>4, <1>5

\* The log decides the same on any store; merging into a store that has it
\* merged already changes nothing.
LEMMA MentionedSame ==
  ASSUME NEW s, NEW t, IsStore(s), IsStore(t), NEW es \in Seq(Entry), NEW j, Mentions(es, j)
  PROVE  j \in DOMAIN Replay(s, es) <=> j \in DOMAIN Replay(t, es)
BY Mentioned

\* A record of the merged store comes from the file or from a line.
LEMMA ReplayFrom ==
  ASSUME NEW s, IsStore(s), NEW es \in Seq(Entry), NEW j \in DOMAIN Replay(s, es)
  PROVE  \/ ~Mentions(es, j) /\ j \in DOMAIN s /\ Replay(s, es)[j] = s[j]
         \/ \E i \in 1..Len(es) : es[i].job = j /\ ~es[i].del /\ Replay(s, es)[j] = es[i].rec
<1>1. CASE Mentions(es, j)
  <2>1. PICK i \in 1..Len(es) :
            /\ es[i].job = j
            /\ j \in DOMAIN Replay(s, es) <=> ~es[i].del
            /\ ~es[i].del => Replay(s, es)[j] = es[i].rec
    BY <1>1, Mentioned
  <2> QED BY <2>1
<1>2. CASE ~Mentions(es, j)
  BY <1>2, Unmentioned
<1> QED BY <1>1, <1>2

\* A job whose lines are all changes is there when the log or the file has it.
LEMMA OnlyChanges ==
  ASSUME NEW s, IsStore(s), NEW es \in Seq(Entry), NEW j,
         \A i \in 1..Len(es) : es[i].job = j => ~es[i].del
  PROVE  j \in DOMAIN Replay(s, es) <=> Mentions(es, j) \/ j \in DOMAIN s
<1>1. CASE Mentions(es, j)
  <2>1. PICK i \in 1..Len(es) : es[i].job = j /\ (j \in DOMAIN Replay(s, es) <=> ~es[i].del)
    BY <1>1, Mentioned
  <2> QED BY <1>1, <2>1
<1>2. CASE ~Mentions(es, j)
  BY <1>2, Unmentioned
<1> QED BY <1>1, <1>2

LEMMA AppendFacts ==
  ASSUME NEW es \in Seq(Entry), NEW a \in Entry
  PROVE  /\ Append(es, a) \in Seq(Entry)
         /\ Len(Append(es, a)) = Len(es) + 1 /\ Len(es) \in Nat
         /\ \A i \in 1..Len(es) : Append(es, a)[i] = es[i]
         /\ Append(es, a)[Len(es) + 1] = a
         /\ \A i \in 1..Len(Append(es, a)) : i \in 1..Len(es) \/ i = Len(es) + 1
         /\ \A j : Mentions(Append(es, a), j) <=> Mentions(es, j) \/ a.job = j
<1>1. /\ Append(es, a) \in Seq(Entry)
      /\ Len(Append(es, a)) = Len(es) + 1 /\ Len(es) \in Nat
      /\ \A i \in 1..Len(es) : Append(es, a)[i] = es[i]
      /\ Append(es, a)[Len(es) + 1] = a
  OBVIOUS
<1>2. /\ \A i \in 1..Len(Append(es, a)) : i \in 1..Len(es) \/ i = Len(es) + 1
      /\ \A i \in 1..Len(es) : i \in 1..Len(Append(es, a))
      /\ Len(es) + 1 \in 1..Len(Append(es, a))
  BY <1>1
<1> QED BY <1>1, <1>2 DEF Mentions

LEMMA AppendMentions ==
  ASSUME NEW es \in Seq(Entry), NEW a \in Entry, NEW t, t = Append(es, a), NEW j
  PROVE  Mentions(t, j) <=> Mentions(es, j) \/ a.job = j
BY AppendFacts

\* A line at the end of the log decides about its job, and about no other.
LEMMA ReplayAppend ==
  ASSUME NEW s, IsStore(s), NEW es \in Seq(Entry), NEW a \in Entry, NEW j
  PROVE  /\ a.job = j => (j \in DOMAIN Replay(s, Append(es, a)) <=> ~a.del)
         /\ a.job # j =>
              (j \in DOMAIN Replay(s, Append(es, a)) <=> j \in DOMAIN Replay(s, es))
<1> DEFINE n == Len(es) + 1
<1>1. PICK t : t = Append(es, a)
  OBVIOUS
<1>2. /\ t \in Seq(Entry) /\ Len(t) = Len(es) + 1 /\ Len(es) \in Nat
      /\ \A i \in 1..Len(es) : t[i] = es[i]
      /\ t[Len(es) + 1] = a
      /\ \A i \in 1..Len(t) : i \in 1..Len(es) \/ i = Len(es) + 1
      /\ \A k : Mentions(t, k) <=> Mentions(es, k) \/ a.job = k
  BY <1>1, AppendFacts
<1>3. Follows(s, t, Len(t), j, Replay(s, t))
  BY <1>2, ReplayFacts
<1>4. CASE a.job = j
  <2>1. n \in 1..Len(t) /\ \A k \in 1..Len(t) : ~(k > n)
    BY <1>2
  <2>2. Decides(t, Len(t), j, n)
    BY <1>2, <1>4, <2>1 DEF Decides
  <2>3. j \in DOMAIN Replay(s, t) <=> ~t[n].del
    BY <1>3, <2>1, <2>2 DEF Follows
  <2> QED BY <1>1, <1>2, <1>4, <2>3
<1>5. CASE a.job # j
  <2>1. CASE Mentions(es, j)
    <3>1. PICK i \in 1..Len(es) : Decides(es, Len(es), j, i)
      BY <2>1, DecidingLine
    <3>2. i \in 1..Len(t) /\ Decides(t, Len(t), j, i) /\ t[i] = es[i]
      BY <1>2, <1>5, <3>1 DEF Decides
    <3>3. j \in DOMAIN Replay(s, t) <=> ~t[i].del
      BY <1>3, <3>2 DEF Follows
    <3>4. Follows(s, es, Len(es), j, Replay(s, es))
      BY ReplayFacts
    <3>5. j \in DOMAIN Replay(s, es) <=> ~es[i].del
      BY <3>1, <3>4 DEF Follows
    <3> QED BY <1>1, <1>5, <3>2, <3>3, <3>5
  <2>2. CASE ~Mentions(es, j)
    <3>1. ~Mentions(t, j)
      BY <1>2, <1>5, <2>2
    <3>2. j \in DOMAIN Replay(s, t) <=> j \in DOMAIN s
      BY <3>1, <1>2, Unmentioned
    <3>3. j \in DOMAIN Replay(s, es) <=> j \in DOMAIN s
      BY <2>2, Unmentioned
    <3> QED BY <1>1, <1>5, <3>2, <3>3
  <2> QED BY <2>1, <2>2
<1> QED BY <1>4, <1>5

\* An empty log leaves the file as it is.
LEMMA ReplayNone ==
  ASSUME NEW s, IsStore(s), NEW j
  PROVE  j \in DOMAIN Replay(s, <<>>) <=> j \in DOMAIN s
<1>1. <<>> \in Seq(Entry) /\ ~Mentions(<<>>, j)
  BY DEF Mentions
<1> QED BY <1>1, Unmentioned

----------------------------------------------------------------------------
(* Records, stores, the timer *)

LEMMA ConstantFacts ==
  /\ Period \in Nat \ {0} /\ MaxSleep \in Nat \ {0} /\ MaxTime \in Nat \ {0}
  /\ MaxOps \in Nat /\ MaxCrashes \in Nat /\ MaxTicks \in Nat /\ MaxDeaf \in Nat
  /\ At \in [Jobs -> Nat] /\ SystemJobs \subseteq Jobs /\ DeleteAfter \subseteq Jobs
BY CronAssumption

\* A due time that is computed now is in the future, or there is none.
LEMMA NextRunFacts ==
  ASSUME now \in 1..MaxTime, NEW j \in Jobs
  PROVE  NextRun(j) \in Nat /\ NextRun(j) \notin 1..now
<1>1. now \in Nat /\ Period \in Nat /\ Period > 0 /\ At[j] \in Nat
  BY ConstantFacts
<1> QED BY <1>1 DEF NextRun

LEMMA RecordFacts ==
  ASSUME now \in 1..MaxTime, NEW j \in Jobs
  PROVE  /\ New(j) \in Job /\ Removal(j) \in Entry
         /\ New(j).enabled /\ New(j).next = NextRun(j)
         /\ Removal(j).job = j /\ Removal(j).del /\ ~Removal(j).rec.enabled
         /\ \A r \in Job : /\ Change(j, r) \in Entry
                           /\ Change(j, r).job = j /\ Change(j, r).rec = r /\ ~Change(j, r).del
         /\ \A q \in Job : \A r \in Revisions(j, q) : r \in Job /\ (r = New(j) \/ ~r.enabled)
<1>1. NextRun(j) \in Nat
  BY NextRunFacts
<1>2. [enabled |-> FALSE, next |-> 0] \in Job
  BY DEF Job, Times
<1>3. New(j) \in Job /\ New(j).enabled /\ New(j).next = NextRun(j)
  BY <1>1 DEF New, Job, Times
<1>4. Removal(j) \in Entry /\ Removal(j).job = j /\ Removal(j).del /\ ~Removal(j).rec.enabled
  BY <1>2 DEF Removal, Entry
<1>5. \A r \in Job : /\ Change(j, r) \in Entry
                     /\ Change(j, r).job = j /\ Change(j, r).rec = r /\ ~Change(j, r).del
  BY DEF Change, Entry
<1>6. \A q \in Job : \A r \in Revisions(j, q) : r \in Job /\ (r = New(j) \/ ~r.enabled)
  <2>1. PICK z : z = [enabled |-> FALSE, next |-> 0] /\ z \in Job /\ ~z.enabled
    BY <1>2
  <2>2. ASSUME NEW q \in Job, NEW r \in Revisions(j, q)
        PROVE  r = New(j) \/ r = z \/ (r = q /\ ~q.enabled)
    <3>1. CASE q.enabled
      BY <2>1, <2>2, <3>1 DEF Revisions
    <3>2. CASE ~q.enabled
      BY <2>1, <2>2, <3>2 DEF Revisions
    <3> QED BY <3>1, <3>2
  <2>3. ASSUME NEW q \in Job, NEW r \in Revisions(j, q)
        PROVE  r \in Job /\ (r = New(j) \/ ~r.enabled)
    BY <1>3, <2>1, <2>2, <2>3
  <2> QED BY <2>3
<1> QED BY <1>3, <1>4, <1>5, <1>6

LEMMA WakeFacts ==
  ASSUME now \in 1..MaxTime, NEW s, IsStore(s)
  PROVE  WakeAt(s) \in 1..(MaxTime + MaxSleep)
<1> DEFINE times == {s[j].next : j \in {k \in DOMAIN s : s[k].enabled /\ s[k].next > 0}}
           latest == now + MaxSleep
           T == times \cup {latest}
           first == CHOOSE t \in T : \A u \in T : t <= u
<1>1. now \in Nat /\ now >= 1 /\ now <= MaxTime /\ MaxTime \in Nat /\ MaxSleep \in Nat /\ latest \in Nat
  BY ConstantFacts
<1>2. T \in SUBSET Nat /\ T # {}
  <2>1. \A j \in DOMAIN s : s[j].next \in Nat
    BY DEF IsStore, Job, Times
  <2> QED BY <1>1, <2>1
<1>3. first \in T /\ \A u \in T : first <= u
  <2>1. \E t \in T : \A u \in T : t <= u
    <3> HIDE DEF T
    <3> QED BY <1>2, LeastNat
  <2> QED BY <2>1
<1>4. first \in Nat /\ first <= latest
  BY <1>2, <1>3
<1>5. WakeAt(s) = IF first < now THEN now ELSE first
  BY DEF WakeAt
<1> HIDE DEF first
<1> QED BY <1>1, <1>4, <1>5

\* A load leaves the log or empties it.
LEMMA LoadFacts ==
  ASSUME TypeOK
  PROVE  /\ IsStore(Loaded) /\ IsStore(Store)
         /\ log \in Seq(Entry) /\ <<>> \in Seq(Entry)
         /\ MergedLog \in {<<>>, log} /\ LogAfterLoad \in {<<>>, log}
         /\ active => LogAfterLoad = log /\ Store = mem /\ Executing # {}
         /\ ~running => LogAfterLoad = log
         /\ ~active => Store = Loaded
<1>1. IsStore(disk) /\ IsStore(mem) /\ log \in Seq(Entry) /\ (active => Executing # {})
  BY DEF TypeOK
<1>2. IsStore(Loaded)
  BY <1>1, ReplayFacts DEF Loaded
<1> QED BY <1>1, <1>2 DEF Store, MergedLog, LogAfterLoad

LEMMA RecomputedFacts ==
  ASSUME now \in 1..MaxTime, NEW s, IsStore(s)
  PROVE  /\ IsStore(Recomputed(s)) /\ DOMAIN Recomputed(s) = DOMAIN s
         /\ \A j \in DOMAIN s : Recomputed(s)[j].enabled => Recomputed(s)[j].next = NextRun(j)
<1>1. DOMAIN Recomputed(s) = DOMAIN s /\ DOMAIN s \subseteq Jobs
  BY DEF Recomputed, IsStore
<1>2. ASSUME NEW j \in DOMAIN s
      PROVE  /\ Recomputed(s)[j] \in Job
             /\ Recomputed(s)[j].enabled => Recomputed(s)[j].next = NextRun(j)
  <2>1. NextRun(j) \in Nat /\ s[j] \in Job
    BY <1>1, NextRunFacts DEF IsStore
  <2>2. [s[j] EXCEPT !.next = NextRun(j)] \in Job /\ [s[j] EXCEPT !.next = NextRun(j)].next = NextRun(j)
    BY <2>1 DEF Job, Times
  <2> QED BY <2>1, <2>2 DEF Recomputed
<1>3. Recomputed(s) \in [DOMAIN s -> Job]
  BY <1>1, <1>2 DEF Recomputed
<1> QED BY <1>1, <1>2, <1>3 DEF IsStore

\* What an execution leaves of its job has no completed due time.
LEMMA ExecutedFacts ==
  ASSUME now \in 1..MaxTime, NEW s, IsStore(s), NEW j \in Jobs
  PROVE  /\ IsStore(Executed(s, j))
         /\ DOMAIN Executed(s, j) = IF j \in DeleteAfter THEN DOMAIN s \ {j} ELSE DOMAIN s
         /\ \A k \in DOMAIN Executed(s, j) : k # j => Executed(s, j)[k] = s[k]
         /\ j \in DOMAIN Executed(s, j) /\ Executed(s, j)[j].enabled =>
              Executed(s, j)[j].next = NextRun(j)
<1>1. CASE j \notin DOMAIN s
  BY <1>1 DEF Executed
<1>2. CASE j \in DOMAIN s /\ j \in DeleteAfter
  <2>1. Executed(s, j) = Without(s, j)
    BY <1>2 DEF Executed
  <2>2. IsStore(Without(s, j))
    BY <1>2 DEF IsStore, Without
  <2>3. DOMAIN Without(s, j) = DOMAIN s \ {j} /\ \A k \in DOMAIN s \ {j} : Without(s, j)[k] = s[k]
    BY DEF Without
  <2> QED BY <1>2, <2>1, <2>2, <2>3
<1>3. CASE j \in DOMAIN s /\ j \notin DeleteAfter
  <2>1. NextRun(j) \in Nat /\ s[j] \in Job
    BY <1>3, NextRunFacts DEF IsStore
  <2> DEFINE a == [enabled |-> FALSE, next |-> 0]
             b == [s[j] EXCEPT !.next = NextRun(j)]
  <2>2. a \in Job /\ ~a.enabled /\ b \in Job /\ b.next = NextRun(j)
    BY <2>1 DEF Job, Times
  <2>3. PICK r \in Job : /\ Executed(s, j) = With(s, j, r)
                         /\ r.enabled => r.next = NextRun(j)
    <3>1. CASE At[j] # 0
      BY <1>3, <2>2, <3>1 DEF Executed
    <3>2. CASE At[j] = 0
      BY <1>3, <2>2, <3>2 DEF Executed
    <3> QED BY <3>1, <3>2
  <2>4. /\ IsStore(With(s, j, r)) /\ DOMAIN With(s, j, r) = DOMAIN s
        /\ With(s, j, r)[j] = r /\ \A k \in DOMAIN s : k # j => With(s, j, r)[k] = s[k]
    <3>1. IsStore(With(s, j, r))
      BY StoreFacts
    <3> QED BY <1>3, <3>1 DEF With
  <2> QED BY <1>3, <2>3, <2>4
<1> QED BY <1>1, <1>2, <1>3

LEMMA ApartFacts ==
  ASSUME NEW s, IsStore(s), NEW j \in Jobs
  PROVE  /\ IsStore(ExecutedApart(s, j))
         /\ DOMAIN ExecutedApart(s, j) = IF j \in DeleteAfter THEN DOMAIN s \ {j} ELSE DOMAIN s
         /\ \A k \in DOMAIN ExecutedApart(s, j) : ExecutedApart(s, j)[k] = s[k]
BY DEF ExecutedApart, Without, IsStore

\* The jobs of a tick are jobs.
LEMMA JobsFacts ==
  ASSUME has \in [Ticks -> SUBSET (Jobs \X Times)], NEW i \in Ticks
  PROVE  JobsOf(i) \subseteq Jobs
<1>1. \A r \in has[i] : r \in Jobs \X Times
  OBVIOUS
<1>2. \A r \in Jobs \X Times : r[1] \in Jobs
  OBVIOUS
<1> QED BY <1>1, <1>2 DEF JobsOf

----------------------------------------------------------------------------
(* Types *)

\* The cancellation of the timer task: it ends the wait of no other tick.
LEMMA CancelTaskFacts ==
  ASSUME TypeOK, CancelTimerTask
  PROVE  /\ task' \cup cancelled' \subseteq Executing /\ task' \cap cancelled' = {}
         /\ task' = {}
BY DEF TypeOK, CancelTimerTask

\* No ticks, no timer task.
LEMMA NoTask == Cardinality({}) <= 1 /\ \A i : Cardinality({i}) <= 1
BY FS_EmptySet, FS_Singleton

\* A changed store is saved with what a load leaves of the log, or its change
\* is appended.
LEMMA CommitFacts ==
  ASSUME TypeOK, NEW s, IsStore(s), NEW e \in Entry, Commit(s, e)
  PROVE  /\ mem' = s /\ has' = has /\ active' = active /\ Executing' = Executing
         /\ running => disk' = s /\ log' = LogAfterLoad
         /\ ~running => log' = Append(log, e) /\ disk' = disk /\ timer' = timer
         /\ IsStore(mem)' /\ IsStore(disk)' /\ log' \in Seq(Entry)
         /\ timer' \in 0..(MaxTime + MaxSleep)
         /\ task' \cup cancelled' \subseteq Executing /\ task' \cap cancelled' = {}
         /\ Cardinality(task') <= 1
<1>1. /\ running \in BOOLEAN /\ now \in 1..MaxTime /\ IsStore(disk) /\ log \in Seq(Entry)
      /\ timer \in 0..(MaxTime + MaxSleep)
      /\ task \cup cancelled \subseteq Executing /\ task \cap cancelled = {} /\ Cardinality(task) <= 1
      /\ LogAfterLoad \in {<<>>, log} /\ <<>> \in Seq(Entry)
  BY LoadFacts DEF TypeOK
<1>0. mem' = s /\ has' = has /\ active' = active /\ Executing' = Executing
  BY DEF Commit, Executing
<1>2. CASE running
  <2>1. disk' = s /\ log' = LogAfterLoad /\ timer' = WakeAt(s) /\ CancelTimerTask
    BY <1>2 DEF Commit, Arm
  <2>2. WakeAt(s) \in 0..(MaxTime + MaxSleep)
    BY <1>1, WakeFacts, ConstantFacts
  <2>3. log' \in Seq(Entry)
    BY <1>1, <2>1
  <2>4. task' \cup cancelled' \subseteq Executing /\ task' \cap cancelled' = {} /\ Cardinality(task') <= 1
    BY <2>1, CancelTaskFacts, NoTask
  <2> QED BY <1>0, <1>2, <2>1, <2>2, <2>3, <2>4 DEF IsStore
<1>3. CASE ~running
  <2>1. log' = Append(log, e) /\ UNCHANGED <<disk, timer, task, cancelled>>
    BY <1>3 DEF Commit
  <2>2. log' \in Seq(Entry)
    BY <1>1, <2>1
  <2> QED BY <1>0, <1>1, <1>3, <2>1, <2>2 DEF IsStore
<1> QED BY <1>2, <1>3, <1>1

\* The three calls that change jobs: the store they commit and the line they
\* would append.
LEMMA AddCommits ==
  ASSUME TypeOK, NEW j \in Jobs, AddJob(j)
  PROVE  \E s, e : /\ IsStore(s) /\ e = Change(j, New(j)) /\ e \in Entry /\ Commit(s, e)
                   /\ running => s = With(Store, j, New(j))
                   /\ ~running => s = mem
<1>1. now \in 1..MaxTime /\ IsStore(mem) /\ IsStore(Store) /\ running \in BOOLEAN
  BY LoadFacts DEF TypeOK
<1>2. New(j) \in Job /\ Change(j, New(j)) \in Entry
  BY <1>1, RecordFacts
<1>3. IsStore(With(Store, j, New(j)))
  BY <1>1, <1>2, StoreFacts
<1> QED BY <1>1, <1>2, <1>3 DEF AddJob

LEMMA RemoveCommits ==
  ASSUME TypeOK, NEW j \in Jobs, RemoveJob(j)
  PROVE  /\ IsStore(Without(Store, j)) /\ Removal(j) \in Entry
         /\ Commit(Without(Store, j), Removal(j))
<1>1. now \in 1..MaxTime /\ IsStore(Store)
  BY LoadFacts DEF TypeOK
<1>2. New(j) \in Job /\ Removal(j) \in Entry
  BY <1>1, RecordFacts
<1>3. IsStore(Without(Store, j))
  BY <1>1, <1>2, StoreFacts
<1> QED BY <1>2, <1>3 DEF RemoveJob

LEMMA ChangeCommits ==
  ASSUME TypeOK, NEW j \in Jobs, ChangeJob(j)
  PROVE  \E r \in Job : /\ r = New(j) \/ ~r.enabled
                        /\ j \in DOMAIN Store
                        /\ IsStore(With(Store, j, r)) /\ Change(j, r) \in Entry
                        /\ Commit(With(Store, j, r), Change(j, r))
<1>1. now \in 1..MaxTime /\ IsStore(Store)
  BY LoadFacts DEF TypeOK
<1>2. j \in DOMAIN Store /\ Store[j] \in Job
  BY <1>1 DEF ChangeJob, IsStore
<1>3. PICK r \in Revisions(j, Store[j]) : Commit(With(Store, j, r), Change(j, r))
  BY DEF ChangeJob
<1>4. r \in Job /\ (r = New(j) \/ ~r.enabled) /\ Change(j, r) \in Entry
  BY <1>1, <1>2, <1>3, RecordFacts
<1>5. IsStore(With(Store, j, r))
  BY <1>1, <1>4, StoreFacts
<1> QED BY <1>2, <1>3, <1>4, <1>5

LEMMA ReadFacts ==
  ASSUME TypeOK, ExternalReads
  PROVE  \E a \in Entry :
            /\ ext' = <<a>> /\ ext = <<>>
            /\ \/ /\ ~a.del /\ (a.rec = New(a.job) \/ ~a.rec.enabled)
                  /\ Fresh(a.job) \/ a.job \in DOMAIN Loaded
               \/ a = Removal(a.job) /\ a.job \notin SystemJobs
<1>1. now \in 1..MaxTime /\ IsStore(Loaded)
  BY LoadFacts DEF TypeOK
<1>2. PICK j \in Jobs :
         \/ Fresh(j) /\ ext' = <<Change(j, New(j))>>
         \/ j \in DOMAIN Loaded
              /\ \E r \in Revisions(j, Loaded[j]) : ext' = <<Change(j, r)>>
         \/ j \in DOMAIN Loaded \ SystemJobs /\ ext' = <<Removal(j)>>
  BY DEF ExternalReads
<1>3. ext = <<>>
  BY DEF ExternalReads
<1>4. CASE Fresh(j) /\ ext' = <<Change(j, New(j))>>
  <2>1. New(j) \in Job
    BY <1>1, RecordFacts
  <2>2. PICK a : a = Change(j, New(j)) /\ a \in Entry /\ a.job = j /\ a.rec = New(j) /\ ~a.del
    BY <1>1, <2>1, RecordFacts
  <2> QED BY <1>3, <1>4, <2>2
<1>5. CASE j \in DOMAIN Loaded /\ \E r \in Revisions(j, Loaded[j]) : ext' = <<Change(j, r)>>
  <2>1. PICK r \in Revisions(j, Loaded[j]) : ext' = <<Change(j, r)>>
    BY <1>5
  <2>2. Loaded[j] \in Job
    BY <1>1, <1>5 DEF IsStore
  <2>3. r \in Job /\ (r = New(j) \/ ~r.enabled)
    BY <1>1, <2>1, <2>2, RecordFacts
  <2>4. PICK a : a = Change(j, r) /\ a \in Entry /\ a.job = j /\ a.rec = r /\ ~a.del
    BY <1>1, <2>3, RecordFacts
  <2> QED BY <1>3, <1>5, <2>1, <2>3, <2>4
<1>6. CASE j \in DOMAIN Loaded \ SystemJobs /\ ext' = <<Removal(j)>>
  <2>1. PICK a : a = Removal(j) /\ a \in Entry /\ a.job = j
    BY <1>1, RecordFacts
  <2> QED BY <1>3, <1>6, <2>1
<1> QED BY <1>2, <1>4, <1>5, <1>6

LEMMA AppendsFacts ==
  ASSUME TypeOK, ExternalAppends
  PROVE  \E a \in Entry : /\ ext = <<a>> /\ ext[1] = a /\ ext' = <<>> /\ Len(ext) = 1
                          /\ log' = Append(log, a)
                          /\ a.del => removed' = removed \cup {a.job} /\ added' = added
                          /\ ~a.del => added' = added \cup {a.job} /\ removed' = removed
<1>1. ext \in Seq(Entry) /\ Len(ext) <= 1 /\ ext # <<>> /\ log \in Seq(Entry)
  BY DEF TypeOK, ExternalAppends
<1>2. Len(ext) = 1 /\ ext[1] \in Entry
  <2>0. \A seq \in Seq(Entry) : seq # <<>> => Len(seq) \in Nat \ {0}
    BY EmptySeq, Zenon
  <2>1. Len(ext) \in Nat /\ Len(ext) # 0
    BY <1>1, <2>0
  <2>2. PICK n \in Nat : n = Len(ext) /\ n # 0 /\ n <= 1
    BY <1>1, <2>1, Zenon
  <2>3. n = 1
    BY <2>2
  <2> QED BY <1>1, <2>2, <2>3
<1>3. ext = <<ext[1]>>
  BY <1>1, <1>2
<1>4. PICK a \in Entry : a = ext[1]
  BY <1>2
<1>5. log \o <<a>> = Append(log, a)
  BY <1>1, AppendIsConcat
<1>6. log' = Append(log, a)
  BY <1>3, <1>4, <1>5 DEF ExternalAppends
<1> QED BY <1>2, <1>3, <1>4, <1>6 DEF ExternalAppends

\* The steps, one by one.
LEMMA StepCases ==
  ASSUME [Next]_vars
  PROVE  \/ Start \/ Stop \/ Crash
         \/ \E j \in Jobs : AddJob(j)
         \/ \E j \in Jobs : RemoveJob(j)
         \/ \E j \in Jobs : ChangeJob(j)
         \/ \E j \in Jobs : RegisterSystemJob(j)
         \/ \E i \in Ticks : \E r \in has[i] : JobEnds(i, r)
         \/ \E i \in Ticks : TickFires(i)
         \/ \E i \in Ticks : JobCancelled(i)
         \/ \E i \in Ticks : CancelSwallowed(i)
         \/ ListJobs \/ ExternalReads \/ ExternalAppends \/ Clock
         \/ UNCHANGED vars
BY DEF Next

\* The jobs that are due when the timer fires.
DueIn(s) == {j \in DOMAIN s : s[j].enabled /\ s[j].next \in 1..now}
DuePairs(s) == {<<j, s[j].next>> : j \in DueIn(s)}

\* The part of the types that is about the ticks.
TicksTyped ==
    /\ has \in [Ticks -> SUBSET (Jobs \X Times)]
    /\ task \cup cancelled \cup detached \subseteq Executing
    /\ task \cap cancelled = {} /\ Cardinality(task) <= 1
    /\ active \in BOOLEAN /\ (active => Executing # {})

LEMMA NoneExecutes ==
  ASSUME NEW h, h = [i \in Ticks |-> {}]
  PROVE  /\ h \in [Ticks -> SUBSET (Jobs \X Times)]
         /\ \A i \in Ticks : h[i] = {}
OBVIOUS

\* What a firing tick does with the ticks.
LEMMA FiresTicks ==
  ASSUME TypeOK, NEW i \in Ticks, TickFires(i)
  PROVE  /\ i \notin Executing
         /\ has' = [has EXCEPT ![i] = DuePairs(Store)]
         /\ DuePairs(Store) \subseteq Jobs \X Times
         /\ DueIn(Store) = {} <=> DuePairs(Store) = {}
         /\ \A k \in Ticks : has'[k] = IF k = i THEN DuePairs(Store) ELSE has[k]
         /\ Executing' = IF DueIn(Store) = {} THEN Executing ELSE Executing \cup {i}
<1>1. /\ has[i] = {} /\ has \in [Ticks -> SUBSET (Jobs \X Times)]
      /\ has' = [has EXCEPT ![i] = DuePairs(Store)]
  BY DEF TypeOK, TickFires, DuePairs, DueIn
<1>2. \A j \in DOMAIN Store : <<j, Store[j].next>> \in Jobs \X Times
  <2>1. IsStore(Store)
    BY LoadFacts
  <2> QED BY <2>1 DEF IsStore, Job
<1>3. DuePairs(Store) \subseteq Jobs \X Times /\ (DueIn(Store) = {} <=> DuePairs(Store) = {})
  BY <1>2 DEF DuePairs, DueIn
<1>4. \A k \in Ticks : has'[k] = IF k = i THEN DuePairs(Store) ELSE has[k]
  BY <1>1
<1> QED BY <1>1, <1>3, <1>4 DEF Executing

\* What an ending execution does with the ticks.
LEMMA EndsTicks ==
  ASSUME TypeOK, NEW i \in Ticks, NEW r \in has[i], JobEnds(i, r)
  PROVE  /\ i \in Executing /\ i \notin cancelled /\ r \in Jobs \X Times
         /\ r[1] \in Jobs /\ r[2] \in Nat /\ r = <<r[1], r[2]>>
         /\ has' \in [Ticks -> SUBSET (Jobs \X Times)]
         /\ \A k \in Ticks : has'[k] = IF k = i THEN has[i] \ {r} ELSE has[k]
         /\ has[i] # {r} => /\ Executing' = Executing
                            /\ UNCHANGED <<disk, timer, task, cancelled, detached, active>>
         /\ has[i] = {r} => /\ Executing' = Executing \ {i}
                            /\ disk' = mem' /\ ~active' /\ task' = {}
                            /\ cancelled' = cancelled \cup (task \ {i})
                            /\ detached' = detached \ {i}
                            /\ timer' = IF running THEN WakeAt(mem') ELSE 0
<1>1. /\ has \in [Ticks -> SUBSET (Jobs \X Times)] /\ i \notin cancelled
      /\ has' = [has EXCEPT ![i] = has[i] \ {r}]
  BY DEF TypeOK, JobEnds
<1>2. r \in Jobs \X Times
  BY <1>1
<1>3. r[1] \in Jobs /\ r[2] \in Nat /\ r = <<r[1], r[2]>>
  BY <1>2 DEF Times
<1>4. \A k \in Ticks : has'[k] = IF k = i THEN has[i] \ {r} ELSE has[k]
  BY <1>1
<1>5. i \in Executing
  BY DEF Executing
<1>6. Executing' = IF has[i] = {r} THEN Executing \ {i} ELSE Executing
  <2>1. has[i] \ {r} = {} <=> has[i] = {r}
    OBVIOUS
  <2> QED BY <1>4, <2>1 DEF Executing
<1>7. has' \in [Ticks -> SUBSET (Jobs \X Times)]
  BY <1>1
<1>8. has[i] # {r} => UNCHANGED <<disk, timer, task, cancelled, detached, active>>
  BY DEF JobEnds
<1>9. has[i] = {r} => /\ disk' = mem' /\ ~active' /\ task' = {}
                      /\ cancelled' = cancelled \cup (task \ {i})
                      /\ detached' = detached \ {i}
                      /\ timer' = IF running THEN WakeAt(mem') ELSE 0
  BY DEF JobEnds
<1> QED BY <1>1, <1>2, <1>3, <1>4, <1>5, <1>6, <1>7, <1>8, <1>9

LEMMA TicksStep ==
  ASSUME TypeOK, [Next]_vars
  PROVE  TicksTyped'
<1>0. /\ has \in [Ticks -> SUBSET (Jobs \X Times)]
      /\ task \cup cancelled \cup detached \subseteq Executing
      /\ task \cap cancelled = {} /\ Cardinality(task) <= 1
      /\ active \in BOOLEAN /\ (active => Executing # {})
  BY DEF TypeOK
\* The steps that leave the jobs of the ticks alone.
<1>k. ASSUME has' = has, active' = active, detached' \in {detached, Executing},
             task' \cup cancelled' \subseteq Executing, task' \cap cancelled' = {},
             Cardinality(task') <= 1
      PROVE  TicksTyped'
  <2>1. Executing' = Executing
    BY <1>k DEF Executing
  <2> QED BY <1>0, <1>k, <2>1 DEF TicksTyped
<1>u. ASSUME UNCHANGED <<has, task, cancelled, detached, active>> PROVE TicksTyped'
  BY <1>0, <1>k, <1>u
<1>1. CASE Start
  BY <1>u, <1>1 DEF Start, tick
<1>2. CASE Stop
  <2>1. CancelTimerTask /\ UNCHANGED <<has, detached, active>>
    BY <1>2 DEF Stop
  <2> QED BY <1>k, <2>1, CancelTaskFacts, NoTask
<1>3. CASE Crash
  <2>1. /\ has' = [i \in Ticks |-> {}] /\ task' = {} /\ cancelled' = {} /\ detached' = {}
        /\ active' = FALSE
    BY <1>3 DEF Crash
  <2> QED BY <2>1, NoneExecutes, NoTask DEF TicksTyped
<1>4. ASSUME NEW j \in Jobs, AddJob(j) PROVE TicksTyped'
  <2>1. PICK s, e : IsStore(s) /\ e \in Entry /\ Commit(s, e)
    BY <1>4, AddCommits
  <2>2. detached' \in {detached, Executing}
    BY <1>4 DEF AddJob, Loads
  <2> QED BY <1>k, <2>1, <2>2, CommitFacts
<1>5. ASSUME NEW j \in Jobs, RemoveJob(j) PROVE TicksTyped'
  <2>1. detached' \in {detached, Executing}
    BY <1>5 DEF RemoveJob, Loads
  <2> QED BY <1>k, <1>5, <2>1, RemoveCommits, CommitFacts
<1>6. ASSUME NEW j \in Jobs, ChangeJob(j) PROVE TicksTyped'
  <2>1. PICK r \in Job : /\ IsStore(With(Store, j, r)) /\ Change(j, r) \in Entry
                         /\ Commit(With(Store, j, r), Change(j, r))
    BY <1>6, ChangeCommits
  <2>2. detached' \in {detached, Executing}
    BY <1>6 DEF ChangeJob, Loads
  <2> QED BY <1>k, <2>1, <2>2, CommitFacts
<1>7. ASSUME NEW j \in Jobs, RegisterSystemJob(j) PROVE TicksTyped'
  BY <1>u, <1>7 DEF RegisterSystemJob, tick
<1>8. ASSUME NEW i \in Ticks, NEW r \in has[i], JobEnds(i, r) PROVE TicksTyped'
  <2>1. CASE has[i] # {r}
    BY <1>0, <1>8, <2>1, EndsTicks DEF TicksTyped
  <2>2. CASE has[i] = {r}
    <3>1. /\ has' \in [Ticks -> SUBSET (Jobs \X Times)] /\ Executing' = Executing \ {i}
          /\ ~active' /\ task' = {} /\ i \notin cancelled
          /\ cancelled' = cancelled \cup (task \ {i}) /\ detached' = detached \ {i}
      BY <1>8, <2>2, EndsTicks
    <3>2. active' \in BOOLEAN
      BY <1>8, <2>2 DEF JobEnds
    <3> QED BY <1>0, <3>1, <3>2, NoTask DEF TicksTyped
  <2> QED BY <2>1, <2>2
<1>9. CASE ListJobs
  <2>1. UNCHANGED <<has, task, cancelled, active>> /\ detached' \in {detached, Executing}
    BY <1>9 DEF ListJobs, Loads
  <2> QED BY <1>0, <1>k, <2>1
<1>10. ASSUME NEW i \in Ticks, TickFires(i) PROVE TicksTyped'
  <2>1. /\ i \notin Executing /\ has' = [has EXCEPT ![i] = DuePairs(Store)]
        /\ DuePairs(Store) \subseteq Jobs \X Times
        /\ Executing' = IF DueIn(Store) = {} THEN Executing ELSE Executing \cup {i}
    BY <1>10, FiresTicks
  <2>2. has' \in [Ticks -> SUBSET (Jobs \X Times)]
    BY <1>0, <2>1
  <2>3. /\ detached' \in {detached, Executing} /\ cancelled' = cancelled
        /\ active' = (DueIn(Store) # {})
        /\ IF DueIn(Store) = {} THEN task' = task ELSE task' = {i}
    BY <1>10 DEF TickFires, DueIn, Loads
  <2> QED BY <1>0, <2>1, <2>2, <2>3, NoTask DEF TicksTyped
<1>11. ASSUME NEW i \in Ticks, JobCancelled(i) PROVE TicksTyped'
  <2>1. /\ i \in cancelled /\ has' = [has EXCEPT ![i] = {}] /\ cancelled' = cancelled \ {i}
        /\ detached' = detached \ {i} /\ active' = FALSE /\ task' = task
    BY <1>11 DEF JobCancelled
  <2>2. has' \in [Ticks -> SUBSET (Jobs \X Times)] /\ Executing' = Executing \ {i}
    BY <1>0, <2>1 DEF Executing
  <2> QED BY <1>0, <2>1, <2>2 DEF TicksTyped
<1>12. ASSUME NEW i \in Ticks, CancelSwallowed(i) PROVE TicksTyped'
  <2>1. UNCHANGED <<has, task, detached, active>> /\ cancelled' = cancelled \ {i}
    BY <1>12 DEF CancelSwallowed
  <2> QED BY <1>0, <1>k, <2>1
<1>13. CASE ExternalReads
  BY <1>u, <1>13 DEF ExternalReads, tick
<1>14. CASE ExternalAppends
  BY <1>u, <1>14 DEF ExternalAppends, tick
<1>15. CASE Clock
  BY <1>u, <1>15 DEF Clock, tick
<1>16. CASE UNCHANGED vars
  BY <1>u, <1>16 DEF vars, tick
<1> QED BY <1>1, <1>2, <1>3, <1>4, <1>5, <1>6, <1>7, <1>8, <1>9, <1>10, <1>11, <1>12, <1>13,
           <1>14, <1>15, <1>16, StepCases

LEMMA TypeStep ==
  ASSUME TypeOK, [Next]_vars
  PROVE  TypeOK'
<1> USE ConstantFacts
<1>0. /\ now \in 1..MaxTime /\ IsStore(mem) /\ IsStore(disk) /\ log \in Seq(Entry)
      /\ running \in BOOLEAN /\ timer \in 0..(MaxTime + MaxSleep)
      /\ has \in [Ticks -> SUBSET (Jobs \X Times)]
      /\ ext \in Seq(Entry) /\ Len(ext) <= 1
      /\ added \subseteq Jobs /\ removed \subseteq Jobs /\ again \subseteq Jobs /\ stale \subseteq Jobs
      /\ beside \subseteq Jobs
      /\ runs \subseteq Jobs \X Times /\ torn \in BOOLEAN
      /\ ops \in 0..MaxOps /\ crashes \in 0..MaxCrashes /\ deaf \in 0..MaxDeaf
  BY DEF TypeOK
<1>t. TicksTyped'
  BY TicksStep
<1>q. ASSUME /\ now' \in 1..MaxTime /\ IsStore(mem)' /\ IsStore(disk)' /\ log' \in Seq(Entry)
             /\ running' \in BOOLEAN /\ timer' \in 0..(MaxTime + MaxSleep)
             /\ ext' \in Seq(Entry) /\ Len(ext') <= 1
             /\ added' \subseteq Jobs /\ removed' \subseteq Jobs /\ again' \subseteq Jobs
             /\ stale' \subseteq Jobs /\ beside' \subseteq Jobs
             /\ runs' \subseteq Jobs \X Times /\ torn' \in BOOLEAN
             /\ ops' \in 0..MaxOps /\ crashes' \in 0..MaxCrashes /\ deaf' \in 0..MaxDeaf
      PROVE  TypeOK'
  BY <1>t, <1>q DEF TypeOK, TicksTyped
<1>l. /\ IsStore(Loaded) /\ IsStore(Store)
      /\ <<>> \in Seq(Entry) /\ MergedLog \in Seq(Entry) /\ LogAfterLoad \in Seq(Entry)
  BY <1>0, LoadFacts
<1>w. \A s : IsStore(s) => WakeAt(s) \in 0..(MaxTime + MaxSleep)
  BY <1>0, WakeFacts
<1>o. CountOp => ops' \in 0..MaxOps
  BY <1>0 DEF CountOp
<1>k. ASSUME IsStore(mem)', IsStore(disk)', log' \in Seq(Entry), timer' \in 0..(MaxTime + MaxSleep),
             CountOp, UNCHANGED <<now, running, ext, runs, again, beside, torn, crashes, deaf>>,
             added' \subseteq Jobs, removed' \subseteq Jobs, stale' \subseteq Jobs
      PROVE  TypeOK'
  BY <1>0, <1>o, <1>k, <1>q
<1>e. Empty = [j \in {} |-> j] /\ IsStore(Empty)
  BY DEF Empty, IsStore
<1>s. ASSUME NEW j \in Jobs, NEW lines, Overtaken(j, lines) PROVE stale' \subseteq Jobs
  BY <1>0, <1>s DEF Overtaken
<1>1. CASE Start
  <2>1. /\ running' = TRUE /\ mem' = Recomputed(Loaded) /\ disk' = mem' /\ log' = MergedLog
        /\ timer' = WakeAt(mem')
        /\ UNCHANGED <<now, ext, added, removed, runs, again, stale, beside, torn, ops, crashes,
                       deaf>>
    BY <1>1 DEF Start, history
  <2>2. IsStore(mem)' /\ IsStore(disk)'
    BY <1>0, <1>l, <2>1, RecomputedFacts DEF IsStore
  <2>3. timer' \in 0..(MaxTime + MaxSleep)
    BY <1>w, <2>1, <2>2 DEF IsStore
  <2> QED BY <1>0, <1>l, <1>q, <2>1, <2>2, <2>3
<1>2. CASE Stop
  <2>1. /\ running' = FALSE /\ timer' = 0 /\ ops' = ops + 1 /\ ops < MaxOps
        /\ UNCHANGED <<now, mem, disk, log, ext, added, removed, runs, again, stale, beside,
                       torn, crashes, deaf>>
    BY <1>2 DEF Stop, history
  <2>2. ops' \in 0..MaxOps /\ timer' \in 0..(MaxTime + MaxSleep)
    BY <1>0, <2>1
  <2> QED BY <1>0, <1>q, <2>1, <2>2 DEF IsStore
<1>3. CASE Crash
  <2>1. /\ running' = FALSE /\ timer' = 0 /\ mem' = Empty
        /\ crashes' = crashes + 1 /\ crashes < MaxCrashes
        /\ log' \in {<<>>, log} /\ torn' \in BOOLEAN
        /\ UNCHANGED <<now, disk, ext, added, removed, runs, again, stale, beside, ops, deaf>>
    BY <1>0, <1>3 DEF Crash
  <2>2. crashes' \in 0..MaxCrashes /\ timer' \in 0..(MaxTime + MaxSleep)
    BY <1>0, <2>1
  <2>3. log' \in Seq(Entry) /\ IsStore(mem)' /\ IsStore(disk)'
    BY <1>0, <1>l, <1>e, <2>1 DEF IsStore
  <2> QED BY <1>0, <1>q, <2>1, <2>2, <2>3
<1>4. ASSUME NEW j \in Jobs, AddJob(j) PROVE TypeOK'
  <2>1. PICK s, e : IsStore(s) /\ e \in Entry /\ Commit(s, e)
    BY <1>4, AddCommits
  <2>2. /\ IsStore(mem)' /\ IsStore(disk)' /\ log' \in Seq(Entry)
        /\ timer' \in 0..(MaxTime + MaxSleep)
    BY <2>1, CommitFacts
  <2>3. /\ CountOp /\ added' \subseteq Jobs
        /\ UNCHANGED <<now, running, ext, removed, runs, again, stale, beside, torn, crashes, deaf>>
    BY <1>0, <1>4 DEF AddJob
  <2>4. removed' \subseteq Jobs /\ stale' \subseteq Jobs
    BY <1>0, <2>3
  <2> QED BY <1>k, <2>2, <2>3, <2>4
<1>5. ASSUME NEW j \in Jobs, RemoveJob(j) PROVE TypeOK'
  <2>2. /\ IsStore(mem)' /\ IsStore(disk)' /\ log' \in Seq(Entry)
        /\ timer' \in 0..(MaxTime + MaxSleep)
    BY <1>5, RemoveCommits, CommitFacts
  <2>3. /\ CountOp /\ removed' \subseteq Jobs
        /\ UNCHANGED <<now, running, ext, added, runs, again, beside, torn, crashes, deaf>>
    BY <1>0, <1>5 DEF RemoveJob
  <2>4. added' \subseteq Jobs /\ stale' \subseteq Jobs
    BY <1>0, <1>5, <1>s, <2>3 DEF RemoveJob
  <2> QED BY <1>k, <2>2, <2>3, <2>4
<1>6. ASSUME NEW j \in Jobs, ChangeJob(j) PROVE TypeOK'
  <2>1. PICK r \in Job : /\ IsStore(With(Store, j, r)) /\ Change(j, r) \in Entry
                         /\ Commit(With(Store, j, r), Change(j, r))
    BY <1>6, ChangeCommits
  <2>2. /\ IsStore(mem)' /\ IsStore(disk)' /\ log' \in Seq(Entry)
        /\ timer' \in 0..(MaxTime + MaxSleep)
    BY <2>1, CommitFacts
  <2>3. /\ CountOp /\ stale' \subseteq Jobs
        /\ UNCHANGED <<now, running, ext, added, removed, runs, again, beside, torn, crashes, deaf>>
    BY <1>0, <1>6 DEF ChangeJob
  <2>4. added' \subseteq Jobs /\ removed' \subseteq Jobs
    BY <1>0, <2>3
  <2> QED BY <1>k, <2>2, <2>3, <2>4
<1>7. ASSUME NEW j \in Jobs, RegisterSystemJob(j) PROVE TypeOK'
  <2>1. /\ mem' = With(Loaded, j, New(j)) /\ disk' = mem' /\ added' = added \cup {j}
        /\ UNCHANGED <<now, log, running, timer, ext, removed, runs, again, stale, beside, torn,
                       ops, crashes, deaf>>
    BY <1>7 DEF RegisterSystemJob
  <2>2. New(j) \in Job
    BY <1>0, RecordFacts
  <2>3. IsStore(mem)' /\ IsStore(disk)'
    BY <1>l, <2>1, <2>2, StoreFacts DEF IsStore
  <2> QED BY <1>0, <1>q, <2>1, <2>3
<1>8. ASSUME NEW i \in Ticks, NEW r \in has[i], JobEnds(i, r) PROVE TypeOK'
  <2>1. /\ r[1] \in Jobs /\ r \in Jobs \X Times /\ runs' = runs \cup {r}
        /\ again' \subseteq again \cup {r[1]}
        /\ UNCHANGED <<now, log, running, ext, added, removed, beside, torn, ops, crashes, deaf>>
    BY <1>8, EndsTicks DEF JobEnds
  <2>2. IsStore(mem)' /\ IsStore(mem')
    <3>1. IsStore(Executed(mem, r[1])) /\ IsStore(ExecutedApart(mem, r[1]))
      BY <1>0, <2>1, ExecutedFacts, ApartFacts
    <3> QED BY <1>8, <3>1 DEF JobEnds, IsStore
  <2>3. stale' \subseteq Jobs
    BY <1>8, <1>s, <2>1 DEF JobEnds
  <2>4. IsStore(disk)' /\ timer' \in 0..(MaxTime + MaxSleep)
    <3>1. CASE has[i] # {r}
      BY <1>0, <1>8, <3>1, EndsTicks DEF IsStore
    <3>2. CASE has[i] = {r}
      <4>1. disk' = mem' /\ timer' = IF running THEN WakeAt(mem') ELSE 0
        BY <1>8, <3>2, EndsTicks
      <4>2. timer' \in 0..(MaxTime + MaxSleep)
        BY <1>w, <2>2, <4>1
      <4> QED BY <2>2, <4>1, <4>2 DEF IsStore
    <3> QED BY <3>1, <3>2
  <2>5. runs' \subseteq Jobs \X Times /\ again' \subseteq Jobs
    BY <1>0, <2>1
  <2> QED BY <1>0, <1>q, <2>1, <2>2, <2>3, <2>4, <2>5
<1>9. CASE ListJobs
  <2>1. /\ mem' = Store /\ log' = LogAfterLoad /\ (disk' = disk \/ disk' = mem')
        /\ UNCHANGED <<now, running, timer, ext, added, removed, runs, again, stale, beside, torn,
                       ops, crashes, deaf>>
    BY <1>9 DEF ListJobs, history
  <2>2. IsStore(mem)' /\ IsStore(disk)'
    BY <1>0, <1>l, <2>1 DEF IsStore
  <2> QED BY <1>0, <1>l, <1>q, <2>1, <2>2
<1>10. ASSUME NEW i \in Ticks, TickFires(i) PROVE TypeOK'
  <2>1. /\ mem' = Store /\ log' = LogAfterLoad /\ (disk' = disk \/ disk' = Store)
        /\ timer' = WakeAt(Store) \/ timer' = 0
        /\ beside' \subseteq beside \cup DueIn(Store) \cup UNION {JobsOf(k) : k \in Executing}
        /\ UNCHANGED <<now, running, ext, added, removed, runs, again, stale, torn, ops, crashes,
                       deaf>>
    BY <1>10 DEF TickFires, DueIn
  <2>2. IsStore(mem)' /\ IsStore(disk)'
    BY <1>0, <1>l, <2>1 DEF IsStore
  <2>3. beside' \subseteq Jobs
    <3>1. DueIn(Store) \subseteq Jobs
      BY <1>l DEF DueIn, IsStore
    <3>2. \A k \in Executing : JobsOf(k) \subseteq Jobs
      BY <1>0, JobsFacts DEF Executing
    <3> QED BY <1>0, <2>1, <3>1, <3>2
  <2>4. timer' \in 0..(MaxTime + MaxSleep)
    BY <1>l, <1>w, <2>1
  <2> QED BY <1>0, <1>l, <1>q, <2>1, <2>2, <2>3, <2>4
<1>11. ASSUME NEW i \in Ticks, JobCancelled(i) PROVE TypeOK'
  BY <1>0, <1>q, <1>11 DEF JobCancelled, history, IsStore
<1>12. ASSUME NEW i \in Ticks, CancelSwallowed(i) PROVE TypeOK'
  <2>1. deaf' \in 0..MaxDeaf
    BY <1>0, <1>12 DEF CancelSwallowed
  <2> QED BY <1>0, <1>q, <1>12, <2>1 DEF CancelSwallowed, history, IsStore
<1>13. CASE ExternalReads
  <2>1. PICK a \in Entry : ext' = <<a>>
    BY <1>13, ReadFacts
  <2>2. ext' \in Seq(Entry) /\ Len(ext') <= 1
    BY <2>1
  <2>3. UNCHANGED <<now, mem, disk, log, running, timer, added, removed, runs, again, stale,
                    beside, torn, crashes, deaf>> /\ ops' \in 0..MaxOps
    BY <1>o, <1>13 DEF ExternalReads, history
  <2> QED BY <1>0, <1>q, <2>2, <2>3 DEF IsStore
<1>14. CASE ExternalAppends
  <2>1. PICK a \in Entry : /\ ext' = <<>> /\ log' = Append(log, a)
                           /\ a.del => removed' = removed \cup {a.job} /\ added' = added
                           /\ ~a.del => added' = added \cup {a.job} /\ removed' = removed
    BY <1>14, AppendsFacts
  <2>2. ext' \in Seq(Entry) /\ Len(ext') <= 1 /\ log' \in Seq(Entry)
    BY <1>0, <1>l, <2>1
  <2>3. added' \subseteq Jobs /\ removed' \subseteq Jobs
    BY <1>0, <2>1 DEF Entry
  <2>4. UNCHANGED <<now, mem, disk, running, timer, runs, again, stale, beside, torn, ops,
                    crashes, deaf>>
    BY <1>14 DEF ExternalAppends
  <2> QED BY <1>0, <1>q, <2>2, <2>3, <2>4 DEF IsStore
<1>15. CASE Clock
  <2>1. /\ now' \in 1..MaxTime
        /\ UNCHANGED <<mem, disk, log, running, timer, ext, added, removed, runs, again, stale,
                       beside, torn, ops, crashes, deaf>>
    BY <1>0, <1>15 DEF Clock, history
  <2> QED BY <1>0, <1>q, <2>1 DEF IsStore
<1>16. CASE UNCHANGED vars
  BY <1>0, <1>q, <1>16 DEF vars, history, IsStore
<1> QED BY <1>1, <1>2, <1>3, <1>4, <1>5, <1>6, <1>7, <1>8, <1>9, <1>10, <1>11, <1>12, <1>13,
           <1>14, <1>15, <1>16, StepCases

----------------------------------------------------------------------------
(* What the steps do, as far as the invariants are concerned *)

\* What a load of a running service leaves of the log are removals of jobs that
\* are not there.
LEMMA LeftOver ==
  ASSUME TypeOK, running, ~active
  PROVE  LogAfterLoad = <<>> \/ \A i \in 1..Len(log) : log[i].del
<1>1. DOMAIN log = 1..Len(log)
  BY DEF TypeOK
<1> QED BY <1>1 DEF LogAfterLoad, MergedLog, Changes

LEMMA SameExecuting == has' = has => Executing' = Executing
BY DEF Executing

LEMMA StartFacts ==
  ASSUME TypeOK, Start
  PROVE  /\ Executing = {} /\ Executing' = {} /\ ~running /\ running'
         /\ mem' = Recomputed(Loaded) /\ disk' = Recomputed(Loaded) /\ log' \in {<<>>, log}
         /\ UNCHANGED <<now, has, detached, active, ext, added, removed, runs, again, stale,
                        beside, torn>>
BY LoadFacts, SameExecuting DEF Start, history, tick

LEMMA StopFacts ==
  ASSUME Stop
  PROVE  /\ running' = FALSE /\ timer' = 0 /\ Executing' = Executing
         /\ UNCHANGED <<now, mem, disk, log, has, detached, active, ext, added, removed, runs,
                        again, stale, beside, torn>>
BY SameExecuting DEF Stop, history

LEMMA CrashFacts ==
  ASSUME Crash
  PROVE  /\ running' = FALSE /\ timer' = 0 /\ Executing' = {}
         /\ \A i \in Ticks : has'[i] = {}
         /\ \/ UNCHANGED <<log, torn>>
            \/ log' = <<>> /\ torn' = TRUE
         /\ UNCHANGED <<now, disk, ext, added, removed, runs, again, stale, beside>>
BY DEF Crash, Executing

\* add_job, remove_job, enable_job and update_job: store s is saved or line e is
\* logged.
Called(j, s, e) ==
    /\ IsStore(s) /\ e \in Entry /\ e.job = j
    /\ ~e.del => e.rec = New(j) \/ ~e.rec.enabled
    /\ \/ ~running /\ s = mem
       \/ \A k \in Jobs \ {j} : /\ k \in DOMAIN s <=> k \in DOMAIN Store
                                /\ k \in DOMAIN s => s[k] = Store[k]
    /\ running => (j \in DOMAIN s <=> ~e.del) /\ (~e.del => s[j] = e.rec)
    /\ mem' = s /\ has' = has /\ active' = active /\ Executing' = Executing
    /\ detached' = detached \/ (~active /\ detached' = Executing)
    /\ running => disk' = s /\ log' = LogAfterLoad
    /\ ~running => log' = Append(log, e) /\ UNCHANGED <<disk, timer>>
    /\ UNCHANGED <<now, running, ext, runs, again, beside, torn>>
    /\ e.del => /\ j \notin SystemJobs /\ Overtaken(j, IF active THEN log ELSE <<>>)
                /\ removed' = removed \cup {j} /\ added' = added
    /\ ~e.del => /\ removed' = removed /\ added' \subseteq added \cup {j}
                 /\ stale' = IF j \in removed THEN stale \cup {j} ELSE stale

LEMMA AddFacts ==
  ASSUME TypeOK, NEW j \in Jobs, AddJob(j)
  PROVE  \E s, e : Called(j, s, e)
<1> DEFINE s == IF running THEN With(Store, j, New(j)) ELSE mem
           e == Change(j, New(j))
<1>1. IsStore(s) /\ e \in Entry /\ Commit(s, e)
  BY AddCommits DEF AddJob
<1>2. e.job = j /\ ~e.del /\ e.rec = New(j)
  <2>1. now \in 1..MaxTime
    BY DEF TypeOK
  <2> QED BY <2>1, RecordFacts
<1>3. \/ ~running /\ s = mem
      \/ \A k \in Jobs \ {j} : (k \in DOMAIN s <=> k \in DOMAIN Store) /\ (k \in DOMAIN s => s[k] = Store[k])
  <2>1. CASE running
    BY <2>1 DEF With
  <2> QED BY <2>1
<1>4. running => j \in DOMAIN s /\ s[j] = New(j)
  BY DEF With
<1>5. /\ j \notin removed /\ added' = added \cup {j}
      /\ detached' = detached \/ (~active /\ detached' = Executing)
      /\ UNCHANGED <<now, running, ext, removed, runs, again, stale, beside, torn>>
  BY DEF AddJob, Fresh, Loads
<1> HIDE DEF s, e
<1>6. /\ mem' = s /\ has' = has /\ active' = active /\ Executing' = Executing
      /\ running => disk' = s /\ log' = LogAfterLoad
      /\ ~running => log' = Append(log, e) /\ UNCHANGED <<disk, timer>>
  BY <1>1, CommitFacts
<1> QED BY <1>1, <1>2, <1>3, <1>4, <1>5, <1>6 DEF Called

LEMMA RemoveFacts ==
  ASSUME TypeOK, NEW j \in Jobs, RemoveJob(j)
  PROVE  \E s, e : Called(j, s, e)
<1> DEFINE s == Without(Store, j)
           e == Removal(j)
<1>1. IsStore(s) /\ e \in Entry /\ Commit(s, e)
  BY RemoveCommits
<1>2. e.job = j /\ e.del
  <2>1. now \in 1..MaxTime
    BY DEF TypeOK
  <2> QED BY <2>1, RecordFacts
<1>3. \A k \in Jobs \ {j} : (k \in DOMAIN s <=> k \in DOMAIN Store) /\ (k \in DOMAIN s => s[k] = Store[k])
  BY DEF Without
<1>4. j \notin DOMAIN s
  BY DEF Without
<1>5. /\ j \notin SystemJobs /\ Overtaken(j, IF active THEN log ELSE <<>>)
      /\ removed' = removed \cup {j}
      /\ detached' = detached \/ (~active /\ detached' = Executing)
      /\ UNCHANGED <<now, running, ext, added, runs, again, beside, torn>>
  BY DEF RemoveJob, Loads
<1> HIDE DEF s, e
<1>6. /\ mem' = s /\ has' = has /\ active' = active /\ Executing' = Executing
      /\ running => disk' = s /\ log' = LogAfterLoad
      /\ ~running => log' = Append(log, e) /\ UNCHANGED <<disk, timer>>
  BY <1>1, CommitFacts
<1> QED BY <1>1, <1>2, <1>3, <1>4, <1>5, <1>6 DEF Called

LEMMA ChangeFacts ==
  ASSUME TypeOK, NEW j \in Jobs, ChangeJob(j)
  PROVE  \E s, e : Called(j, s, e)
<1>0. PICK r \in Job : /\ r = New(j) \/ ~r.enabled
                       /\ IsStore(With(Store, j, r)) /\ Change(j, r) \in Entry
                       /\ Commit(With(Store, j, r), Change(j, r))
  BY ChangeCommits
<1> DEFINE s == With(Store, j, r)
           e == Change(j, r)
<1>1. IsStore(s) /\ e \in Entry /\ Commit(s, e)
  BY <1>0
<1>2. e.job = j /\ ~e.del /\ e.rec = r
  <2>1. now \in 1..MaxTime
    BY DEF TypeOK
  <2> QED BY <2>1, RecordFacts
<1>3. \A k \in Jobs \ {j} : (k \in DOMAIN s <=> k \in DOMAIN Store) /\ (k \in DOMAIN s => s[k] = Store[k])
  BY DEF With
<1>4. j \in DOMAIN s /\ s[j] = r
  BY DEF With
<1>5. /\ stale' = IF j \in removed THEN stale \cup {j} ELSE stale
      /\ detached' = detached \/ (~active /\ detached' = Executing)
      /\ UNCHANGED <<now, running, ext, added, removed, runs, again, beside, torn>>
  BY DEF ChangeJob, Loads
<1> HIDE DEF s, e
<1>6. /\ mem' = s /\ has' = has /\ active' = active /\ Executing' = Executing
      /\ running => disk' = s /\ log' = LogAfterLoad
      /\ ~running => log' = Append(log, e) /\ UNCHANGED <<disk, timer>>
  BY <1>1, CommitFacts
<1> QED BY <1>0, <1>1, <1>2, <1>3, <1>4, <1>5, <1>6 DEF Called

LEMMA RegisterFacts ==
  ASSUME TypeOK, NEW j \in Jobs, RegisterSystemJob(j)
  PROVE  /\ j \in SystemJobs /\ ~running /\ Executing = {} /\ Executing' = {} /\ IsStore(disk)'
         /\ DOMAIN disk' = DOMAIN Loaded \cup {j} /\ added' = added \cup {j}
         /\ UNCHANGED <<now, log, running, timer, has, detached, active, ext, removed, runs,
                        again, stale, beside, torn>>
<1>1. /\ disk' = With(Loaded, j, New(j)) /\ added' = added \cup {j}
      /\ j \in SystemJobs /\ ~running /\ Executing = {}
      /\ UNCHANGED <<now, log, running, timer, has, detached, active, ext, removed, runs, again,
                     stale, beside, torn>>
  BY DEF RegisterSystemJob, tick
<1>2. New(j) \in Job /\ IsStore(Loaded)
  BY RecordFacts, LoadFacts DEF TypeOK
<1>3. IsStore(disk)'
  BY <1>1, <1>2, StoreFacts DEF IsStore
<1> QED BY <1>1, <1>3, SameExecuting DEF With

\* An execution that completes: its job leaves the store, or has a new due time
\* there, unless the store is no longer the one it was read from.
LEMMA EndsFacts ==
  ASSUME TypeOK, NEW i \in Ticks, NEW r \in has[i], JobEnds(i, r)
  PROVE  /\ Executing # {} /\ i \in Executing /\ Executing' \subseteq Executing
         /\ r[1] \in Jobs /\ r = <<r[1], r[2]>> /\ r[1] \in JobsOf(i)
         /\ \A k \in Ticks : has'[k] = IF k = i THEN has[i] \ {r} ELSE has[k]
         /\ \/ mem' = Executed(mem, r[1])
            \/ i \in detached /\ mem' = ExecutedApart(mem, r[1])
         /\ DOMAIN mem' = IF r[1] \in DeleteAfter THEN DOMAIN mem \ {r[1]} ELSE DOMAIN mem
         /\ \A k \in DOMAIN mem' : k # r[1] => mem'[k] = mem[k]
         /\ \/ Executing' = Executing /\ UNCHANGED <<disk, cancelled, detached, active, timer>>
            \/ Executing' = Executing \ {i} /\ ~active' /\ detached' = detached \ {i}
                 /\ disk' = mem' /\ (timer' > 0 => running)
         /\ runs' = runs \cup {r}
         /\ again' = IF r \in runs THEN again \cup {r[1]} ELSE again
         /\ Overtaken(r[1], log)
         /\ UNCHANGED <<now, log, running, ext, added, removed, beside, torn>>
<1>1. /\ i \in Executing /\ r[1] \in Jobs /\ r = <<r[1], r[2]>> /\ r[1] \in JobsOf(i)
      /\ \A k \in Ticks : has'[k] = IF k = i THEN has[i] \ {r} ELSE has[k]
  BY EndsTicks DEF JobsOf
<1>2. \/ Executing' = Executing /\ UNCHANGED <<disk, cancelled, detached, active, timer>>
      \/ Executing' = Executing \ {i} /\ ~active' /\ detached' = detached \ {i}
           /\ disk' = mem' /\ (timer' > 0 => running)
  <2>1. CASE has[i] # {r}
    BY <2>1, EndsTicks
  <2>2. CASE has[i] = {r}
    <3>1. /\ Executing' = Executing \ {i} /\ ~active' /\ detached' = detached \ {i} /\ disk' = mem'
          /\ timer' = IF running THEN WakeAt(mem') ELSE 0
      BY <2>2, EndsTicks
    <3>2. timer' > 0 => running
      BY <3>1
    <3> QED BY <3>1, <3>2
  <2> QED BY <2>1, <2>2
<1>3. \/ i \notin detached /\ mem' = Executed(mem, r[1])
      \/ i \in detached /\ mem' = ExecutedApart(mem, r[1])
  BY DEF JobEnds
<1>4. /\ DOMAIN mem' = IF r[1] \in DeleteAfter THEN DOMAIN mem \ {r[1]} ELSE DOMAIN mem
      /\ \A k \in DOMAIN mem' : k # r[1] => mem'[k] = mem[k]
  <2>1. now \in 1..MaxTime /\ IsStore(mem)
    BY DEF TypeOK
  <2>2. CASE mem' = Executed(mem, r[1])
    BY <1>1, <2>1, <2>2, ExecutedFacts
  <2>3. CASE mem' = ExecutedApart(mem, r[1])
    BY <1>1, <2>1, <2>3, ApartFacts
  <2> QED BY <1>3, <2>2, <2>3
<1>5. /\ runs' = runs \cup {r}
      /\ again' = IF r \in runs THEN again \cup {r[1]} ELSE again
      /\ Overtaken(r[1], log)
      /\ UNCHANGED <<now, log, running, ext, added, removed, beside, torn>>
  BY DEF JobEnds
<1> QED BY <1>1, <1>2, <1>3, <1>4, <1>5

LEMMA ListFacts ==
  ASSUME TypeOK, ListJobs
  PROVE  /\ mem' = Store
         /\ active => UNCHANGED <<mem, log, disk, detached>>
         /\ ~active => detached' = Executing
         /\ \/ UNCHANGED <<log, disk>>
            \/ running /\ ~active /\ log' = <<>> /\ disk' = Loaded
         /\ Executing' = Executing
         /\ UNCHANGED <<now, running, timer, has, cancelled, active, ext, added, removed, runs,
                        again, stale, beside, torn>>
<1>1. /\ mem' = Store /\ log' = LogAfterLoad /\ disk' = IF LogAfterLoad = log THEN disk ELSE mem'
      /\ detached' = IF active THEN detached ELSE Executing
      /\ UNCHANGED <<now, running, timer, has, cancelled, active, ext, added, removed, runs, again,
                     stale, beside, torn>>
  BY DEF ListJobs, Loads, history
<1> QED BY <1>1, LoadFacts, SameExecuting

LEMMA FiresFacts ==
  ASSUME TypeOK, TickInv, NEW i \in Ticks, TickFires(i)
  PROVE  /\ running /\ i \notin Executing /\ mem' = Store
         /\ active => log' = log /\ (disk' = disk \/ disk' = mem)
         /\ ~active => disk' = Loaded /\ log' \in {<<>>, log}
         /\ \A k \in Ticks : has'[k] = IF k = i THEN DuePairs(Store) ELSE has[k]
         /\ \/ DueIn(Store) = {} /\ ~active' /\ Executing' = Executing
            \/ DueIn(Store) # {} /\ active' /\ Executing' = Executing \cup {i}
         /\ active' \/ disk' = Store
         /\ detached' = IF active THEN detached ELSE Executing
         /\ beside' = IF Executing = {} THEN beside
                      ELSE beside \cup DueIn(Store) \cup UNION {JobsOf(k) : k \in Executing}
         /\ UNCHANGED <<now, running, cancelled, ext, added, removed, runs, again, stale, torn>>
<1>1. /\ timer > 0 /\ mem' = Store /\ log' = LogAfterLoad
      /\ disk' = IF active /\ DueIn(Store) # {} THEN disk ELSE Store
      /\ active' = (DueIn(Store) # {})
      /\ detached' = IF active THEN detached ELSE Executing
      /\ beside' = IF Executing = {} THEN beside
                   ELSE beside \cup DueIn(Store) \cup UNION {JobsOf(k) : k \in Executing}
      /\ UNCHANGED <<now, running, cancelled, ext, added, removed, runs, again, stale, torn>>
  BY DEF TickFires, Loads, DueIn
<1>2. running
  BY <1>1 DEF TickInv
<1> QED BY <1>1, <1>2, FiresTicks, LoadFacts

LEMMA CancelFacts ==
  ASSUME TypeOK, NEW i \in Ticks, JobCancelled(i)
  PROVE  /\ i \in cancelled /\ Executing' = Executing \ {i}
         /\ \A k \in Ticks : has'[k] = IF k = i THEN {} ELSE has[k]
         /\ active' = FALSE /\ detached' = detached \ {i}
         /\ UNCHANGED <<now, mem, disk, log, running, timer, ext, added, removed, runs, again,
                        stale, beside, torn>>
<1>1. has \in [Ticks -> SUBSET (Jobs \X Times)] /\ has' = [has EXCEPT ![i] = {}]
  BY DEF TypeOK, JobCancelled
<1>2. \A k \in Ticks : has'[k] = IF k = i THEN {} ELSE has[k]
  BY <1>1
<1> QED BY <1>2 DEF JobCancelled, history, Executing

LEMMA SwallowFacts ==
  ASSUME NEW i \in Ticks, CancelSwallowed(i)
  PROVE  /\ cancelled' \subseteq cancelled /\ Executing' = Executing
         /\ UNCHANGED <<now, mem, disk, log, running, timer, has, detached, active, ext, added,
                        removed, runs, again, stale, beside, torn>>
BY SameExecuting DEF CancelSwallowed, history

LEMMA ReadLeaves ==
  ASSUME ExternalReads
  PROVE  /\ Executing' = Executing
         /\ UNCHANGED <<now, mem, disk, log, running, timer, has, cancelled, detached, active,
                        added, removed, runs, again, stale, beside, torn>>
BY SameExecuting DEF ExternalReads, tick, history

LEMMA AppendsLeave ==
  ASSUME ExternalAppends
  PROVE  /\ Executing' = Executing
         /\ UNCHANGED <<now, mem, disk, running, timer, has, cancelled, detached, active, runs,
                        again, stale, beside, torn>>
BY SameExecuting DEF ExternalAppends, tick

LEMMA ClockFacts ==
  ASSUME TypeOK, Clock
  PROVE  /\ 1..now \subseteq 1..now' /\ Executing' = Executing
         /\ UNCHANGED <<mem, disk, log, running, timer, has, cancelled, detached, active, ext,
                        added, removed, runs, again, stale, beside, torn>>
<1>1. now \in Nat /\ now' = now + 1
  BY DEF TypeOK, Clock
<1> QED BY <1>1, SameExecuting DEF Clock, tick, history

LEMMA StutterFacts ==
  ASSUME UNCHANGED vars
  PROVE  /\ Executing' = Executing
         /\ UNCHANGED <<now, mem, disk, log, running, timer, has, cancelled, detached, active,
                        ext, added, removed, runs, again, stale, beside, torn>>
BY SameExecuting DEF vars, tick, history

LEMMA CallCases ==
  ASSUME TypeOK, [Next]_vars
  PROVE  \/ Start \/ Stop \/ Crash
         \/ \E j \in Jobs : \E s, e : Called(j, s, e)
         \/ \E j \in Jobs : RegisterSystemJob(j)
         \/ \E i \in Ticks : \E r \in has[i] : JobEnds(i, r)
         \/ \E i \in Ticks : TickFires(i)
         \/ \E i \in Ticks : JobCancelled(i)
         \/ \E i \in Ticks : CancelSwallowed(i)
         \/ ListJobs \/ ExternalReads \/ ExternalAppends \/ Clock
         \/ UNCHANGED vars
BY StepCases, AddFacts, RemoveFacts, ChangeFacts

----------------------------------------------------------------------------
(* Removals *)

LEMMA RemovalStep ==
  ASSUME TypeOK, RemovalInv, TickInv, [Next]_vars
  PROVE  RemovalInv'
<1>0. /\ \A i \in 1..Len(log) : log[i].del => log[i].job \in removed
      /\ \A i \in 1..Len(ext) : ext[i].del => ext[i].job \notin SystemJobs
      /\ removed \cap SystemJobs = {}
      /\ log \in Seq(Entry)
  BY DEF RemovalInv, TypeOK
\* The log grows by a line that removes, at most, a job that is removed now.
<1>k. ASSUME \/ log' \in {<<>>, log}
             \/ \E a \in Entry : log' = Append(log, a) /\ (a.del => a.job \in removed'),
             removed \subseteq removed', removed' \cap SystemJobs = {},
             \A i \in 1..Len(ext') : ext'[i].del => ext'[i].job \notin SystemJobs
      PROVE  RemovalInv'
  <2>1. \A i \in 1..Len(log') : log'[i].del => log'[i].job \in removed'
    <3>1. CASE log' = <<>>
      BY <3>1
    <3>2. CASE log' = log
      BY <1>0, <1>k, <3>2
    <3>3. CASE \E a \in Entry : log' = Append(log, a) /\ (a.del => a.job \in removed')
      BY <1>0, <1>k, <3>3, AppendFacts
    <3> QED BY <1>k, <3>1, <3>2, <3>3
  <2> QED BY <1>k, <2>1 DEF RemovalInv
<1>1. CASE Start
  BY <1>0, <1>k, <1>1, StartFacts
<1>2. CASE Stop
  BY <1>0, <1>k, <1>2, StopFacts
<1>3. CASE Crash
  BY <1>0, <1>k, <1>3, CrashFacts
<1>4. ASSUME NEW j \in Jobs, NEW s, NEW e, Called(j, s, e) PROVE RemovalInv'
  <2>1. /\ removed \subseteq removed' /\ removed' \cap SystemJobs = {}
        /\ e \in Entry /\ (e.del => e.job \in removed') /\ ext' = ext
    BY <1>0, <1>4 DEF Called
  <2>2. log' = LogAfterLoad \/ log' = Append(log, e)
    BY <1>4 DEF Called
  <2> QED BY <1>0, <1>k, <2>1, <2>2, LoadFacts
<1>5. ASSUME NEW j \in Jobs, RegisterSystemJob(j) PROVE RemovalInv'
  BY <1>0, <1>k, <1>5, RegisterFacts
<1>6. ASSUME NEW i \in Ticks, NEW r \in has[i], JobEnds(i, r) PROVE RemovalInv'
  <2>1. UNCHANGED <<log, ext, removed>>
    BY <1>6 DEF JobEnds
  <2> QED BY <1>0, <1>k, <2>1
<1>7. CASE ListJobs
  <2>1. log' \in {<<>>, log} /\ UNCHANGED <<ext, removed>>
    BY <1>7, ListFacts
  <2> QED BY <1>0, <1>k, <2>1
<1>8. ASSUME NEW i \in Ticks, TickFires(i) PROVE RemovalInv'
  <2>1. log' \in {<<>>, log} /\ UNCHANGED <<ext, removed>>
    BY <1>8, FiresFacts
  <2> QED BY <1>0, <1>k, <2>1
<1>9. ASSUME NEW i \in Ticks, JobCancelled(i) PROVE RemovalInv'
  BY <1>0, <1>k, <1>9, CancelFacts
<1>10. ASSUME NEW i \in Ticks, CancelSwallowed(i) PROVE RemovalInv'
  BY <1>0, <1>k, <1>10, SwallowFacts
<1>11. CASE ExternalReads
  <2>1. UNCHANGED <<log, removed>>
    BY <1>11, ReadLeaves
  <2>2. PICK a \in Entry : ext' = <<a>> /\ (a.del => a.job \notin SystemJobs)
    BY <1>11, ReadFacts
  <2>3. \A i \in 1..Len(ext') : ext'[i].del => ext'[i].job \notin SystemJobs
    BY <2>2
  <2> QED BY <1>0, <1>k, <2>1, <2>3
<1>12. CASE ExternalAppends
  <2>1. PICK a \in Entry : /\ ext[1] = a /\ ext' = <<>> /\ Len(ext) = 1 /\ log' = Append(log, a)
                           /\ a.del => removed' = removed \cup {a.job}
                           /\ ~a.del => removed' = removed
    BY <1>12, AppendsFacts
  <2>2. a.del => a.job \notin SystemJobs
    BY <1>0, <2>1
  <2>3. \A i \in 1..Len(ext') : ext'[i].del => ext'[i].job \notin SystemJobs
    BY <2>1
  <2>4. removed \subseteq removed' /\ removed' \cap SystemJobs = {} /\ (a.del => a.job \in removed')
    BY <1>0, <2>1, <2>2
  <2> QED BY <1>k, <2>1, <2>3, <2>4
<1>13. CASE Clock
  BY <1>0, <1>k, <1>13, ClockFacts
<1>14. CASE UNCHANGED vars
  BY <1>0, <1>k, <1>14, StutterFacts
<1> QED BY <1>1, <1>2, <1>3, <1>4, <1>5, <1>6, <1>7, <1>8, <1>9, <1>10, <1>11, <1>12, <1>13,
           <1>14, CallCases

----------------------------------------------------------------------------
(* Ticks *)

LEMMA TickStep ==
  ASSUME TypeOK, TickInv, [Next]_vars
  PROVE  TickInv'
<1>0. /\ timer > 0 => running
      /\ \A i \in Ticks : \A r \in has[i] : r[2] \in 1..now
      /\ \A r \in runs : r[2] \in 1..now
      /\ now \in 1..MaxTime
  BY DEF TickInv, TypeOK
<1>k. ASSUME timer' > 0 => running',
             \A i \in Ticks : \A r \in has'[i] : r[2] \in 1..now',
             \A r \in runs' : r[2] \in 1..now'
      PROVE  TickInv'
  BY <1>k DEF TickInv
<1>1. CASE Start
  BY <1>0, <1>k, <1>1, StartFacts
<1>2. CASE Stop
  BY <1>0, <1>k, <1>2, StopFacts
<1>3. CASE Crash
  <2>1. /\ running' = FALSE /\ timer' = 0 /\ (\A i \in Ticks : has'[i] = {})
        /\ UNCHANGED <<now, runs>>
    BY <1>3, CrashFacts
  <2> QED BY <1>0, <1>k, <2>1
<1>4. ASSUME NEW j \in Jobs, NEW s, NEW e, Called(j, s, e) PROVE TickInv'
  <2>1. /\ UNCHANGED <<now, has, running, runs>>
        /\ ~running => UNCHANGED timer
    BY <1>4 DEF Called
  <2> QED BY <1>0, <1>k, <2>1
<1>5. ASSUME NEW j \in Jobs, RegisterSystemJob(j) PROVE TickInv'
  BY <1>0, <1>k, <1>5, RegisterFacts
<1>6. ASSUME NEW i \in Ticks, NEW r \in has[i], JobEnds(i, r) PROVE TickInv'
  <2>1. /\ \A k \in Ticks : has'[k] = IF k = i THEN has[i] \ {r} ELSE has[k]
        /\ timer' = timer \/ (timer' > 0 => running)
        /\ runs' = runs \cup {r} /\ UNCHANGED <<now, running>>
    BY <1>6, EndsFacts
  <2>2. r[2] \in 1..now
    BY <1>0
  <2>3. \A k \in Ticks : has'[k] \subseteq has[k]
    BY <2>1
  <2> QED BY <1>0, <1>k, <2>1, <2>2, <2>3
<1>7. CASE ListJobs
  BY <1>0, <1>k, <1>7, ListFacts
<1>8. ASSUME NEW i \in Ticks, TickFires(i) PROVE TickInv'
  <2>1. /\ running /\ UNCHANGED <<now, running, runs>>
        /\ \A k \in Ticks : has'[k] = IF k = i THEN DuePairs(Store) ELSE has[k]
    BY <1>8, FiresFacts
  <2>2. \A r \in DuePairs(Store) : r[2] \in 1..now
    BY DEF DuePairs, DueIn
  <2> QED BY <1>0, <1>k, <2>1, <2>2
<1>9. ASSUME NEW i \in Ticks, JobCancelled(i) PROVE TickInv'
  <2>1. /\ \A k \in Ticks : has'[k] = IF k = i THEN {} ELSE has[k]
        /\ UNCHANGED <<now, running, timer, runs>>
    BY <1>9, CancelFacts
  <2> QED BY <1>0, <1>k, <2>1
<1>10. ASSUME NEW i \in Ticks, CancelSwallowed(i) PROVE TickInv'
  BY <1>0, <1>k, <1>10, SwallowFacts
<1>11. CASE ExternalReads
  BY <1>0, <1>k, <1>11, ReadLeaves
<1>12. CASE ExternalAppends
  BY <1>0, <1>k, <1>12, AppendsLeave
<1>13. CASE Clock
  <2>1. /\ 1..now \subseteq 1..now'
        /\ UNCHANGED <<running, timer, has, runs>>
    BY <1>13, ClockFacts
  <2> QED BY <1>0, <1>k, <2>1
<1>14. CASE UNCHANGED vars
  BY <1>0, <1>k, <1>14, StutterFacts
<1> QED BY <1>1, <1>2, <1>3, <1>4, <1>5, <1>6, <1>7, <1>8, <1>9, <1>10, <1>11, <1>12, <1>13,
           <1>14, CallCases

\* Two ticks that execute together know of it: the later one, when it fires.
LEMMA BesideStep ==
  ASSUME TypeOK, BesideInv, TickInv, [Next]_vars
  PROVE  BesideInv'
<1>0. /\ \A i, k \in Executing : i # k => JobsOf(i) \subseteq beside
      /\ \A i \in Executing : ~active \/ i \in detached => JobsOf(i) \subseteq beside
      /\ Executing \subseteq Ticks
  BY DEF BesideInv, Executing
\* The steps that leave the ticks alone, but for the store they have.
<1>k. ASSUME has' = has, beside' = beside, active' = active,
             detached' = detached \/ (~active /\ detached' = Executing)
      PROVE  BesideInv'
  <2>1. Executing' = Executing /\ \A i : JobsOf(i)' = JobsOf(i)
    BY <1>k DEF Executing, JobsOf
  <2> QED BY <1>0, <1>k, <2>1 DEF BesideInv
\* The steps that end one tick, or one of its jobs.
<1>g. ASSUME NEW i \in Executing, beside' = beside,
             \A k \in Ticks : has'[k] \subseteq has[k],
             \/ Executing' = Executing /\ UNCHANGED <<detached, active>>
             \/ Executing' = Executing \ {i} /\ detached' = detached \ {i}
      PROVE  BesideInv'
  <2>1. \A k \in Executing : JobsOf(k)' \subseteq JobsOf(k)
    BY <1>0, <1>g DEF JobsOf
  <2>2. CASE Executing' = Executing /\ UNCHANGED <<detached, active>>
    BY <1>0, <1>g, <2>1, <2>2 DEF BesideInv
  <2>3. CASE Executing' = Executing \ {i} /\ detached' = detached \ {i}
    <3>1. \A k \in Executing' : k # i /\ k \in Executing /\ JobsOf(k) \subseteq beside
      BY <1>0, <2>3
    <3> QED BY <1>g, <2>1, <3>1 DEF BesideInv
  <2> QED BY <1>g, <2>2, <2>3
<1>1. CASE Start
  BY <1>k, <1>1, StartFacts
<1>2. CASE Stop
  BY <1>k, <1>2, StopFacts
<1>3. CASE Crash
  BY <1>3, CrashFacts DEF BesideInv
<1>4. ASSUME NEW j \in Jobs, NEW s, NEW e, Called(j, s, e) PROVE BesideInv'
  BY <1>k, <1>4 DEF Called
<1>5. ASSUME NEW j \in Jobs, RegisterSystemJob(j) PROVE BesideInv'
  BY <1>k, <1>5, RegisterFacts
<1>6. ASSUME NEW i \in Ticks, NEW r \in has[i], JobEnds(i, r) PROVE BesideInv'
  <2>1. /\ i \in Executing /\ beside' = beside
        /\ \A k \in Ticks : has'[k] = IF k = i THEN has[i] \ {r} ELSE has[k]
        /\ \/ Executing' = Executing /\ UNCHANGED <<detached, active>>
           \/ Executing' = Executing \ {i} /\ detached' = detached \ {i}
    BY <1>6, EndsFacts
  <2>2. \A k \in Ticks : has'[k] \subseteq has[k]
    BY <2>1
  <2> QED BY <1>g, <2>1, <2>2
<1>7. CASE ListJobs
  BY <1>k, <1>7, ListFacts
<1>8. ASSUME NEW i \in Ticks, TickFires(i) PROVE BesideInv'
  <2>1. /\ i \notin Executing
        /\ \A k \in Ticks : has'[k] = IF k = i THEN DuePairs(Store) ELSE has[k]
        /\ \/ DueIn(Store) = {} /\ ~active' /\ Executing' = Executing
           \/ DueIn(Store) # {} /\ active' /\ Executing' = Executing \cup {i}
        /\ detached' = IF active THEN detached ELSE Executing
        /\ beside' = IF Executing = {} THEN beside
                     ELSE beside \cup DueIn(Store) \cup UNION {JobsOf(k) : k \in Executing}
    BY <1>8, FiresFacts
  <2>2. \A k \in Executing : JobsOf(k)' = JobsOf(k) /\ JobsOf(k) \subseteq beside'
    <3>1. \A k \in Executing : JobsOf(k)' = JobsOf(k)
      BY <1>0, <2>1 DEF JobsOf
    <3> QED BY <2>1, <3>1
  <2>3. JobsOf(i)' = DueIn(Store)
    <3>1. JobsOf(i)' = {r[1] : r \in DuePairs(Store)}
      BY <2>1 DEF JobsOf
    <3>2. \A r \in DuePairs(Store) : r[1] \in DueIn(Store)
      BY DEF DuePairs
    <3>3. \A j \in DueIn(Store) : <<j, Store[j].next>> \in DuePairs(Store)
      BY DEF DuePairs
    <3>4. \A j \in DueIn(Store) : \E r \in DuePairs(Store) : r[1] = j
      <4>1. ASSUME NEW j \in DueIn(Store) PROVE \E r \in DuePairs(Store) : r[1] = j
        <5>1. <<j, Store[j].next>>[1] = j
          OBVIOUS
        <5> QED BY <3>3, <5>1
      <4> QED BY <4>1
    <3> QED BY <3>1, <3>2, <3>4
  <2>4. Executing # {} => DueIn(Store) \subseteq beside'
    BY <2>1
  <2>5. detached \subseteq Executing
    BY DEF TypeOK
  <2>6. i \notin detached'
    BY <2>1, <2>5
  <2>7. ASSUME NEW x \in Executing', NEW y \in Executing', x # y
        PROVE  JobsOf(x)' \subseteq beside'
    <3>1. CASE x \in Executing
      BY <2>2, <3>1
    <3>2. CASE x = i
      <4>1. y \in Executing
        BY <2>1, <2>7, <3>2
      <4> QED BY <2>3, <2>4, <3>2, <4>1
    <3> QED BY <2>1, <3>1, <3>2
  <2>8. ASSUME NEW x \in Executing', ~active' \/ x \in detached'
        PROVE  JobsOf(x)' \subseteq beside'
    <3>1. x \in Executing
      BY <2>1, <2>6, <2>8
    <3> QED BY <2>2, <3>1
  <2> QED BY <2>7, <2>8 DEF BesideInv
<1>9. ASSUME NEW i \in Ticks, JobCancelled(i) PROVE BesideInv'
  <2>1. /\ i \in cancelled /\ Executing' = Executing \ {i} /\ detached' = detached \ {i}
        /\ \A k \in Ticks : has'[k] = IF k = i THEN {} ELSE has[k]
        /\ beside' = beside
    BY <1>9, CancelFacts
  <2>2. i \in Executing /\ \A k \in Ticks : has'[k] \subseteq has[k]
    BY <2>1 DEF TypeOK
  <2> QED BY <1>g, <2>1, <2>2
<1>10. ASSUME NEW i \in Ticks, CancelSwallowed(i) PROVE BesideInv'
  BY <1>k, <1>10, SwallowFacts
<1>11. CASE ExternalReads
  BY <1>k, <1>11, ReadLeaves
<1>12. CASE ExternalAppends
  BY <1>k, <1>12, AppendsLeave
<1>13. CASE Clock
  BY <1>k, <1>13, ClockFacts
<1>14. CASE UNCHANGED vars
  BY <1>k, <1>14, StutterFacts
<1> QED BY <1>1, <1>2, <1>3, <1>4, <1>5, <1>6, <1>7, <1>8, <1>9, <1>10, <1>11, <1>12, <1>13,
           <1>14, CallCases

----------------------------------------------------------------------------
(* Jobs that were added *)

LEMMA KeptStep ==
  ASSUME TypeOK, RemovalInv, TickInv, KeptInv, [Next]_vars, TypeOK'
  PROVE  KeptInv'
<1> SUFFICES ASSUME NEW j \in added' \ removed', ~RunOnce(j)', ~torn'
             PROVE  There(j)'
  BY DEF KeptInv
<1>0. /\ IsStore(disk) /\ IsStore(mem) /\ IsStore(Loaded) /\ log \in Seq(Entry) /\ now \in 1..MaxTime
      /\ j \in Jobs /\ DOMAIN Loaded \subseteq Jobs
  BY LoadFacts DEF TypeOK, IsStore
<1>a. ASSUME j \in added, j \notin removed, runs \subseteq runs', ~torn
      PROVE  Mentions(log, j) \/ (j \in DOMAIN disk /\ (Executing # {} => j \in DOMAIN mem))
  <2>1. There(j) \/ RunOnce(j) \/ torn
    BY <1>a DEF KeptInv
  <2>2. ~RunOnce(j)
    BY <1>a DEF RunOnce
  <2> QED BY <1>a, <2>1, <2>2 DEF There
<1>b. ASSUME j \notin removed
      PROVE  j \in DOMAIN Loaded <=> Mentions(log, j) \/ j \in DOMAIN disk
  <2>1. \A i \in 1..Len(log) : log[i].job = j => ~log[i].del
    BY <1>b DEF RemovalInv
  <2> QED BY <1>0, <2>1, OnlyChanges DEF Loaded
<1>k. ASSUME Mentions(log', j) \/ (j \in DOMAIN disk' /\ (Executing' # {} => j \in DOMAIN mem'))
      PROVE  There(j)'
  BY <1>k DEF There
<1>1. CASE Start
  <2>1. /\ Executing' = {} /\ disk' = Recomputed(Loaded)
        /\ UNCHANGED <<added, removed, runs, torn>>
    BY <1>1, StartFacts
  <2>2. DOMAIN disk' = DOMAIN Loaded
    BY <1>0, <2>1, RecomputedFacts
  <2> QED BY <1>a, <1>b, <1>k, <2>1, <2>2
<1>2. CASE Stop
  BY <1>a, <1>k, <1>2, StopFacts
<1>3. CASE Crash
  BY <1>a, <1>k, <1>3, CrashFacts
<1>4. ASSUME NEW h \in Jobs, NEW s, NEW e, Called(h, s, e) PROVE There(j)'
  <2>1. /\ e \in Entry /\ e.job = h /\ mem' = s /\ Executing' = Executing
        /\ running => disk' = s /\ log' = LogAfterLoad
        /\ ~running => log' = Append(log, e) /\ disk' = disk
        /\ UNCHANGED <<running, runs, torn>>
        /\ removed \subseteq removed' /\ added' \subseteq added \cup {h}
        /\ e.del => h \in removed'
    BY <1>4 DEF Called
  <2>2. CASE j = h
    <3>1. ~e.del
      BY <2>1, <2>2
    <3>2. CASE running
      <4>1. j \in DOMAIN s
        BY <1>4, <2>2, <3>1, <3>2 DEF Called
      <4> QED BY <1>k, <2>1, <3>2, <4>1
    <3>3. CASE ~running
      <4>1. Mentions(log', j)
        BY <1>0, <2>1, <2>2, <3>3, AppendMentions
      <4> QED BY <1>k, <4>1
    <3> QED BY <3>2, <3>3
  <2>3. CASE j # h
    <3>1. Mentions(log, j) \/ (j \in DOMAIN disk /\ (Executing # {} => j \in DOMAIN mem))
      BY <1>a, <2>1, <2>3
    <3>2. j \in DOMAIN Loaded <=> Mentions(log, j) \/ j \in DOMAIN disk
      BY <1>b, <2>1
    <3>3. CASE s = mem /\ ~running
      BY <1>k, <2>1, <3>1, <3>3, AppendMentions, <1>0
    <3>4. CASE /\ j \in DOMAIN s <=> j \in DOMAIN Store
               /\ ~active
      <4>1. Store = Loaded /\ j \in DOMAIN s
        BY <3>1, <3>2, <3>4, LoadFacts
      <4>2. CASE running
        BY <1>k, <2>1, <4>1, <4>2
      <4>3. CASE ~running
        <5>1. Mentions(log, j) => Mentions(log', j)
          BY <1>0, <2>1, <4>3, AppendMentions
        <5> QED BY <1>k, <2>1, <3>1, <4>1, <4>3, <5>1
      <4> QED BY <4>2, <4>3
    <3>5. CASE /\ j \in DOMAIN s <=> j \in DOMAIN Store
               /\ active
      <4>1. Store = mem /\ LogAfterLoad = log /\ Executing # {}
        BY <3>5, LoadFacts
      <4>2. ~running /\ Mentions(log, j) => Mentions(log', j)
        BY <1>0, <2>1, AppendMentions
      <4> QED BY <1>k, <2>1, <3>1, <3>5, <4>1, <4>2
    <3>6. (s = mem /\ ~running) \/ (j \in DOMAIN s <=> j \in DOMAIN Store)
      BY <1>0, <1>4, <2>3 DEF Called
    <3> QED BY <3>3, <3>4, <3>5, <3>6
  <2> QED BY <2>2, <2>3
<1>5. ASSUME NEW h \in Jobs, RegisterSystemJob(h) PROVE There(j)'
  <2>1. /\ Executing = {} /\ Executing' = {} /\ DOMAIN disk' = DOMAIN Loaded \cup {h} /\ added' = added \cup {h}
        /\ UNCHANGED <<removed, runs, torn>>
    BY <1>5, RegisterFacts
  <2> QED BY <1>a, <1>b, <1>k, <2>1
<1>6. ASSUME NEW i \in Ticks, NEW r \in has[i], JobEnds(i, r) PROVE There(j)'
  <2>1. /\ Executing # {} /\ runs' = runs \cup {r}
        /\ DOMAIN mem' = IF r[1] \in DeleteAfter THEN DOMAIN mem \ {r[1]} ELSE DOMAIN mem
        /\ disk' = disk \/ disk' = mem'
        /\ UNCHANGED <<log, added, removed, torn>>
    BY <1>6, EndsFacts
  <2>2. ~(j = r[1] /\ j \in DeleteAfter)
    BY <2>1 DEF RunOnce
  <2>3. j \in DOMAIN mem => j \in DOMAIN mem'
    BY <2>1, <2>2
  <2>4. Mentions(log, j) \/ (j \in DOMAIN disk /\ (Executing # {} => j \in DOMAIN mem))
    BY <1>a, <2>1
  <2> QED BY <1>k, <2>1, <2>3, <2>4
<1>7. CASE ListJobs
  <2>1. /\ mem' = Store /\ (active => UNCHANGED <<mem, log, disk>>)
        /\ \/ UNCHANGED <<log, disk>>
           \/ ~active /\ disk' = Loaded
        /\ Executing' = Executing /\ UNCHANGED <<added, removed, runs, torn>>
    BY <1>7, ListFacts
  <2>2. CASE active
    BY <1>a, <1>k, <2>1, <2>2
  <2>3. CASE ~active
    <3>1. mem' = Loaded
      BY <2>1, <2>3, LoadFacts
    <3> QED BY <1>a, <1>b, <1>k, <2>1, <3>1
  <2> QED BY <2>2, <2>3
<1>8. ASSUME NEW i \in Ticks, TickFires(i) PROVE There(j)'
  <2>1. /\ mem' = Store
        /\ active => log' = log /\ (disk' = disk \/ disk' = mem)
        /\ ~active => disk' = Loaded
        /\ UNCHANGED <<added, removed, runs, torn>>
    BY <1>8, FiresFacts
  <2>2. CASE active
    <3>1. Store = mem /\ Executing # {}
      BY <2>2, LoadFacts
    <3> QED BY <1>a, <1>k, <2>1, <2>2, <3>1
  <2>3. CASE ~active
    <3>1. Store = Loaded
      BY <2>3, LoadFacts
    <3> QED BY <1>a, <1>b, <1>k, <2>1, <2>3, <3>1
  <2> QED BY <2>2, <2>3
<1>9. ASSUME NEW i \in Ticks, JobCancelled(i) PROVE There(j)'
  <2>1. i \in cancelled /\ UNCHANGED <<mem, disk, log, added, removed, runs, torn>>
    BY <1>9, CancelFacts
  <2>2. Executing # {}
    BY <2>1 DEF TypeOK
  <2> QED BY <1>a, <1>k, <2>1, <2>2
<1>10. ASSUME NEW i \in Ticks, CancelSwallowed(i) PROVE There(j)'
  BY <1>a, <1>k, <1>10, SwallowFacts
<1>11. CASE ExternalReads
  BY <1>a, <1>k, <1>11, ReadLeaves
<1>12. CASE ExternalAppends
  <2>1. PICK a \in Entry : /\ log' = Append(log, a)
                           /\ a.del => removed' = removed \cup {a.job} /\ added' = added
                           /\ ~a.del => added' = added \cup {a.job} /\ removed' = removed
    BY <1>12, AppendsFacts
  <2>2. Executing' = Executing /\ UNCHANGED <<mem, disk, runs, torn>>
    BY <1>12, AppendsLeave
  <2>3. Mentions(log', j) <=> Mentions(log, j) \/ a.job = j
    BY <1>0, <2>1, AppendMentions
  <2> QED BY <1>a, <1>k, <2>1, <2>2, <2>3
<1>13. CASE Clock
  BY <1>a, <1>k, <1>13, ClockFacts
<1>14. CASE UNCHANGED vars
  BY <1>a, <1>k, <1>14, StutterFacts
<1> QED BY <1>1, <1>2, <1>3, <1>4, <1>5, <1>6, <1>7, <1>8, <1>9, <1>10, <1>11, <1>12, <1>13,
           <1>14, CallCases

----------------------------------------------------------------------------
(* Jobs that were removed *)

\* Nobody changes j without sight of what is done now: no change of j is about
\* to be appended or is among the lines not yet merged.
LEMMA NotOvertaken ==
  ASSUME TypeOK, NEW j, NEW lines \in Seq(Entry), Overtaken(j, lines), j \notin stale'
  PROVE  /\ \A i \in 1..Len(ext) : ext[i].job = j => ext[i].del
         /\ \A i \in 1..Len(lines) : lines[i].job = j => lines[i].del
         /\ stale' = stale
<1>1. ext \in Seq(Entry)
  BY DEF TypeOK
<1>2. \A i \in 1..Len(ext) : ext[i] \in ToSet(ext)
  BY <1>1 DEF ToSet
<1>3. \A i \in 1..Len(lines) : lines[i] \in ToSet(lines)
  BY DEF ToSet
<1>4. ~\E a \in ToSet(ext) \cup ToSet(lines) : a.job = j /\ ~a.del
  BY DEF Overtaken
<1>5. stale' = stale
  BY <1>4 DEF Overtaken
<1> QED BY <1>2, <1>3, <1>4, <1>5

\* A job that is gone stays gone when the store that is saved lacks it, or has
\* it and the log that stays removes it.
LEMMA StaysGone ==
  ASSUME TypeOK, TypeOK', NEW j, j \notin DOMAIN Loaded,
         \/ log' = <<>> /\ j \notin DOMAIN disk'
         \/ log' = log /\ (j \notin DOMAIN disk' \/ disk' = disk \/ Mentions(log, j))
         \/ disk' = disk /\ \E a \in Entry : log' = Append(log, a) /\ (a.job = j => a.del)
  PROVE  j \notin DOMAIN Loaded'
<1>0. /\ IsStore(disk) /\ IsStore(disk') /\ log \in Seq(Entry)
      /\ Loaded = Replay(disk, log) /\ Loaded' = Replay(disk', log')
  BY DEF TypeOK, IsStore, Loaded
<1>1. CASE log' = <<>> /\ j \notin DOMAIN disk'
  BY <1>0, <1>1, ReplayNone
<1>2. CASE log' = log /\ Mentions(log, j)
  BY <1>0, <1>2, MentionedSame
<1>3. CASE log' = log /\ ~Mentions(log, j) /\ j \notin DOMAIN disk'
  BY <1>0, <1>3, Unmentioned
<1>4. CASE log' = log /\ disk' = disk
  BY <1>0, <1>4
<1>5. CASE disk' = disk /\ \E a \in Entry : log' = Append(log, a) /\ (a.job = j => a.del)
  BY <1>0, <1>5, ReplayAppend
<1> QED BY <1>1, <1>2, <1>3, <1>4, <1>5

LEMMA GoneStep ==
  ASSUME TypeOK, RemovalInv, TickInv, GoneInv, [Next]_vars, TypeOK'
  PROVE  GoneInv'
<1> SUFFICES ASSUME NEW j \in removed' \ stale', ~torn'
             PROVE  Gone(j)'
  BY DEF GoneInv
<1>0. /\ IsStore(disk) /\ IsStore(mem) /\ IsStore(Loaded) /\ log \in Seq(Entry) /\ now \in 1..MaxTime
      /\ j \in Jobs /\ DOMAIN Loaded \subseteq Jobs
  BY LoadFacts DEF TypeOK, IsStore
<1>a. ASSUME j \in removed, stale \subseteq stale', ~torn
      PROVE  /\ \A i \in 1..Len(ext) : ext[i].job = j => ext[i].del
             /\ j \notin DOMAIN Loaded
             /\ Executing # {} /\ j \in DOMAIN mem => Mentions(log, j)
  BY <1>a DEF GoneInv, Gone
<1>k. ASSUME \A i \in 1..Len(ext') : ext'[i].job = j => ext'[i].del,
             j \notin DOMAIN Loaded',
             Executing' # {} /\ j \in DOMAIN mem' => Mentions(log', j)
      PROVE  Gone(j)'
  BY <1>k DEF Gone
\* The steps that leave the lines about to be appended alone.
<1>g. ASSUME j \in removed, stale \subseteq stale', ~torn, ext' = ext,
             \/ log' = <<>> /\ j \notin DOMAIN disk'
             \/ log' = log /\ (j \notin DOMAIN disk' \/ disk' = disk \/ Mentions(log, j)),
             Executing' # {} /\ j \in DOMAIN mem' => Mentions(log', j)
      PROVE  Gone(j)'
  <2>1. j \notin DOMAIN Loaded'
    BY <1>a, <1>g, StaysGone
  <2> QED BY <1>a, <1>g, <1>k, <2>1
<1>1. CASE Start
  <2>1. /\ Executing' = {} /\ disk' = Recomputed(Loaded) /\ log' \in {<<>>, log}
        /\ UNCHANGED <<ext, removed, stale, torn>>
    BY <1>1, StartFacts
  <2>2. DOMAIN disk' = DOMAIN Loaded
    BY <1>0, <2>1, RecomputedFacts
  <2> QED BY <1>a, <1>g, <2>1, <2>2
<1>2. CASE Stop
  <2>1. Executing' = Executing /\ UNCHANGED <<mem, disk, log, ext, removed, stale, torn>>
    BY <1>2, StopFacts
  <2> QED BY <1>a, <1>g, <2>1
<1>3. CASE Crash
  <2>1. Executing' = {} /\ UNCHANGED <<disk, log, ext, removed, stale, torn>>
    BY <1>3, CrashFacts
  <2> QED BY <1>g, <2>1
<1>4. ASSUME NEW h \in Jobs, NEW s, NEW e, Called(h, s, e) PROVE Gone(j)'
  <2>1. /\ e \in Entry /\ e.job = h /\ mem' = s /\ Executing' = Executing /\ IsStore(s)
        /\ running => disk' = s /\ log' = LogAfterLoad
        /\ ~running => log' = Append(log, e) /\ disk' = disk
        /\ UNCHANGED <<running, ext, torn>>
        /\ e.del => removed' = removed \cup {h} /\ Overtaken(h, IF active THEN log ELSE <<>>)
        /\ ~e.del => removed' = removed /\ stale' = IF h \in removed THEN stale \cup {h} ELSE stale
    BY <1>4 DEF Called
  <2>2. CASE j = h
    <3>1. e.del /\ Overtaken(j, IF active THEN log ELSE <<>>)
      BY <2>1, <2>2
    <3>2. /\ \A i \in 1..Len(ext) : ext[i].job = j => ext[i].del
          /\ active => \A i \in 1..Len(log) : log[i].job = j => log[i].del
      <4>1. CASE active
        <5>1. Overtaken(j, log)
          BY <3>1, <4>1
        <5> QED BY <1>0, <5>1, NotOvertaken
      <4>2. CASE ~active
        <5>1. Overtaken(j, <<>>) /\ <<>> \in Seq(Entry)
          BY <3>1, <4>2
        <5> QED BY <4>2, <5>1, NotOvertaken
      <4> QED BY <4>1, <4>2
    <3>3. CASE running
      <4>1. j \notin DOMAIN s
        BY <1>4, <2>2, <3>1, <3>3 DEF Called
      <4>2. \/ log' = <<>>
            \/ log' = log /\ \A i \in 1..Len(log) : log[i].job = j => log[i].del
        BY <2>1, <3>2, <3>3, LoadFacts, LeftOver
      <4>3. Loaded' = Replay(disk', log') /\ disk' = s
        BY <2>1, <3>3 DEF Loaded
      <4>4. j \notin DOMAIN Loaded'
        <5>1. CASE log' = <<>>
          BY <2>1, <4>1, <4>3, <5>1, ReplayNone
        <5>2. CASE log' = log /\ Mentions(log, j)
          <6>1. PICK i \in 1..Len(log) : log[i].job = j /\ (j \in DOMAIN Replay(s, log) <=> ~log[i].del)
            BY <1>0, <2>1, <5>2, Mentioned
          <6>2. log # <<>>
            BY <6>1
          <6> QED BY <4>2, <4>3, <5>2, <6>1, <6>2
        <5>3. CASE log' = log /\ ~Mentions(log, j)
          BY <1>0, <2>1, <4>1, <4>3, <5>3, Unmentioned
        <5> QED BY <4>2, <5>1, <5>2, <5>3
      <4> QED BY <1>k, <2>1, <3>2, <4>1, <4>4
    <3>4. CASE ~running
      <4>1. log' = Append(log, e) /\ disk' = disk /\ Loaded' = Replay(disk, Append(log, e))
        BY <2>1, <3>4 DEF Loaded
      <4>2. j \notin DOMAIN Loaded'
        BY <1>0, <2>1, <2>2, <3>1, <4>1, ReplayAppend
      <4>3. Mentions(log', j)
        BY <1>0, <2>1, <2>2, <4>1, AppendMentions
      <4> QED BY <1>k, <2>1, <3>2, <4>2, <4>3
    <3> QED BY <3>3, <3>4
  <2>3. CASE j # h
    <3>0. j \in removed /\ stale \subseteq stale' /\ ~torn
      BY <2>1, <2>3 DEF Overtaken
    <3>1. /\ \A i \in 1..Len(ext) : ext[i].job = j => ext[i].del
          /\ j \notin DOMAIN Loaded
          /\ Executing # {} /\ j \in DOMAIN mem => Mentions(log, j)
      BY <1>a, <3>0
    <3>2. CASE s = mem /\ ~running
      <4>1. Mentions(log, j) => Mentions(log', j)
        BY <1>0, <2>1, <3>2, AppendMentions
      <4>2. j \notin DOMAIN Loaded'
        BY <2>1, <2>3, <3>1, <3>2, StaysGone
      <4> QED BY <1>k, <2>1, <3>1, <3>2, <4>1, <4>2
    <3>3. CASE (j \in DOMAIN s <=> j \in DOMAIN Store) /\ ~active /\ running
      <4>1. Store = Loaded /\ LogAfterLoad \in {<<>>, log}
        BY <3>3, LoadFacts
      <4> QED BY <1>g, <2>1, <3>0, <3>1, <3>3, <4>1
    <3>4. CASE (j \in DOMAIN s <=> j \in DOMAIN Store) /\ active /\ running
      <4>1. Store = mem /\ LogAfterLoad = log /\ Executing # {}
        BY <3>4, LoadFacts
      <4> QED BY <1>g, <2>1, <3>0, <3>1, <3>4, <4>1
    <3>5. CASE (j \in DOMAIN s <=> j \in DOMAIN Store) /\ ~running
      <4>1. j \in DOMAIN s => j \in DOMAIN mem /\ Executing # {}
        BY <3>1, <3>5, LoadFacts
      <4>2. Mentions(log, j) => Mentions(log', j)
        BY <1>0, <2>1, <3>5, AppendMentions
      <4>3. j \notin DOMAIN Loaded'
        BY <2>1, <2>3, <3>1, <3>5, StaysGone
      <4> QED BY <1>k, <2>1, <3>1, <4>1, <4>2, <4>3
    <3>6. (s = mem /\ ~running) \/ (j \in DOMAIN s <=> j \in DOMAIN Store)
      BY <1>0, <1>4, <2>3 DEF Called
    <3> QED BY <3>2, <3>3, <3>4, <3>5, <3>6
  <2> QED BY <2>2, <2>3
<1>5. ASSUME NEW h \in Jobs, RegisterSystemJob(h) PROVE Gone(j)'
  <2>1. /\ h \in SystemJobs /\ Executing' = {} /\ DOMAIN disk' = DOMAIN Loaded \cup {h}
        /\ UNCHANGED <<log, ext, removed, stale, torn>>
    BY <1>5, RegisterFacts
  <2>2. j # h
    BY <2>1 DEF RemovalInv
  <2> QED BY <1>a, <1>g, <2>1, <2>2
<1>6. ASSUME NEW i \in Ticks, NEW r \in has[i], JobEnds(i, r) PROVE Gone(j)'
  <2>1. /\ Executing # {}
        /\ DOMAIN mem' = IF r[1] \in DeleteAfter THEN DOMAIN mem \ {r[1]} ELSE DOMAIN mem
        /\ disk' = disk \/ disk' = mem'
        /\ Overtaken(r[1], log)
        /\ UNCHANGED <<log, ext, removed, torn>>
    BY <1>6, EndsFacts
  <2>2. stale \subseteq stale'
    BY <2>1 DEF Overtaken
  <2>3. j \in DOMAIN mem' => j \in DOMAIN mem
    BY <2>1
  <2> QED BY <1>a, <1>g, <2>1, <2>2, <2>3
<1>7. CASE ListJobs
  <2>1. /\ mem' = Store /\ (active => UNCHANGED <<mem, log, disk>>)
        /\ \/ UNCHANGED <<log, disk>>
           \/ ~active /\ log' = <<>> /\ disk' = Loaded
        /\ Executing' = Executing /\ UNCHANGED <<ext, removed, stale, torn>>
    BY <1>7, ListFacts
  <2>2. CASE active
    BY <1>a, <1>g, <2>1, <2>2
  <2>3. CASE ~active
    <3>1. mem' = Loaded
      BY <2>1, <2>3, LoadFacts
    <3> QED BY <1>a, <1>g, <2>1, <3>1
  <2> QED BY <2>2, <2>3
<1>8. ASSUME NEW i \in Ticks, TickFires(i) PROVE Gone(j)'
  <2>1. /\ mem' = Store
        /\ active => log' = log /\ (disk' = disk \/ disk' = mem)
        /\ ~active => disk' = Loaded /\ log' \in {<<>>, log}
        /\ UNCHANGED <<ext, removed, stale, torn>>
    BY <1>8, FiresFacts
  <2>2. CASE active
    <3>1. Store = mem /\ Executing # {}
      BY <2>2, LoadFacts
    <3> QED BY <1>a, <1>g, <2>1, <2>2, <3>1
  <2>3. CASE ~active
    <3>1. Store = Loaded
      BY <2>3, LoadFacts
    <3> QED BY <1>a, <1>g, <2>1, <2>3, <3>1
  <2> QED BY <2>2, <2>3
<1>9. ASSUME NEW i \in Ticks, JobCancelled(i) PROVE Gone(j)'
  <2>1. i \in cancelled /\ UNCHANGED <<mem, disk, log, ext, removed, stale, torn>>
    BY <1>9, CancelFacts
  <2>2. Executing # {}
    BY <2>1 DEF TypeOK
  <2> QED BY <1>a, <1>g, <2>1, <2>2
<1>10. ASSUME NEW i \in Ticks, CancelSwallowed(i) PROVE Gone(j)'
  BY <1>a, <1>g, <1>10, SwallowFacts
<1>11. CASE ExternalReads
  <2>1. Executing' = Executing /\ UNCHANGED <<mem, disk, log, removed, stale, torn>>
    BY <1>11, ReadLeaves
  <2>2. PICK a \in Entry :
            /\ ext' = <<a>>
            /\ a.del \/ Fresh(a.job) \/ a.job \in DOMAIN Loaded
    <3>1. now \in 1..MaxTime
      BY <1>0
    <3> QED BY <1>11, <3>1, ReadFacts, RecordFacts DEF Entry
  <2>3. a.job = j => a.del
    BY <1>a, <2>1, <2>2 DEF Fresh
  <2>4. \A i \in 1..Len(ext') : ext'[i].job = j => ext'[i].del
    BY <2>2, <2>3
  <2>5. j \notin DOMAIN Loaded'
    BY <1>a, <2>1, StaysGone
  <2> QED BY <1>a, <1>k, <2>1, <2>4, <2>5
<1>12. CASE ExternalAppends
  <2>1. PICK a \in Entry : /\ ext[1] = a /\ Len(ext) = 1 /\ ext' = <<>> /\ log' = Append(log, a)
                           /\ a.del => removed' = removed \cup {a.job}
                           /\ ~a.del => removed' = removed
    BY <1>12, AppendsFacts
  <2>2. Executing' = Executing /\ UNCHANGED <<mem, disk, stale, torn>>
    BY <1>12, AppendsLeave
  <2>3. Mentions(log', j) <=> Mentions(log, j) \/ a.job = j
    <3>1. log \in Seq(Entry) /\ log' = Append(log, a)
      BY <1>0, <2>1
    <3> QED BY <3>1, AppendMentions
  <2>4. \A i \in 1..Len(ext') : ext'[i].job = j => ext'[i].del
    BY <2>1
  <2>5. CASE a.job = j
    <3>1. a.del
      BY <1>a, <2>1, <2>2, <2>5
    <3>2. Loaded' = Replay(disk, Append(log, a))
      BY <2>1, <2>2 DEF Loaded
    <3>3. j \notin DOMAIN Loaded'
      BY <1>0, <2>5, <3>1, <3>2, ReplayAppend
    <3> QED BY <1>k, <2>3, <2>4, <2>5, <3>3
  <2>6. CASE a.job # j
    <3>1. j \in removed
      BY <2>1, <2>6
    <3>2. j \notin DOMAIN Loaded /\ (Executing # {} /\ j \in DOMAIN mem => Mentions(log, j))
      BY <1>a, <2>2, <3>1
    <3>3. j \notin DOMAIN Loaded'
      BY <2>1, <2>2, <2>6, <3>2, StaysGone
    <3> QED BY <1>k, <2>2, <2>3, <2>4, <3>2, <3>3
  <2> QED BY <2>5, <2>6
<1>13. CASE Clock
  BY <1>a, <1>g, <1>13, ClockFacts
<1>14. CASE UNCHANGED vars
  BY <1>a, <1>g, <1>14, StutterFacts
<1> QED BY <1>1, <1>2, <1>3, <1>4, <1>5, <1>6, <1>7, <1>8, <1>9, <1>10, <1>11, <1>12, <1>13,
           <1>14, CallCases

----------------------------------------------------------------------------
(* Due times *)

LEMMA OnceStep ==
  ASSUME TypeOK, TickInv, BesideInv, OnceInv, [Next]_vars, TypeOK'
  PROVE  OnceInv'
<1>0. /\ IsStore(disk) /\ IsStore(mem) /\ IsStore(Loaded) /\ log \in Seq(Entry)
      /\ now \in 1..MaxTime /\ again \subseteq Excused /\ DOMAIN Loaded \subseteq Jobs
  BY LoadFacts DEF TypeOK, IsStore, OnceInv
\* A due time that lies ahead, or that nobody waits for, is not completed.
<1>n. \A j \in Jobs : \A r : (r.enabled => r.next = NextRun(j)) => ~Spent(j, r)
  <2>1. ASSUME NEW j \in Jobs, NEW r, r.enabled => r.next = NextRun(j), Spent(j, r)
        PROVE  FALSE
    <3>1. <<j, NextRun(j)>> \in runs
      BY <2>1 DEF Spent
    <3>2. NextRun(j) \in 1..now
      BY <3>1 DEF TickInv
    <3> QED BY <1>0, <3>2, NextRunFacts
  <2> QED BY <2>1
<1>a. ASSUME NEW j \in Jobs \ Excused
      PROVE  /\ \A i \in 1..Len(log) : log[i].job = j /\ ~log[i].del => ~Spent(j, log[i].rec)
             /\ \A i \in 1..Len(ext) : ext[i].job = j /\ ~ext[i].del => ~Spent(j, ext[i].rec)
             /\ running /\ Executing # {} /\ j \in DOMAIN mem => ~Spent(j, mem[j])
             /\ running /\ (~active \/ cancelled # {}) /\ j \in DOMAIN disk => ~Spent(j, disk[j])
             /\ \A i \in Ticks : \A r \in has[i] : r[1] = j => r \notin runs
  BY DEF OnceInv, DueTimes
\* So a running service loads none.
<1>b. ASSUME NEW j \in Jobs \ Excused, running, ~active, j \in DOMAIN Loaded
      PROVE  ~Spent(j, Loaded[j])
  <2>1. \/ j \in DOMAIN disk /\ Loaded[j] = disk[j]
        \/ \E i \in 1..Len(log) : log[i].job = j /\ ~log[i].del /\ Loaded[j] = log[i].rec
    BY <1>0, <1>b, ReplayFrom DEF Loaded
  <2> QED BY <1>a, <1>b, <2>1
\* The steps that complete no execution.
<1>c. ASSUME NEW j \in Jobs \ Excused, running, j \in DOMAIN Store
      PROVE  ~Spent(j, Store[j])
  <2>1. CASE active
    <3>1. Store = mem /\ Executing # {}
      BY <2>1, LoadFacts
    <3> QED BY <1>a, <1>c, <3>1
  <2>2. CASE ~active
    <3>1. Store = Loaded
      BY <2>2, LoadFacts
    <3> QED BY <1>b, <1>c, <2>2, <3>1
  <2> QED BY <2>1, <2>2
<1>k. ASSUME runs' = runs, again' = again, Excused \subseteq Excused',
             \A j \in Jobs \ Excused' :
               /\ \A i \in 1..Len(log') : log'[i].job = j /\ ~log'[i].del => ~Spent(j, log'[i].rec)
               /\ \A i \in 1..Len(ext') : ext'[i].job = j /\ ~ext'[i].del => ~Spent(j, ext'[i].rec)
               /\ running' /\ Executing' # {} /\ j \in DOMAIN mem' => ~Spent(j, mem'[j])
               /\ running' /\ (~active' \/ cancelled' # {}) /\ j \in DOMAIN disk' => ~Spent(j, disk'[j])
               /\ \A i \in Ticks : \A r \in has'[i] : r[1] = j => r \notin runs
      PROVE  OnceInv'
  <2>1. \A j, r : Spent(j, r)' <=> Spent(j, r)
    BY <1>k DEF Spent
  <2>2. \A j \in Jobs \ Excused' : DueTimes(j)'
    BY <1>k, <2>1 DEF DueTimes
  <2> QED BY <1>0, <1>k, <2>2 DEF OnceInv
\* The steps that, besides, leave the lines that change jobs alone.
<1>g. ASSUME log' \in {<<>>, log}, ext' = ext, runs' = runs, again' = again,
             Excused \subseteq Excused',
             \A j \in Jobs \ Excused' :
               /\ running' /\ Executing' # {} /\ j \in DOMAIN mem' => ~Spent(j, mem'[j])
               /\ running' /\ (~active' \/ cancelled' # {}) /\ j \in DOMAIN disk' => ~Spent(j, disk'[j])
               /\ \A i \in Ticks : \A r \in has'[i] : r[1] = j => r \notin runs
      PROVE  OnceInv'
  <2>1. ASSUME NEW j \in Jobs \ Excused'
        PROVE  \A i \in 1..Len(log') : log'[i].job = j /\ ~log'[i].del => ~Spent(j, log'[i].rec)
    <3>1. CASE log' = <<>>
      BY <3>1
    <3>2. CASE log' = log
      BY <1>a, <1>g, <3>2
    <3> QED BY <1>g, <3>1, <3>2
  <2> QED BY <1>a, <1>g, <1>k, <2>1
<1>x. ASSUME stale \subseteq stale', beside \subseteq beside' PROVE Excused \subseteq Excused'
  BY <1>x DEF Excused
<1>1. CASE Start
  <2>1. /\ Executing' = {} /\ disk' = Recomputed(Loaded) /\ log' \in {<<>>, log}
        /\ UNCHANGED <<has, ext, runs, again, stale, beside>>
    BY <1>1, StartFacts
  <2>2. \A j \in DOMAIN disk' : j \in Jobs /\ (disk'[j].enabled => disk'[j].next = NextRun(j))
    BY <1>0, <2>1, RecomputedFacts
  <2>3. \A j \in DOMAIN disk' : ~Spent(j, disk'[j])
    BY <1>n, <2>2
  <2> QED BY <1>a, <1>g, <1>x, <2>1, <2>3
<1>2. CASE Stop
  <2>1. running' = FALSE /\ UNCHANGED <<has, log, ext, runs, again, stale, beside>>
    BY <1>2, StopFacts
  <2> QED BY <1>a, <1>g, <1>x, <2>1
<1>3. CASE Crash
  <2>1. /\ running' = FALSE /\ log' \in {<<>>, log} /\ (\A i \in Ticks : has'[i] = {})
        /\ UNCHANGED <<ext, runs, again, stale, beside>>
    BY <1>3, CrashFacts
  <2> QED BY <1>g, <1>x, <2>1
<1>4. ASSUME NEW h \in Jobs, NEW s, NEW e, Called(h, s, e) PROVE OnceInv'
  <2>1. /\ e \in Entry /\ e.job = h /\ mem' = s /\ has' = has /\ IsStore(s)
        /\ Executing' = Executing
        /\ ~e.del => e.rec = New(h) \/ ~e.rec.enabled
        /\ running => disk' = s /\ log' = LogAfterLoad
        /\ ~running => log' = Append(log, e)
        /\ running => (h \in DOMAIN s <=> ~e.del) /\ (~e.del => s[h] = e.rec)
        /\ UNCHANGED <<running, ext, runs, again, beside>>
    BY <1>4 DEF Called
  <2>2. Excused \subseteq Excused'
    <3>1. stale \subseteq stale'
      BY <1>4 DEF Called, Overtaken
    <3> QED BY <1>x, <2>1, <3>1
  <2>3. ~e.del => ~Spent(h, e.rec)
    <3>1. New(h).next = NextRun(h)
      BY DEF New
    <3> QED BY <1>n, <2>1, <3>1
  <2>4. ASSUME NEW j \in Jobs \ Excused', running, j \in DOMAIN s
        PROVE  ~Spent(j, s[j])
    <3>1. CASE j = h
      BY <2>1, <2>3, <2>4, <3>1
    <3>2. CASE j # h
      <4>1. j \in DOMAIN Store /\ s[j] = Store[j]
        BY <1>4, <2>4, <3>2 DEF Called
      <4> QED BY <1>c, <2>2, <2>4, <4>1
    <3> QED BY <3>1, <3>2
  <2>5. ASSUME NEW j \in Jobs \ Excused'
        PROVE  \A i \in 1..Len(log') : log'[i].job = j /\ ~log'[i].del => ~Spent(j, log'[i].rec)
    <3>1. \A i \in 1..Len(log) : log[i].job = j /\ ~log[i].del => ~Spent(j, log[i].rec)
      BY <1>a, <2>2
    <3>2. CASE running
      <4>1. log' = <<>> \/ log' = log
        BY <2>1, <3>2, LoadFacts
      <4>2. CASE log' = <<>>
        BY <4>2
      <4>3. CASE log' = log
        BY <3>1, <4>3
      <4> QED BY <4>1, <4>2, <4>3
    <3>3. CASE ~running
      <4>1. log' = Append(log, e) /\ log \in Seq(Entry) /\ e \in Entry
        BY <1>0, <2>1, <3>3
      <4>2. ASSUME NEW i \in 1..Len(log'), log'[i].job = j, ~log'[i].del
            PROVE  ~Spent(j, log'[i].rec)
        <5>1. (i \in 1..Len(log) /\ log'[i] = log[i]) \/ log'[i] = e
          BY <4>1, <4>2, AppendFacts
        <5> QED BY <2>1, <2>3, <3>1, <4>2, <5>1
      <4> QED BY <4>2
    <3> QED BY <3>2, <3>3
  <2>6. ASSUME NEW j \in Jobs \ Excused'
        PROVE  /\ \A i \in 1..Len(ext') : ext'[i].job = j /\ ~ext'[i].del => ~Spent(j, ext'[i].rec)
               /\ \A i \in Ticks : \A r \in has'[i] : r[1] = j => r \notin runs
    BY <1>a, <2>1, <2>2
  <2> QED BY <1>k, <2>1, <2>2, <2>4, <2>5, <2>6
<1>5. ASSUME NEW h \in Jobs, RegisterSystemJob(h) PROVE OnceInv'
  <2>1. ~running' /\ UNCHANGED <<has, log, ext, runs, again, stale, beside>>
    BY <1>5, RegisterFacts
  <2> QED BY <1>a, <1>g, <1>x, <2>1
<1>6. ASSUME NEW i \in Ticks, NEW r \in has[i], JobEnds(i, r) PROVE OnceInv'
  <2>0. /\ Executing # {} /\ i \in Executing /\ r[1] \in Jobs /\ r = <<r[1], r[2]>> /\ r[1] \in JobsOf(i)
        /\ \A k \in Ticks : has'[k] = IF k = i THEN has[i] \ {r} ELSE has[k]
        /\ \/ mem' = Executed(mem, r[1])
           \/ i \in detached /\ mem' = ExecutedApart(mem, r[1])
        /\ DOMAIN mem' = IF r[1] \in DeleteAfter THEN DOMAIN mem \ {r[1]} ELSE DOMAIN mem
        /\ \A k \in DOMAIN mem' : k # r[1] => mem'[k] = mem[k]
        /\ UNCHANGED <<disk, cancelled, active>> \/ disk' = mem'
        /\ runs' = runs \cup {r}
        /\ again' = IF r \in runs THEN again \cup {r[1]} ELSE again
        /\ Overtaken(r[1], log)
        /\ UNCHANGED <<now, log, running, ext, beside>>
    BY <1>6, EndsFacts
  <2>h. PICK h : h = r[1]
    OBVIOUS
  <2>1. /\ Executing # {} /\ i \in Executing /\ h \in Jobs /\ r = <<h, r[2]>> /\ h \in JobsOf(i)
        /\ \A k \in Ticks : has'[k] = IF k = i THEN has[i] \ {r} ELSE has[k]
        /\ \/ mem' = Executed(mem, h)
           \/ i \in detached /\ mem' = ExecutedApart(mem, h)
        /\ DOMAIN mem' = IF h \in DeleteAfter THEN DOMAIN mem \ {h} ELSE DOMAIN mem
        /\ \A k \in DOMAIN mem' : k # h => mem'[k] = mem[k]
        /\ UNCHANGED <<disk, cancelled, active>> \/ disk' = mem'
        /\ runs' = runs \cup {r}
        /\ again' = IF r \in runs THEN again \cup {h} ELSE again
        /\ Overtaken(h, log)
        /\ UNCHANGED <<now, log, running, ext, beside>>
    BY <2>0, <2>h
  <2>2. Excused \subseteq Excused'
    <3>1. stale \subseteq stale'
      BY <2>1 DEF Overtaken
    <3> QED BY <1>x, <2>1, <3>1
  <2>3. again' \subseteq Excused'
    <3>1. CASE r \in runs
      <4>1. h \in Excused
        BY <1>a, <2>1, <2>h, <3>1
      <4> QED BY <1>0, <2>1, <2>2, <4>1
    <3>2. CASE r \notin runs
      BY <1>0, <2>1, <2>2, <3>2
    <3> QED BY <3>1, <3>2
  <2>4. \A j, q : j # h => (Spent(j, q)' <=> Spent(j, q))
    BY <2>1 DEF Spent
  <2>5. ASSUME NEW j \in Jobs \ Excused', j # h
        PROVE  DueTimes(j)'
    <3>1. /\ \A x \in 1..Len(log) : log[x].job = j /\ ~log[x].del => ~Spent(j, log[x].rec)
          /\ \A x \in 1..Len(ext) : ext[x].job = j /\ ~ext[x].del => ~Spent(j, ext[x].rec)
          /\ running /\ j \in DOMAIN mem => ~Spent(j, mem[j])
          /\ running /\ (~active \/ cancelled # {}) /\ j \in DOMAIN disk => ~Spent(j, disk[j])
          /\ \A x \in Ticks : \A q \in has[x] : q[1] = j => q \notin runs
      BY <1>a, <2>1, <2>2, <2>5
    <3>2. running /\ j \in DOMAIN mem' => ~Spent(j, mem[j])'
      <4>1. j \in DOMAIN mem' => j \in DOMAIN mem /\ mem'[j] = mem[j]
        BY <2>1, <2>5
      <4> QED BY <2>4, <2>5, <3>1, <4>1
    <3>3. running' /\ (~active' \/ cancelled' # {}) /\ j \in DOMAIN disk' => ~Spent(j, disk[j])'
      <4>1. CASE UNCHANGED <<disk, cancelled, active>>
        BY <2>1, <2>4, <2>5, <3>1, <4>1
      <4>2. CASE disk' = mem'
        BY <2>1, <3>2, <4>2 DEF Spent
      <4> QED BY <2>1, <4>1, <4>2
    <3>4. \A x \in Ticks : \A q \in has'[x] : q[1] = j => q \notin runs'
      <4>1. \A x \in Ticks : has'[x] \subseteq has[x]
        BY <2>1
      <4>2. ASSUME NEW x \in Ticks, NEW q \in has'[x], q[1] = j PROVE q # r
        BY <2>5, <2>h, <4>2
      <4> QED BY <2>1, <3>1, <4>1, <4>2
    <3>5. /\ \A x \in 1..Len(log') : log'[x].job = j /\ ~log'[x].del => ~Spent(j, log[x].rec)'
          /\ \A x \in 1..Len(ext') : ext'[x].job = j /\ ~ext'[x].del => ~Spent(j, ext[x].rec)'
      BY <2>1, <2>4, <2>5, <3>1
    <3> QED BY <2>1, <3>2, <3>3, <3>4, <3>5 DEF DueTimes
  <2>6. ASSUME h \notin Excused'
        PROVE  DueTimes(h)'
    <3>0. h \notin stale' /\ h \notin beside
      BY <2>1, <2>6 DEF Excused
    <3>1. /\ \A x \in 1..Len(ext) : ext[x].job = h => ext[x].del
          /\ \A x \in 1..Len(log) : log[x].job = h => log[x].del
      BY <1>0, <2>1, <3>0, NotOvertaken
    <3>2. mem' = Executed(mem, h) /\ active
      BY <2>1, <3>0 DEF BesideInv
    <3>3. h \in DOMAIN mem' => ~Spent(h, mem[h])'
      <4>1. \A q \in runs' : q[2] \in 1..now
        <5>1. r[2] \in 1..now
          BY DEF TickInv
        <5> QED BY <2>1, <5>1 DEF TickInv
      <4>2. NextRun(h) \notin 1..now
        BY <1>0, <2>1, NextRunFacts
      <4>3. <<h, NextRun(h)>> \notin runs'
        BY <4>1, <4>2
      <4>4. h \in DOMAIN mem' /\ mem'[h].enabled => mem'[h].next = NextRun(h)
        BY <1>0, <2>1, <3>2, ExecutedFacts
      <4> QED BY <4>3, <4>4 DEF Spent
    <3>4. running' /\ (~active' \/ cancelled' # {}) /\ h \in DOMAIN disk' => ~Spent(h, disk[h])'
      <4>1. CASE disk' = mem'
        BY <3>3, <4>1 DEF Spent
      <4>2. CASE UNCHANGED <<disk, cancelled, active>>
        <5>1. cancelled' = {}
          <6>1. cancelled \subseteq Executing /\ i \notin cancelled
            BY <1>6 DEF TypeOK, JobEnds
          <6>2. \A x \in cancelled : x \in Executing /\ x # i
            BY <6>1
          <6>3. i \in Executing /\ ~(JobsOf(i) \subseteq beside)
            BY <2>1, <3>0
          <6>4. cancelled = {}
            BY <6>2, <6>3 DEF BesideInv
          <6> QED BY <4>2, <6>4
        <5> QED BY <3>2, <4>2, <5>1
      <4> QED BY <2>1, <4>1, <4>2
    <3>5. \A x \in Ticks : \A q \in has'[x] : q[1] = h => q \notin runs'
      <4>1. ASSUME NEW x \in Ticks, NEW q \in has'[x], q[1] = h PROVE q \notin runs'
        <5>1. q \in has[x] /\ (x = i => q # r)
          BY <2>1, <4>1
        <5>2. x = i
          <6>1. x \in Executing /\ h \in JobsOf(x)
            BY <4>1, <5>1 DEF Executing, JobsOf
          <6> QED BY <2>1, <3>0, <6>1 DEF BesideInv
        <5>3. q \notin runs
          BY <1>a, <2>1, <2>2, <2>6, <4>1, <5>1
        <5> QED BY <2>1, <5>1, <5>2, <5>3
      <4> QED BY <4>1
    <3> QED BY <2>1, <3>1, <3>3, <3>4, <3>5 DEF DueTimes
  <2> QED BY <2>1, <2>3, <2>5, <2>6 DEF OnceInv
<1>7. CASE ListJobs
  <2>1. /\ mem' = Store /\ (active => UNCHANGED <<mem, log, disk>>)
        /\ \/ UNCHANGED <<log, disk>>
           \/ running /\ ~active /\ log' = <<>> /\ disk' = Loaded
        /\ Executing' = Executing
        /\ UNCHANGED <<running, has, cancelled, active, ext, runs, again, stale, beside>>
    BY <1>7, ListFacts
  <2>2. Excused' = Excused
    BY <2>1 DEF Excused
  <2> QED BY <1>a, <1>b, <1>c, <1>g, <2>1, <2>2
<1>8. ASSUME NEW i \in Ticks, TickFires(i) PROVE OnceInv'
  <2>1. /\ running /\ mem' = Store
        /\ active => log' = log /\ (disk' = disk \/ disk' = mem)
        /\ ~active => disk' = Loaded /\ log' \in {<<>>, log}
        /\ \A k \in Ticks : has'[k] = IF k = i THEN DuePairs(Store) ELSE has[k]
        /\ active' \/ disk' = Store
        /\ beside \subseteq beside'
        /\ UNCHANGED <<running, cancelled, ext, runs, again, stale>>
    BY <1>8, FiresFacts
  <2>2. Excused \subseteq Excused'
    BY <1>x, <2>1
  <2>3. ASSUME NEW j \in Jobs \ Excused'
        PROVE  \A k \in Ticks : \A r \in has'[k] : r[1] = j => r \notin runs
    <3>1. ASSUME NEW r \in DuePairs(Store), r[1] = j PROVE r \notin runs
      <4>1. PICK x \in DueIn(Store) : r = <<x, Store[x].next>>
        BY <3>1 DEF DuePairs
      <4>2. x = j
        BY <3>1, <4>1
      <4>3. j \in DOMAIN Store /\ Store[j].enabled /\ r = <<j, Store[j].next>>
        BY <4>1, <4>2 DEF DueIn
      <4>4. ~Spent(j, Store[j])
        BY <1>c, <2>1, <2>2, <2>3, <4>3
      <4> QED BY <4>3, <4>4 DEF Spent
    <3> QED BY <1>a, <2>1, <2>2, <2>3, <3>1
  <2>4. ASSUME NEW j \in Jobs \ Excused', j \in DOMAIN Store PROVE ~Spent(j, Store[j])
    BY <1>c, <2>1, <2>2, <2>4
  <2>5. ASSUME NEW j \in Jobs \ Excused', running', ~active' \/ cancelled' # {}, j \in DOMAIN disk'
        PROVE  ~Spent(j, disk'[j])
    <3>1. CASE disk' = Store
      BY <2>4, <2>5, <3>1
    <3>2. CASE disk' # Store
      <4>1. active' /\ cancelled # {}
        BY <2>1, <2>5, <3>2
      <4>2. active /\ disk' = disk
        BY <2>1, <3>2, LoadFacts
      <4> QED BY <1>a, <2>1, <2>2, <2>5, <4>1, <4>2
    <3> QED BY <3>1, <3>2
  <2>6. log' \in {<<>>, log}
    BY <2>1
  <2> QED BY <1>g, <2>1, <2>2, <2>3, <2>4, <2>5, <2>6
<1>9. ASSUME NEW i \in Ticks, JobCancelled(i) PROVE OnceInv'
  <2>1. /\ i \in cancelled /\ Executing' = Executing \ {i}
        /\ \A k \in Ticks : has'[k] = IF k = i THEN {} ELSE has[k]
        /\ UNCHANGED <<mem, disk, log, running, ext, runs, again, stale, beside>>
    BY <1>9, CancelFacts
  <2>2. Excused' = Excused /\ Executing # {}
    <3>1. cancelled \subseteq Executing
      BY DEF TypeOK
    <3> QED BY <2>1, <3>1 DEF Excused
  <2>3. \A k \in Ticks : has'[k] \subseteq has[k]
    BY <2>1
  <2> QED BY <1>a, <1>g, <2>1, <2>2, <2>3
<1>10. ASSUME NEW i \in Ticks, CancelSwallowed(i) PROVE OnceInv'
  <2>1. /\ cancelled' \subseteq cancelled /\ Executing' = Executing
        /\ UNCHANGED <<mem, disk, log, running, has, active, ext, runs, again, stale, beside>>
    BY <1>10, SwallowFacts
  <2>2. Excused' = Excused
    BY <2>1 DEF Excused
  <2> QED BY <1>a, <1>g, <2>1, <2>2
<1>11. CASE ExternalReads
  <2>1. /\ Executing' = Executing
        /\ UNCHANGED <<mem, disk, log, running, has, cancelled, active, runs, again, stale, beside>>
    BY <1>11, ReadLeaves
  <2>2. PICK a \in Entry : /\ ext' = <<a>>
                           /\ a.del \/ a.rec = New(a.job) \/ ~a.rec.enabled
    BY <1>11, <1>0, ReadFacts, RecordFacts DEF Entry
  <2>3. a.del \/ ~Spent(a.job, a.rec)
    <3>1. New(a.job).next = NextRun(a.job) /\ a.job \in Jobs
      BY DEF New, Entry
    <3> QED BY <1>n, <2>2, <3>1
  <2>4. \A i \in 1..Len(ext') : ext'[i] = a
    BY <2>2
  <2>5. Excused' = Excused
    BY <2>1 DEF Excused
  <2> QED BY <1>a, <1>k, <2>1, <2>3, <2>4, <2>5
<1>12. CASE ExternalAppends
  <2>1. PICK a \in Entry : ext[1] = a /\ Len(ext) = 1 /\ ext' = <<>> /\ log' = Append(log, a)
    BY <1>12, AppendsFacts
  <2>2. /\ Executing' = Executing
        /\ UNCHANGED <<mem, disk, running, has, cancelled, active, runs, again, stale, beside>>
    BY <1>12, AppendsLeave
  <2>3. a.job \in Jobs \ Excused /\ ~a.del => ~Spent(a.job, a.rec)
    BY <1>a, <2>1
  <2>6. Excused' = Excused
    BY <2>2 DEF Excused
  <2>4. ASSUME NEW j \in Jobs \ Excused', NEW i \in 1..Len(log'), log'[i].job = j, ~log'[i].del
        PROVE  ~Spent(j, log'[i].rec)
    <3>1. (i \in 1..Len(log) /\ log'[i] = log[i]) \/ log'[i] = a
      <4>1. log' = Append(log, a) /\ log \in Seq(Entry)
        BY <1>0, <2>1
      <4> QED BY <2>4, <4>1, AppendFacts
    <3> QED BY <1>a, <2>3, <2>4, <2>6, <3>1
  <2>5. \A i \in 1..Len(ext') : FALSE
    BY <2>1
  <2> QED BY <1>a, <1>k, <2>2, <2>4, <2>5, <2>6
<1>13. CASE Clock
  <2>1. /\ Executing' = Executing
        /\ UNCHANGED <<mem, disk, log, running, has, cancelled, active, ext, runs, again, stale,
                       beside>>
    BY <1>13, ClockFacts
  <2>2. Excused' = Excused
    BY <2>1 DEF Excused
  <2> QED BY <1>a, <1>g, <2>1, <2>2
<1>14. CASE UNCHANGED vars
  <2>1. /\ Executing' = Executing
        /\ UNCHANGED <<mem, disk, log, running, has, cancelled, active, ext, runs, again, stale,
                       beside>>
    BY <1>14, StutterFacts
  <2>2. Excused' = Excused
    BY <2>1 DEF Excused
  <2> QED BY <1>a, <1>g, <2>1, <2>2
<1> QED BY <1>1, <1>2, <1>3, <1>4, <1>5, <1>6, <1>7, <1>8, <1>9, <1>10, <1>11, <1>12, <1>13,
           <1>14, CallCases

----------------------------------------------------------------------------
(* The specification *)

LEMMA InitInv ==
  ASSUME Init
  PROVE  CronInv
<1> USE ConstantFacts
<1>1. /\ now = 1 /\ mem = Empty /\ disk = Empty /\ log = <<>> /\ running = FALSE /\ timer = 0
      /\ has = [i \in Ticks |-> {}] /\ task = {} /\ cancelled = {} /\ detached = {}
      /\ active = FALSE /\ ext = <<>>
      /\ added = {} /\ removed = {} /\ runs = {} /\ again = {} /\ stale = {} /\ beside = {}
      /\ torn = FALSE /\ ops = 0 /\ crashes = 0 /\ deaf = 0
  BY DEF Init
<1>2. IsStore(Empty)
  BY DEF Empty, IsStore
<1>3. <<>> \in Seq(Entry) /\ Len(<<>>) = 0
  OBVIOUS
<1>9. has \in [Ticks -> SUBSET (Jobs \X Times)] /\ (\A i \in Ticks : has[i] = {}) /\ Executing = {}
  BY <1>1, NoneExecutes DEF Executing
<1>4. TypeOK
  <2>1. now \in 1..MaxTime /\ timer \in 0..(MaxTime + MaxSleep)
    BY <1>1
  <2>2. ops \in 0..MaxOps /\ crashes \in 0..MaxCrashes /\ deaf \in 0..MaxDeaf
    BY <1>1
  <2>3. log \in Seq(Entry) /\ ext \in Seq(Entry) /\ Len(ext) <= 1
    BY <1>1, <1>3
  <2>4. IsStore(mem) /\ IsStore(disk)
    BY <1>1, <1>2
  <2>5. {added, removed, again, stale, beside} \subseteq SUBSET Jobs /\ runs \subseteq Jobs \X Times
    BY <1>1
  <2> QED BY <1>1, <1>9, <2>1, <2>2, <2>3, <2>4, <2>5, NoTask DEF TypeOK
<1>5. RemovalInv
  BY <1>1, <1>3 DEF RemovalInv
<1>6. TickInv /\ BesideInv
  BY <1>1, <1>9 DEF TickInv, BesideInv
<1>7. KeptInv /\ GoneInv
  BY <1>1 DEF KeptInv, GoneInv
<1>8. OnceInv
  <2>1. \A i \in 1..Len(<<>>) : FALSE
    BY <1>3
  <2>2. \A j \in Jobs : DueTimes(j)
    BY <1>1, <1>9, <2>1 DEF DueTimes
  <2> QED BY <1>1, <2>2 DEF OnceInv
<1> QED BY <1>4, <1>5, <1>6, <1>7, <1>8 DEF CronInv

\* The invariant, for any jobs and schedules, any clock and any number of calls
\* and crashes.
LEMMA CronInvariant == Spec => []CronInv
<1>1. Init => CronInv
  BY InitInv
<1>2. CronInv /\ [Next]_vars => CronInv'
  <2> SUFFICES ASSUME CronInv, [Next]_vars PROVE CronInv'
    OBVIOUS
  <2>1. TypeOK /\ RemovalInv /\ TickInv /\ BesideInv /\ KeptInv /\ GoneInv /\ OnceInv
    BY DEF CronInv
  <2>2. TypeOK'
    BY <2>1, TypeStep
  <2>3. RemovalInv' /\ TickInv' /\ BesideInv'
    BY <2>1, RemovalStep, TickStep, BesideStep
  <2>4. KeptInv' /\ GoneInv'
    BY <2>1, <2>2, KeptStep, GoneStep
  <2>5. OnceInv'
    BY <2>1, <2>2, OnceStep
  <2> QED BY <2>2, <2>3, <2>4, <2>5 DEF CronInv
<1> QED BY <1>1, <1>2, PTL DEF Spec

\* The variables of the scheduler have their types: the store in memory and
\* jobs.json hold records of known jobs, what ticks have to complete is known
\* jobs with a due time, only an executing tick is the timer task, is cancelled
\* or has lost its store, and _timer_active is set only while a tick executes
\* (several may, after a cancellation that was swallowed or is still under way).
THEOREM CronTypes == Spec => []TypeOK
<1>1. CronInv => TypeOK
  BY DEF CronInv
<1> QED BY <1>1, CronInvariant, PTL

\* _execute_job completes no job twice for one due time: not when a call cancels
\* the tick and arms the timer anew, not when a cancelled tick goes on, not when
\* the service is stopped or dies with the file behind what ran, and not when the
\* log of another process is merged after the run.  Excepted are the jobs of
\* ticks that executed beside one another (_arm_timer starts a timer while the
\* tick it cancelled goes on), and a job that was changed without sight of the
\* run.
THEOREM CompletesOncePerDue == Spec => []OncePerDue
<1>1. CronInv => OncePerDue
  BY DEF CronInv, OnceInv, OncePerDue, Excused
<1> QED BY <1>1, CronInvariant, PTL

\* A job that add_job or register_system_job took in, in this process or in
\* another one, is in jobs.json or the action log until remove_job or its only
\* run takes it out; a crash of _merge_action between its two writes is the
\* one way to lose it.
THEOREM AddedJobIsKept == Spec => []JobKept
<1>1. CronInv => JobKept
  <2> SUFFICES ASSUME CronInv, NEW j \in added \ removed, ~torn
               PROVE  j \in DOMAIN Loaded \/ RunOnce(j)
    BY DEF JobKept, RunOnce
  <2>1. IsStore(disk) /\ log \in Seq(Entry) /\ RemovalInv
    BY DEF CronInv, TypeOK
  <2>2. There(j) \/ RunOnce(j)
    BY DEF CronInv, KeptInv
  <2>3. \A i \in 1..Len(log) : log[i].job = j => ~log[i].del
    BY <2>1 DEF RemovalInv
  <2>4. j \in DOMAIN Replay(disk, log) <=> Mentions(log, j) \/ j \in DOMAIN disk
    BY <2>1, <2>3, OnlyChanges
  <2> QED BY <2>2, <2>4 DEF There, Loaded
<1> QED BY <1>1, CronInvariant, PTL

\* A job that remove_job took out, here or in another process, is not in what
\* _load_store yields, whatever ticks save their own store over the file
\* meanwhile, unless somebody changed it without sight of the removal (or a
\* crash of _merge_action lost the line that removes it).
THEOREM RemovedJobStaysOut == Spec => []RemovedStays
<1>1. CronInv => RemovedStays
  BY DEF CronInv, GoneInv, Gone, RemovedStays
<1> QED BY <1>1, CronInvariant, PTL
=============================================================================
