------------------------ MODULE AuthorizationProofs ------------------------
(***************************************************************************)
(* Proofs about Authorization: what the file of confirmations, the action  *)
(* executor and the tool approvals guarantee for any number of processes,  *)
(* intents, keys, sessions and confirmations.                              *)
(***************************************************************************)
EXTENDS Authorization, Integers, FiniteSetTheorems, TLAPS

----------------------------------------------------------------------------
(***************************************************************************)
(* The well-ordering of the naturals.  It stands in for induction over     *)
(* data: a claim about every n holds when no n is the least one to         *)
(* violate it.                                                             *)
(***************************************************************************)

\* A non-empty set of naturals has a least element: the initial segments of
\* its elements are finite sets, and the strict inclusion of finite sets is
\* well-founded.
LEMMA LeastNat ==
  ASSUME NEW T \in SUBSET Nat, T # {}
  PROVE  \E m \in T : \A n \in T : m <= n
<1> DEFINE U == {1..n : n \in T}
           R == StrictSubsetOrdering(Nat)
<1>1. IsWellFoundedOn(R, FiniteSubsetsOf(Nat))
  BY FS_StrictSubsetOrderingWellFounded
<1>2. \A n \in T : 1..n \in FiniteSubsetsOf(Nat)
  BY FS_Interval DEF FiniteSubsetsOf
<1>3. U \subseteq FiniteSubsetsOf(Nat) /\ U # {}
  BY <1>2
<1>4. \E x \in U : \A y \in U : ~ (<<y, x>> \in R)
  <2> HIDE DEF U, R
  <2> QED BY <1>1, <1>3, WFMin
<1>5. PICK m \in T : \A y \in U : ~ (<<y, 1..m>> \in R)
  BY <1>4
<1>6. ASSUME NEW n \in T, n < m
      PROVE  FALSE
  <2>1. 1..n \subseteq 1..m /\ m \in 1..m /\ m \notin 1..n
    BY <1>6
  <2>2. <<1..n, 1..m>> \in R
    BY <2>1 DEF StrictSubsetOrdering
  <2> QED BY <2>2, <1>5
<1> QED BY <1>6

\* A set that holds zero, and with every natural its successor, holds every
\* natural.
LEMMA EveryNat ==
  ASSUME NEW P \in SUBSET Nat, 0 \in P, \A m \in P : m + 1 \in P
  PROVE  P = Nat
<1> SUFFICES ASSUME Nat \ P # {} PROVE FALSE
  OBVIOUS
<1>1. PICK m \in Nat \ P : \A n \in Nat \ P : m <= n
  <2>1. Nat \ P \in SUBSET Nat
    OBVIOUS
  <2> QED BY <2>1, LeastNat
<1>2. m # 0 /\ m - 1 \in Nat /\ m - 1 \notin Nat \ P
  BY <1>1
<1>3. (m - 1) + 1 \in P
  BY <1>2
<1> QED BY <1>3

----------------------------------------------------------------------------
(***************************************************************************)
(* The operators of Confirmations.                                         *)
(***************************************************************************)

\* A question takes an identifier nobody used.
LEMMA AskedFacts ==
  ASSUME NEW q, Asked(q)
  PROVE  \E n \in Confs : conf[n].status = "none" /\ conf' = [conf EXCEPT ![n] = q]
<1>1. Unused # {} /\ Unused \in SUBSET Nat
  BY DEF Asked, Unused, Confs
<1>2. \E n \in Unused : \A d \in Unused : n <= d
  <2> HIDE DEF Unused
  <2> QED BY <1>1, LeastNat
<1>3. NewConf \in Unused
  BY <1>2 DEF NewConf
<1> QED BY <1>3 DEF Asked, Unused

LEMMA BlankType == Blank \in Confirmation
<1>1. (CHOOSE s \in Subjects : TRUE) \in Subjects
  BY ConfirmationsAssumption
<1> QED BY <1>1 DEF Blank, Confirmation, Statuses

\* The fields of a question.
LEMMA QuestionFacts ==
  ASSUME clock \in Nat, NEW kind \in {"action", "tool"}, NEW s \in Subjects,
         NEW k \in Keys \cup {NoKey}, NEW o \in Actors \cup {Nobody}
  PROVE  LET q == Question(kind, s, k, o)
         IN  /\ q \in Confirmation
             /\ q.status = "pending" /\ q.kind = kind /\ q.subject = s
             /\ q.key = k /\ q.said = "nothing" /\ ~q.consumed
<1>1. clock + AskTTL \in Nat
  BY ConfirmationsAssumption
<1> QED BY <1>1, BlankType DEF Question, Confirmation, Blank, Statuses

\* What an answer does to the file: it touches one confirmation, and answers
\* it only when it was pending.
LEMMA ResolvedFacts ==
  ASSUME conf \in [Confs -> Confirmation], NEW c \in Confs,
         NEW reply \in Replies, NEW caller
  PROVE  LET r == Resolved(c, reply, caller)
             d == Decision(c, reply, caller)
         IN  /\ r \in [Confs -> Confirmation]
             /\ \A x \in Confs : x # c => r[x] = conf[x]
             /\ r[c].kind = conf[c].kind /\ r[c].subject = conf[c].subject
             /\ r[c].consumed = conf[c].consumed
             /\ \/ r[c] = conf[c] /\ d \notin {"confirmed", "persistent", "rejected"}
                \/ /\ conf[c].status # "none" /\ r[c].status = "expired"
                   /\ r[c].said = conf[c].said
                   /\ d \notin {"confirmed", "persistent", "rejected"}
                \/ /\ conf[c].status = "pending"
                   /\ d \in {"confirmed", "persistent", "rejected"}
                   /\ r[c].said = d
                   /\ r[c].status \in {"confirmed_once", "confirmed_persistent", "rejected"}
                   /\ r[c].status = "confirmed_once" => d = "confirmed"
<1> DEFINE d == Decision(c, reply, caller)
           r == Resolved(c, reply, caller)
<1>1. conf[c] \in Confirmation
  OBVIOUS
<1>2. /\ d \in {"unclear", "expired", "mismatch", "confirmed", "persistent", "rejected"}
      /\ d = "expired" => conf[c].status # "none"
      /\ d \in {"confirmed", "persistent", "rejected"} => conf[c].status = "pending"
  BY DEF Decision, Replies
<1>3. CASE d = "expired"
  <2>1. r = [conf EXCEPT ![c].status = "expired"]
    BY <1>3 DEF Resolved
  <2> HIDE DEF r, d
  <2>2. r \in [Confs -> Confirmation] /\ \A x \in Confs : x # c => r[x] = conf[x]
    BY <2>1, <1>1 DEF Confirmation, Statuses
  <2>3. /\ r[c].kind = conf[c].kind /\ r[c].subject = conf[c].subject
        /\ r[c].consumed = conf[c].consumed
        /\ r[c].status = "expired" /\ r[c].said = conf[c].said
    BY <2>1, <1>1 DEF Confirmation
  <2> QED BY <2>2, <2>3, <1>2, <1>3 DEF r, d
<1>4. CASE d \in {"confirmed", "persistent", "rejected"}
  <2>1. PICK st \in {"confirmed_once", "confirmed_persistent", "rejected"} :
          /\ r = [conf EXCEPT ![c].status = st, ![c].said = d]
          /\ st = "confirmed_once" => d = "confirmed"
    BY <1>4 DEF Resolved
  <2> HIDE DEF r, d
  <2>2. r \in [Confs -> Confirmation] /\ \A x \in Confs : x # c => r[x] = conf[x]
    BY <2>1, <1>1, <1>4 DEF Confirmation, Statuses, Replies
  <2>3. /\ r[c].kind = conf[c].kind /\ r[c].subject = conf[c].subject
        /\ r[c].consumed = conf[c].consumed
        /\ r[c].status = st /\ r[c].said = d
    BY <2>1, <1>1 DEF Confirmation
  <2> QED BY <2>1, <2>2, <2>3, <1>2, <1>4 DEF r, d
<1>5. CASE d \in {"unclear", "mismatch"}
  <2>1. r = conf
    BY <1>5 DEF Resolved
  <2> QED BY <2>1, <1>5
<1> QED BY <1>2, <1>3, <1>4, <1>5

----------------------------------------------------------------------------
(***************************************************************************)
(* The life of a confirmation.                                             *)
(***************************************************************************)

\* What a step may do to confirmation c: nothing, pose it, let it lapse,
\* answer it, or spend it.
Posed(c) ==
    /\ conf[c].status = "none" /\ conf'[c].status = "pending"
    /\ conf'[c].said = "nothing" /\ ~conf'[c].consumed
    /\ conf'[c].kind = "tool" => conf'[c].subject \in Requests

SameQuestion(c) ==
    /\ conf[c].status # "none" /\ conf'[c].status # "none"
    /\ conf'[c].kind = conf[c].kind /\ conf'[c].subject = conf[c].subject

Lapsed(c) ==
    /\ SameQuestion(c) /\ conf'[c].status = "expired"
    /\ conf'[c].said = conf[c].said /\ conf'[c].consumed = conf[c].consumed

Answered(c) ==
    /\ SameQuestion(c) /\ conf[c].status = "pending" /\ conf'[c].status # "pending"
    /\ conf'[c].said \in {"confirmed", "persistent", "rejected"}
    /\ conf'[c].status = "confirmed_once" => conf'[c].said = "confirmed"
    /\ conf'[c].consumed = conf[c].consumed

Spent(c) ==
    /\ SameQuestion(c) /\ conf[c].status = "confirmed_once"
    /\ conf'[c].status = "confirmed_once" /\ conf'[c].said = conf[c].said
    /\ ~conf[c].consumed /\ conf'[c].consumed

Moves(c) == conf'[c] = conf[c] \/ Posed(c) \/ Lapsed(c) \/ Answered(c) \/ Spent(c)
ConfMoves == conf' \in [Confs -> Confirmation] /\ \A c \in Confs : Moves(c)

\* A question is answered once, and only a confirmed one can be spent.
AnswerInv ==
    \A c \in Confs :
        /\ conf[c].status \in {"none", "pending"} =>
             conf[c].said = "nothing" /\ ~conf[c].consumed
        /\ conf[c].status = "confirmed_once" => conf[c].said = "confirmed"
        /\ conf[c].consumed => conf[c].said = "confirmed"
        /\ conf[c].status # "none" /\ conf[c].kind = "tool" => conf[c].subject \in Requests

LEMMA AnswerStep ==
  ASSUME ConfTypeOK, AnswerInv, ConfMoves
  PROVE  AnswerInv'
<1> SUFFICES ASSUME NEW c \in Confs
             PROVE  /\ conf'[c].status \in {"none", "pending"} =>
                         conf'[c].said = "nothing" /\ ~conf'[c].consumed
                    /\ conf'[c].status = "confirmed_once" => conf'[c].said = "confirmed"
                    /\ conf'[c].consumed => conf'[c].said = "confirmed"
                    /\ conf'[c].status # "none" /\ conf'[c].kind = "tool" =>
                         conf'[c].subject \in Requests
  BY DEF AnswerInv, Confs
<1>1. conf[c] \in Confirmation /\ conf'[c] \in Confirmation
  BY DEF ConfTypeOK, ConfMoves
<1>2. Moves(c)
  BY DEF ConfMoves
<1> QED BY <1>1, <1>2 DEF AnswerInv, Confirmation, Moves, Posed, SameQuestion, Lapsed,
          Answered, Spent

\* Every operation on the file is such a move.
LEMMA AskedMoves ==
  ASSUME ConfTypeOK, NEW q \in Confirmation, Asked(q),
         q.status = "pending", q.said = "nothing", ~q.consumed,
         q.kind = "tool" => q.subject \in Requests
  PROVE  ConfMoves
<1>1. PICK n \in Confs : conf[n].status = "none" /\ conf' = [conf EXCEPT ![n] = q]
  BY AskedFacts
<1>2. conf' \in [Confs -> Confirmation]
  BY <1>1 DEF ConfTypeOK
<1>3. conf'[n] = q /\ \A c \in Confs : c # n => conf'[c] = conf[c]
  BY <1>1 DEF ConfTypeOK
<1>4. Posed(n)
  BY <1>1, <1>3 DEF Posed
<1> QED BY <1>2, <1>3, <1>4 DEF ConfMoves, Moves

LEMMA ResolvedMoves ==
  ASSUME ConfTypeOK, NEW c \in Confs, NEW reply \in Replies, NEW caller,
         conf' = Resolved(c, reply, caller)
  PROVE  ConfMoves /\ (Moves(c) /\ ~Posed(c) /\ ~Spent(c))
<1>1. conf \in [Confs -> Confirmation]
  BY DEF ConfTypeOK
<1> DEFINE d == Decision(c, reply, caller)
<1>2. /\ conf' \in [Confs -> Confirmation]
      /\ \A x \in Confs : x # c => conf'[x] = conf[x]
      /\ conf'[c].kind = conf[c].kind /\ conf'[c].subject = conf[c].subject
      /\ conf'[c].consumed = conf[c].consumed
      /\ \/ conf'[c] = conf[c]
         \/ /\ conf[c].status # "none" /\ conf'[c].status = "expired"
            /\ conf'[c].said = conf[c].said
         \/ /\ conf[c].status = "pending"
            /\ d \in {"confirmed", "persistent", "rejected"}
            /\ conf'[c].said = d
            /\ conf'[c].status \in {"confirmed_once", "confirmed_persistent", "rejected"}
            /\ conf'[c].status = "confirmed_once" => d = "confirmed"
  BY <1>1, ResolvedFacts
<1> HIDE DEF d
<1>3. conf'[c] = conf[c] \/ Lapsed(c) \/ Answered(c)
  BY <1>2 DEF Lapsed, Answered, SameQuestion
<1>4. ~Posed(c) /\ ~Spent(c)
  BY <1>2 DEF Posed, Spent
<1> QED BY <1>2, <1>3, <1>4 DEF ConfMoves, Moves

LEMMA ExpiredMoves ==
  ASSUME ConfTypeOK, NEW c \in Confs, conf[c].status # "none",
         conf' = [conf EXCEPT ![c].status = "expired"]
  PROVE  ConfMoves
<1>1. conf \in [Confs -> Confirmation] /\ conf[c] \in Confirmation
  BY DEF ConfTypeOK
<1>2. conf' \in [Confs -> Confirmation] /\ \A x \in Confs : x # c => conf'[x] = conf[x]
  BY <1>1 DEF Confirmation, Statuses
<1>3. Lapsed(c)
  BY <1>1 DEF Lapsed, SameQuestion, Confirmation
<1> QED BY <1>2, <1>3 DEF ConfMoves, Moves

LEMMA SameMoves ==
  ASSUME ConfTypeOK, conf' = conf
  PROVE  ConfMoves
BY DEF ConfTypeOK, ConfMoves, Moves

\* expire_old lets the pending confirmations lapse, whatever the caller then
\* does to one of them.
LEMMA OldFacts ==
  ASSUME ConfTypeOK
  PROVE  /\ WithoutOld \in [Confs -> Confirmation]
         /\ \A c \in Confs :
              \/ WithoutOld[c] = conf[c]
              \/ /\ conf[c].status = "pending" /\ Expired(c, clock)
                 /\ WithoutOld[c].status = "expired"
                 /\ WithoutOld[c].kind = conf[c].kind
                 /\ WithoutOld[c].subject = conf[c].subject
                 /\ WithoutOld[c].said = conf[c].said
                 /\ WithoutOld[c].consumed = conf[c].consumed
<1>1. ASSUME NEW c \in Confs
      PROVE  /\ WithoutOld[c] \in Confirmation
             /\ \/ WithoutOld[c] = conf[c]
                \/ /\ conf[c].status = "pending" /\ Expired(c, clock)
                   /\ WithoutOld[c].status = "expired"
                   /\ WithoutOld[c].kind = conf[c].kind
                   /\ WithoutOld[c].subject = conf[c].subject
                   /\ WithoutOld[c].said = conf[c].said
                   /\ WithoutOld[c].consumed = conf[c].consumed
  <2>1. conf[c] \in Confirmation
    BY DEF ConfTypeOK
  <2>2. WithoutOld[c] = IF conf[c].status = "pending" /\ Expired(c, clock)
                          THEN [conf[c] EXCEPT !.status = "expired"] ELSE conf[c]
    BY DEF WithoutOld
  <2> QED BY <2>1, <2>2 DEF Confirmation, Statuses
<1> QED BY <1>1 DEF WithoutOld

LEMMA OldMoves ==
  ASSUME ConfTypeOK, conf' = WithoutOld
  PROVE  ConfMoves
<1>1. \A c \in Confs : conf'[c] = conf[c] \/ Lapsed(c)
  BY OldFacts DEF Lapsed, SameQuestion
<1> QED BY <1>1, OldFacts DEF ConfMoves, Moves

\* A turn that answers confirmation c after expire_old.
LEMMA TurnMoves ==
  ASSUME ConfTypeOK, NEW c \in Confs, NEW reply \in Replies,
         conf' = [WithoutOld EXCEPT ![c] = Resolved(c, reply, Nobody)[c]]
  PROVE  ConfMoves
<1> DEFINE r == Resolved(c, reply, Nobody)
           d == Decision(c, reply, Nobody)
<1>1. /\ r \in [Confs -> Confirmation]
      /\ r[c].kind = conf[c].kind /\ r[c].subject = conf[c].subject
      /\ r[c].consumed = conf[c].consumed
      /\ \/ r[c] = conf[c]
         \/ /\ conf[c].status # "none" /\ r[c].status = "expired"
            /\ r[c].said = conf[c].said
         \/ /\ conf[c].status = "pending"
            /\ d \in {"confirmed", "persistent", "rejected"}
            /\ r[c].said = d
            /\ r[c].status \in {"confirmed_once", "confirmed_persistent", "rejected"}
            /\ r[c].status = "confirmed_once" => d = "confirmed"
  BY ResolvedFacts DEF ConfTypeOK
<1>2. WithoutOld \in [Confs -> Confirmation]
  BY OldFacts
<1> HIDE DEF r, d
<1>3. /\ conf' \in [Confs -> Confirmation] /\ conf'[c] = r[c]
      /\ \A x \in Confs : x # c => conf'[x] = WithoutOld[x]
  BY <1>1, <1>2 DEF r
<1>4. conf'[c] = conf[c] \/ Lapsed(c) \/ Answered(c)
  BY <1>1, <1>3 DEF Lapsed, Answered, SameQuestion
<1>5. \A x \in Confs : x # c => conf'[x] = conf[x] \/ Lapsed(x)
  BY <1>3, OldFacts DEF Lapsed, SameQuestion
<1> QED BY <1>3, <1>4, <1>5 DEF ConfMoves, Moves

----------------------------------------------------------------------------
(***************************************************************************)
(* dequeue_ready, by induction along the queue.                            *)
(***************************************************************************)

Upto(q, n) == {q[j] : j \in 1..n}
Elems(q) == Upto(q, Len(q))
Distinct(q) == \A j, k \in 1..Len(q) : q[j] = q[k] => j = k

Scanned(q, f, n) ==
    IF n = 0 THEN [ready |-> {}, left |-> <<>>]
    ELSE LET s == f[n - 1]
         IN  IF \/ Cardinality(s.ready) >= MaxParallel
                \/ q[n] \notin Parallel /\ s.ready \ Parallel # {}
               THEN [ready |-> s.ready, left |-> Append(s.left, q[n])]
               ELSE [ready |-> s.ready \cup {q[n]}, left |-> s.left]

\* The recursion of the scan defines a function.
LEMMA ScanExists ==
  ASSUME NEW q, Len(q) \in Nat
  PROVE  \E f : /\ f = [n \in 0..Len(q) |-> Scanned(q, f, n)]
                /\ DequeueReady(q) = f[Len(q)]
<1> DEFINE P == {m \in Nat : \E f : f = [n \in 0..m |-> Scanned(q, f, n)]}
<1>1. 0 \in P
  <2> DEFINE f == [n \in 0..0 |-> [ready |-> {}, left |-> <<>>]]
  <2>1. f = [n \in 0..0 |-> Scanned(q, f, n)]
    BY DEF Scanned
  <2> QED BY <2>1
<1>2. ASSUME NEW m \in P PROVE m + 1 \in P
  <2>1. PICK f : f = [n \in 0..m |-> Scanned(q, f, n)]
    BY <1>2
  <2> DEFINE g == [n \in 0..(m + 1) |-> IF n = m + 1 THEN Scanned(q, f, m + 1) ELSE f[n]]
  <2>2. ASSUME NEW n \in 0..(m + 1) PROVE g[n] = Scanned(q, g, n)
    <3>1. n # 0 => g[n - 1] = f[n - 1]
      OBVIOUS
    <3>2. Scanned(q, g, n) = Scanned(q, f, n)
      BY <3>1 DEF Scanned
    <3>3. n # m + 1 => f[n] = Scanned(q, f, n)
      BY <2>1
    <3> QED BY <3>2, <3>3
  <2>3. g = [n \in 0..(m + 1) |-> Scanned(q, g, n)]
    BY <2>2
  <2> HIDE DEF g
  <2>4. \E h : h = [n \in 0..(m + 1) |-> Scanned(q, h, n)]
    BY <2>3
  <2> QED BY <2>4
<1>3. P = Nat
  <2>1. P \in SUBSET Nat
    OBVIOUS
  <2> HIDE DEF P
  <2> QED BY <2>1, <1>1, <1>2, EveryNat
<1>4. \E f : f = [n \in 0..Len(q) |-> Scanned(q, f, n)]
  BY <1>3
<1> DEFINE F == CHOOSE h : h = [n \in 0..Len(q) |-> Scanned(q, h, n)]
<1>5. F = [n \in 0..Len(q) |-> Scanned(q, F, n)]
  BY <1>4
<1>6. DequeueReady(q) = F[Len(q)]
  BY DEF DequeueReady, Scanned
<1> QED BY <1>5, <1>6

\* What the scan has after n commands: a bounded batch with one serial command
\* at most, and the others, in order.
ScanGood(q, s, n) ==
    /\ s.ready \subseteq Upto(q, n) /\ s.left \in Seq(Intents)
    /\ Elems(s.left) \subseteq Upto(q, n)
    /\ IsFiniteSet(s.ready) /\ Cardinality(s.ready) <= MaxParallel
    /\ IsFiniteSet(s.ready \ Parallel) /\ Cardinality(s.ready \ Parallel) <= 1
    /\ Distinct(q) => Distinct(s.left) /\ s.ready \cap Elems(s.left) = {}

LEMMA AppendFacts ==
  ASSUME NEW S, NEW s \in Seq(S), NEW x \in S
  PROVE  /\ Append(s, x) \in Seq(S)
         /\ Elems(Append(s, x)) = Elems(s) \cup {x}
         /\ Distinct(s) /\ x \notin Elems(s) => Distinct(Append(s, x))
<1>1. /\ Append(s, x) \in Seq(S) /\ Len(Append(s, x)) = Len(s) + 1 /\ Len(s) \in Nat
      /\ \A j \in 1..Len(s) : Append(s, x)[j] = s[j]
      /\ Append(s, x)[Len(s) + 1] = x
  OBVIOUS
<1>2. \A j \in 1..(Len(s) + 1) : j \in 1..Len(s) \/ j = Len(s) + 1
  BY <1>1
<1>3. Elems(Append(s, x)) = Elems(s) \cup {x}
  BY <1>1, <1>2 DEF Elems, Upto
<1>4. Distinct(s) /\ x \notin Elems(s) => Distinct(Append(s, x))
  BY <1>1, <1>2 DEF Distinct, Elems, Upto
<1> QED BY <1>1, <1>3, <1>4

LEMMA ScanStep ==
  ASSUME NEW q \in Seq(Intents), NEW f, NEW n \in 1..Len(q), ScanGood(q, f[n - 1], n - 1)
  PROVE  ScanGood(q, Scanned(q, f, n), n)
<1> DEFINE s == f[n - 1]
           t == Scanned(q, f, n)
<1>1. /\ Len(q) \in Nat /\ n \in Nat /\ n # 0 /\ q[n] \in Intents
  OBVIOUS
<1>2. Upto(q, n) = Upto(q, n - 1) \cup {q[n]}
  <2>1. \A j \in 1..n : j \in 1..(n - 1) \/ j = n
    BY <1>1
  <2>2. \A j \in 1..(n - 1) : j \in 1..n
    BY <1>1
  <2> QED BY <2>1, <2>2, <1>1 DEF Upto
<1>3. Distinct(q) => q[n] \notin Upto(q, n - 1)
  BY <1>1 DEF Distinct, Upto
<1>4. MaxParallel \in Nat \ {0}
  BY ActionAssumption
<1>5. CASE \/ Cardinality(s.ready) >= MaxParallel
           \/ q[n] \notin Parallel /\ s.ready \ Parallel # {}
  <2>1. t.ready = s.ready /\ t.left = Append(s.left, q[n])
    BY <1>5, <1>1 DEF Scanned
  <2>2. /\ Append(s.left, q[n]) \in Seq(Intents)
        /\ Elems(Append(s.left, q[n])) = Elems(s.left) \cup {q[n]}
        /\ Distinct(s.left) /\ q[n] \notin Elems(s.left) => Distinct(Append(s.left, q[n]))
    BY <1>1, AppendFacts DEF ScanGood
  <2> HIDE DEF s, t
  <2>3. Distinct(q) => Distinct(t.left) /\ t.ready \cap Elems(t.left) = {}
    BY <2>1, <2>2, <1>2, <1>3 DEF ScanGood, s
  <2>4. /\ t.ready \subseteq Upto(q, n) /\ t.left \in Seq(Intents)
        /\ Elems(t.left) \subseteq Upto(q, n)
    BY <2>1, <2>2, <1>2 DEF ScanGood, s
  <2> QED BY <2>1, <2>3, <2>4 DEF ScanGood, s, t
<1>6. CASE ~ \/ Cardinality(s.ready) >= MaxParallel
             \/ q[n] \notin Parallel /\ s.ready \ Parallel # {}
  <2>1. t.ready = s.ready \cup {q[n]} /\ t.left = s.left
    BY <1>6, <1>1 DEF Scanned
  <2>2. /\ IsFiniteSet(s.ready) /\ Cardinality(s.ready) \in Nat
        /\ Cardinality(s.ready) < MaxParallel
    BY <1>4, <1>6, FS_CardinalityType DEF ScanGood
  <2>3. IsFiniteSet(t.ready) /\ Cardinality(t.ready) <= MaxParallel
    <3> HIDE DEF s, t
    <3>1. /\ IsFiniteSet(s.ready \cup {q[n]})
          /\ Cardinality(s.ready \cup {q[n]}) =
                IF q[n] \in s.ready THEN Cardinality(s.ready) ELSE Cardinality(s.ready) + 1
      BY <2>2, FS_AddElement
    <3> QED BY <2>1, <2>2, <3>1, <1>4
  <2>4. IsFiniteSet(t.ready \ Parallel) /\ Cardinality(t.ready \ Parallel) <= 1
    <3>1. CASE q[n] \in Parallel
      <4>1. t.ready \ Parallel = s.ready \ Parallel
        BY <2>1, <3>1
      <4> QED BY <4>1 DEF ScanGood
    <3>2. CASE q[n] \notin Parallel
      <4>1. t.ready \ Parallel = {q[n]}
        BY <2>1, <3>2, <1>6
      <4>2. IsFiniteSet({q[n]}) /\ Cardinality({q[n]}) = 1
        BY FS_Singleton
      <4>3. IsFiniteSet(t.ready \ Parallel) /\ Cardinality(t.ready \ Parallel) = 1
        BY <4>1, <4>2, Zenon
      <4> HIDE DEF s, t
      <4> QED BY <4>3
    <3> QED BY <3>1, <3>2
  <2> HIDE DEF s, t
  <2>5. Distinct(q) => Distinct(t.left) /\ t.ready \cap Elems(t.left) = {}
    BY <2>1, <1>2, <1>3 DEF ScanGood, s
  <2>6. /\ t.ready \subseteq Upto(q, n) /\ t.left \in Seq(Intents)
        /\ Elems(t.left) \subseteq Upto(q, n)
    BY <2>1, <1>2 DEF ScanGood, s
  <2> QED BY <2>3, <2>4, <2>5, <2>6 DEF ScanGood, t
<1> QED BY <1>5, <1>6

\* A tick takes a bounded batch of the queue's commands, one serial command at
\* most, and leaves commands of the queue that it did not take.
LEMMA DequeueFacts ==
  ASSUME NEW q \in Seq(Intents)
  PROVE  ScanGood(q, DequeueReady(q), Len(q))
<1>1. Len(q) \in Nat
  OBVIOUS
<1>2. PICK f : f = [n \in 0..Len(q) |-> Scanned(q, f, n)] /\ DequeueReady(q) = f[Len(q)]
  BY <1>1, ScanExists
<1> DEFINE P == {n \in Nat : n <= Len(q) => ScanGood(q, f[n], n)}
<1>3. 0 \in P
  <2>1. f[0] = [ready |-> {}, left |-> <<>>]
    BY <1>1, <1>2 DEF Scanned
  <2>2. Elems(<<>>) = {} /\ Distinct(<<>>) /\ {} \ Parallel = {}
    BY DEF Elems, Upto, Distinct
  <2>3. MaxParallel \in Nat
    BY ActionAssumption
  <2>4. IsFiniteSet({}) /\ Cardinality({}) = 0
    BY FS_EmptySet
  <2> DEFINE e == [ready |-> {}, left |-> <<>>]
  <2>5. /\ e.ready = {} /\ e.left = <<>> /\ <<>> \in Seq(Intents)
    OBVIOUS
  <2> HIDE DEF e
  <2>6. ScanGood(q, e, 0)
    BY <2>2, <2>3, <2>4, <2>5 DEF ScanGood
  <2> QED BY <2>1, <2>6 DEF e
<1>4. ASSUME NEW m \in P PROVE m + 1 \in P
  <2> SUFFICES ASSUME m + 1 <= Len(q) PROVE ScanGood(q, f[m + 1], m + 1)
    BY <1>1
  <2>1. m + 1 \in 1..Len(q) /\ (m + 1) - 1 = m /\ ScanGood(q, f[m], m)
    BY <1>1, <1>4
  <2>2. f[m + 1] = Scanned(q, f, m + 1)
    BY <1>2, <2>1
  <2> HIDE DEF P
  <2> QED BY <2>1, <2>2, ScanStep
<1>5. P = Nat
  <2>1. P \in SUBSET Nat
    OBVIOUS
  <2> HIDE DEF P
  <2> QED BY <2>1, <1>3, <1>4, EveryNat
<1> QED BY <1>1, <1>2, <1>5

----------------------------------------------------------------------------
(***************************************************************************)
(* Types, and what every step does to the file of confirmations.           *)
(***************************************************************************)

\* A call that is about to claim holds a question that was posed.
ClaimInv ==
    \A p \in Procs : call[p].pc = "claim" =>
        call[p].conf \in Confs /\ conf[call[p].conf].status # "none"

LEMMA ConstantFacts ==
  /\ MaxConfs \in Nat /\ AskTTL \in Nat /\ MaxClock \in Nat /\ MaxFaults \in Nat
  /\ NoKey \notin Keys /\ Nobody \notin Actors /\ ShortTTL \in Nat /\ LongTTL \in Nat
  /\ \A i \in Intents : i \in Subjects /\ IntentKey[i] \in Keys \cup {NoKey}
  /\ \A r \in Requests : /\ r \in Subjects /\ r \in Keys
                         /\ ReqSession[r] \in Sessions /\ ReqTool[r] \in Tools
  /\ \A s \in Sessions : Owner[s] \in Actors \cup {Nobody}
BY ConfirmationsAssumption, ActionAssumption, ApprovalAssumption

LEMMA RetryMoves ==
  ASSUME ConfTypeOK, AnswerInv, NEW c \in Confs, RetryConfirmation(c)
  PROVE  ConfMoves
<1>1. conf[c] \in Confirmation /\ clock \in Nat
  BY ConstantFacts DEF ConfTypeOK
<1>2. conf[c].kind \in {"action", "tool"} /\ conf[c].subject \in Subjects /\ conf[c].retries \in Nat
  BY <1>1 DEF Confirmation
<1> DEFINE q == Question(conf[c].kind, conf[c].subject, NoKey, Nobody)
           e == [q EXCEPT !.retries = conf[c].retries + 1]
<1>3. /\ q \in Confirmation /\ q.status = "pending" /\ q.kind = conf[c].kind
      /\ q.subject = conf[c].subject /\ q.said = "nothing" /\ ~q.consumed
  BY <1>1, <1>2, QuestionFacts
<1>4. conf[c].kind = "tool" => conf[c].subject \in Requests
  BY DEF RetryConfirmation, AnswerInv
<1>5. Asked(e)
  BY DEF RetryConfirmation
<1> HIDE DEF q
<1>6. /\ e \in Confirmation /\ e.status = "pending" /\ e.said = "nothing" /\ ~e.consumed
      /\ e.kind = conf[c].kind /\ e.subject = conf[c].subject
  BY <1>2, <1>3 DEF Confirmation
<1> HIDE DEF e
<1> QED BY <1>4, <1>5, <1>6, AskedMoves

LEMMA AskMoves ==
  ASSUME ConfTypeOK, NEW kind \in {"action", "tool"}, NEW s \in Subjects,
         NEW k \in Keys \cup {NoKey}, NEW o \in Actors \cup {Nobody},
         kind = "tool" => s \in Requests,
         Asked(Question(kind, s, k, o))
  PROVE  ConfMoves
<1> DEFINE q == Question(kind, s, k, o)
<1>1. clock \in Nat
  BY ConstantFacts DEF ConfTypeOK
<1>2. /\ q \in Confirmation /\ q.status = "pending" /\ q.kind = kind
      /\ q.subject = s /\ q.said = "nothing" /\ ~q.consumed
  BY <1>1, QuestionFacts
<1> HIDE DEF q
<1> QED BY <1>2, AskedMoves DEF q

LEMMA ClaimMoves ==
  ASSUME ConfTypeOK, ClaimInv, NEW p \in Procs, ResumeClaims(p)
  PROVE  ConfMoves
<1> DEFINE c == call[p].conf
           now == call[p].now
<1>1. c \in Confs /\ conf[c].status # "none" /\ conf' = Claimed(c, now)
  BY DEF ClaimInv, ResumeClaims
<1>2. conf \in [Confs -> Confirmation] /\ conf[c] \in Confirmation
  BY <1>1 DEF ConfTypeOK
<1> HIDE DEF c, now
<1>3. CASE Expired(c, now)
  <2>1. conf' = [conf EXCEPT ![c].status = "expired"]
    BY <1>1, <1>3 DEF Claimed
  <2> QED BY <2>1, <1>1, ExpiredMoves
<1>4. CASE ~Expired(c, now) /\ Claimable(c, now)
  <2>1. conf' = [conf EXCEPT ![c].consumed = TRUE]
    BY <1>1, <1>4 DEF Claimed
  <2>2. conf' \in [Confs -> Confirmation] /\ \A x \in Confs : x # c => conf'[x] = conf[x]
    BY <2>1, <1>2 DEF Confirmation
  <2>3. Spent(c)
    BY <2>1, <1>1, <1>2, <1>4 DEF Spent, SameQuestion, Confirmation, Claimable
  <2> QED BY <2>2, <2>3 DEF ConfMoves, Moves
<1>5. CASE ~Expired(c, now) /\ ~Claimable(c, now)
  <2>1. conf' = conf
    BY <1>1, <1>5 DEF Claimed
  <2> QED BY <2>1, SameMoves
<1> QED BY <1>3, <1>4, <1>5

LEMMA LookMoves ==
  ASSUME ConfTypeOK, NEW p \in Procs, NEW c \in Confs, NEW reply \in Replies,
         ResumeLooks(p, c, reply)
  PROVE  ConfMoves
<1>1. CASE conf[c].kind = "action" /\ Pending(c)
  BY <1>1, ResolvedMoves DEF ResumeLooks
<1>2. CASE ~(conf[c].kind = "action" /\ Pending(c))
  <2>1. conf[c].status # "none" /\ conf' = ExpireOne(c)
    BY <1>2 DEF ResumeLooks
  <2>2. conf' = conf \/ conf' = [conf EXCEPT ![c].status = "expired"]
    BY <2>1 DEF ExpireOne
  <2> QED BY <2>1, <2>2, SameMoves, ExpiredMoves
<1> QED BY <1>1, <1>2

LEMMA UserTurnMoves ==
  ASSUME ConfTypeOK, NEW s \in Sessions, NEW reply \in Replies, UserTurn(s, reply)
  PROVE  ConfMoves
<1>1. CASE conf' = WithoutOld
  BY <1>1, OldMoves
<1>2. CASE \E c \in Latest(s) :
             conf' = [WithoutOld EXCEPT ![c] = Resolved(c, reply, Nobody)[c]]
  <2>1. PICK c \in Latest(s) :
          conf' = [WithoutOld EXCEPT ![c] = Resolved(c, reply, Nobody)[c]]
    BY <1>2
  <2>2. c \in Confs
    BY DEF Latest
  <2> QED BY <2>1, <2>2, TurnMoves
<1> QED BY <1>1, <1>2 DEF UserTurn

LEMMA EveryStepMoves ==
  ASSUME ConfTypeOK, AnswerInv, ClaimInv, [Next]_vars
  PROVE  ConfMoves
<1>1. CASE ConfStep
  <2>1. CASE ListPending
    BY <2>1, OldMoves DEF ListPending
  <2>2. CASE Elapse
    BY <2>2, SameMoves DEF Elapse
  <2> QED BY <1>1, <2>1, <2>2, RetryMoves DEF ConfStep
<1>2. CASE ActionStep
  <2>1. ASSUME NEW p \in Procs, NEW i \in Intents, SubmitAsks(p, i)
        PROVE  ConfMoves
    <3>1. /\ i \in Subjects /\ IntentKey[i] \in Keys \cup {NoKey}
          /\ Asked(Question("action", i, IntentKey[i], Nobody))
      BY <2>1, ConstantFacts DEF SubmitAsks
    <3> QED BY <3>1, AskMoves
  <2>2. ASSUME NEW p \in Procs, TickStarts(p) \/ CallExecutes(p) \/ CallRemembers(p) \/ Crash(p)
        PROVE  conf' = conf
    BY <2>2 DEF TickStarts, CallExecutes, CallRemembers, Crash
  <2>3. ASSUME NEW i \in Intents, \/ BackendRuns(i) \/ Dispatched(i)
                                  \/ \E p \in Procs : SubmitAllowed(p, i)
        PROVE  conf' = conf
    BY <2>3 DEF BackendRuns, Dispatched, SubmitAllowed
  <2> QED BY <1>2, <2>1, <2>2, <2>3, SameMoves, ClaimMoves, LookMoves DEF ActionStep
<1>3. CASE ApprovalStep
  <2>1. ASSUME NEW r \in Requests, CallTool(r)
        PROVE  ConfMoves
    <3>1. CASE UNCHANGED conf
      BY <3>1, SameMoves
    <3>2. CASE Asked(Question("tool", r, r, Owner[ReqSession[r]]))
      <4>1. r \in Subjects /\ r \in Keys /\ Owner[ReqSession[r]] \in Actors \cup {Nobody}
        BY ConstantFacts
      <4> QED BY <3>2, <4>1, AskMoves
    <3> QED BY <2>1, <3>1, <3>2 DEF CallTool
  <2>2. ASSUME NEW c \in Confs, NEW reply \in {"confirmed", "rejected"}, NEW a,
               RestDecides(c, reply, a) \/ CommandDecides(c, reply, a)
        PROVE  ConfMoves
    <3>1. reply \in Replies /\ conf' = Resolved(c, reply, a)
      BY <2>2 DEF RestDecides, CommandDecides, Replies
    <3> QED BY <3>1, ResolvedMoves
  <2> QED BY <1>3, <2>1, <2>2, UserTurnMoves DEF ApprovalStep
<1>4. CASE UNCHANGED vars
  BY <1>4, SameMoves DEF vars, confVars
<1> QED BY <1>1, <1>2, <1>3, <1>4 DEF Next

LEMMA TimeTypes ==
  ASSUME ConfTypeOK, [Next]_vars
  PROVE  clock' \in 0..MaxClock /\ faults' \in 0..MaxFaults /\ clock <= clock'
<1>1. clock \in 0..MaxClock /\ faults \in 0..MaxFaults /\ MaxClock \in Nat /\ MaxFaults \in Nat
  BY ConstantFacts DEF ConfTypeOK
<1>2. clock' = clock \/ Elapse
  <2>1. CASE ConfStep \/ UNCHANGED vars
    BY <2>1 DEF vars, confVars, ConfStep, ListPending, RetryConfirmation
  <2>2. CASE ActionStep
    BY <2>2 DEF ActionStep, SubmitAsks, SubmitAllowed, TickStarts, ResumeClaims, CallExecutes,
                CallRemembers, Crash, BackendRuns, Dispatched, ResumeLooks
  <2>3. CASE ApprovalStep
    BY <2>3 DEF ApprovalStep, CallTool, UserTurn, RestDecides, CommandDecides
  <2> QED BY <2>1, <2>2, <2>3 DEF Next
<1>3. faults' = faults \/ Fault
  <2>1. CASE ConfStep \/ UNCHANGED vars
    BY <2>1 DEF vars, confVars, ConfStep, ListPending, Elapse, RetryConfirmation
  <2>2. CASE ActionStep
    BY <2>2 DEF ActionStep, SubmitAsks, SubmitAllowed, TickStarts, ResumeClaims, CallExecutes,
                CallRemembers, Crash, BackendRuns, Dispatched, ResumeLooks, Remember
  <2>3. CASE ApprovalStep
    BY <2>3 DEF ApprovalStep, CallTool, UserTurn, RestDecides, CommandDecides, Then
  <2> QED BY <2>1, <2>2, <2>3 DEF Next
<1> QED BY <1>1, <1>2, <1>3 DEF Fault, Elapse

\* The steps of the executor, one by one.
LEMMA ActionCases ==
  ASSUME [Next]_vars
  PROVE  \/ \E p \in Procs, i \in Intents : SubmitAsks(p, i)
         \/ \E p \in Procs, i \in Intents : SubmitAllowed(p, i)
         \/ \E p \in Procs : TickStarts(p)
         \/ \E i \in Intents : BackendRuns(i)
         \/ \E i \in Intents : Dispatched(i)
         \/ \E p \in Procs, c \in Confs, reply \in Replies : ResumeLooks(p, c, reply)
         \/ \E p \in Procs : ResumeClaims(p)
         \/ \E p \in Procs : CallExecutes(p)
         \/ \E p \in Procs : CallRemembers(p)
         \/ \E p \in Procs : Crash(p)
         \/ UNCHANGED actionVars
BY DEF Next, ActionStep, vars

LEMMA RanType ==
  ASSUME runs \in [Keys -> Nat], NEW k
  PROVE  /\ Ran(k) \in [Keys -> Nat]
         /\ \A x \in Keys : Ran(k)[x] = IF x = k THEN runs[x] + 1 ELSE runs[x]
BY DEF Ran

LEMMA RememberType ==
  ASSUME ActionTypeOK, NEW p \in Procs, NEW k, Remember(p, k)
  PROVE  /\ known' \in [Procs -> SUBSET Keys] /\ keyFile' \subseteq Keys
         /\ excused' \subseteq Keys
<1>1. CASE k \in Keys \ known[p]
  <2>1. known[p] \cup {k} \subseteq Keys
    BY <1>1 DEF ActionTypeOK
  <2>2. known' \in [Procs -> SUBSET Keys]
    BY <1>1, <2>1 DEF ActionTypeOK, Remember
  <2> QED BY <1>1, <2>2 DEF ActionTypeOK, Remember
<1>2. CASE k \notin Keys \ known[p]
  BY <1>2 DEF ActionTypeOK, Remember
<1> QED BY <1>1, <1>2

LEMMA ExcuseType ==
  ASSUME NEW p, NEW k
  PROVE  Excuse(p, k) \subseteq Keys
BY DEF Excuse

LEMMA ActionTypes ==
  ASSUME ConfTypeOK, ActionTypeOK, ClaimInv, [Next]_vars
  PROVE  ActionTypeOK'
<1>0. Idle \in Call /\ \A p \in Procs : call[p] \in Call
  BY ConstantFacts DEF Idle, Call, ActionTypeOK
<1>1. ASSUME NEW p \in Procs, NEW i \in Intents, SubmitAsks(p, i)
      PROVE  ActionTypeOK'
  BY <1>1 DEF SubmitAsks, ActionTypeOK, Stages
<1>2. ASSUME NEW p \in Procs, NEW i \in Intents, SubmitAllowed(p, i)
      PROVE  ActionTypeOK'
  <2>1. stage' \in [Intents -> Stages] /\ home' \in [Intents -> Procs]
    BY <1>2 DEF SubmitAllowed, ActionTypeOK, Stages
  <2>2. queue' \in [Procs -> Seq(Intents)]
    <3>1. Append(queue[p], i) \in Seq(Intents)
      BY DEF ActionTypeOK
    <3>2. queue' = queue \/ queue' = [queue EXCEPT ![p] = Append(queue[p], i)]
      BY <1>2 DEF SubmitAllowed
    <3> QED BY <3>1, <3>2 DEF ActionTypeOK
  <2>3. [Idle EXCEPT !.pc = "execute", !.key = IntentKey[i]] \in Call
    <3>1. IntentKey[i] \in Keys \cup {NoKey}
      BY ConstantFacts
    <3> QED BY <3>1, <1>0 DEF Call
  <2>4. call' \in [Procs -> Call]
    BY <1>2, <2>3 DEF SubmitAllowed, ActionTypeOK
  <2>5. excused' \subseteq Keys
    BY <1>2, ExcuseType DEF SubmitAllowed, ActionTypeOK
  <2> QED BY <1>2, <2>1, <2>2, <2>4, <2>5 DEF SubmitAllowed, ActionTypeOK
<1>3. ASSUME NEW p \in Procs, TickStarts(p)
      PROVE  ActionTypeOK'
  <2>1. DequeueReady(queue[p]).left \in Seq(Intents)
    BY DequeueFacts DEF ActionTypeOK, ScanGood
  <2> QED BY <1>3, <2>1 DEF TickStarts, ActionTypeOK, Stages
<1>4. ASSUME NEW i \in Intents, BackendRuns(i)
      PROVE  ActionTypeOK'
  <2>1. runs' \in [Keys -> Nat]
    BY <1>4, RanType DEF BackendRuns, ActionTypeOK
  <2> QED BY <1>4, <2>1 DEF BackendRuns, ActionTypeOK, Stages
<1>5. ASSUME NEW i \in Intents, Dispatched(i)
      PROVE  ActionTypeOK'
  <2>1. home[i] \in Procs
    BY DEF ActionTypeOK
  <2>2. known' \in [Procs -> SUBSET Keys] /\ keyFile' \subseteq Keys /\ excused' \subseteq Keys
    BY <1>5, <2>1, RememberType DEF Dispatched
  <2> QED BY <1>5, <2>2 DEF Dispatched, ActionTypeOK, Stages
<1>6. ASSUME NEW p \in Procs, NEW c \in Confs, NEW reply \in Replies, ResumeLooks(p, c, reply)
      PROVE  ActionTypeOK'
  <2>1. conf[c].key \in Keys \cup {NoKey} /\ clock \in Nat /\ c \in 0..MaxConfs
    BY ConstantFacts DEF ConfTypeOK, Confirmation, Confs
  <2>2. [pc |-> "claim", conf |-> c, key |-> conf[c].key, now |-> clock] \in Call
    BY <2>1 DEF Call
  <2>3. call' \in [Procs -> Call]
    BY <1>6, <2>2 DEF ResumeLooks, ActionTypeOK
  <2>4. excused' \subseteq Keys
    BY <1>6, ExcuseType DEF ResumeLooks, ActionTypeOK
  <2> QED BY <1>6, <2>3, <2>4 DEF ResumeLooks, ActionTypeOK
<1>7. ASSUME NEW p \in Procs, ResumeClaims(p)
      PROVE  ActionTypeOK'
  <2>1. [call[p] EXCEPT !.pc = "execute"] \in Call
    BY <1>0 DEF Call
  <2>2. call' \in [Procs -> Call]
    BY <1>7, <1>0, <2>1 DEF ResumeClaims, ActionTypeOK
  <2> QED BY <1>7, <2>2 DEF ResumeClaims, ActionTypeOK
<1>8. ASSUME NEW p \in Procs, CallExecutes(p)
      PROVE  ActionTypeOK'
  <2>1. [call[p] EXCEPT !.pc = "remember"] \in Call
    BY <1>0 DEF Call
  <2>2. call' \in [Procs -> Call]
    BY <1>8, <1>0, <2>1 DEF CallExecutes, ActionTypeOK
  <2>3. runs' \in [Keys -> Nat]
    BY <1>8, RanType DEF CallExecutes, ActionTypeOK
  <2>4. confRuns' \in [Confs -> Nat]
    <3>1. \/ confRuns' = confRuns
          \/ confRuns' = [confRuns EXCEPT ![call[p].conf] = confRuns[call[p].conf] + 1]
      BY <1>8 DEF CallExecutes
    <3>2. call[p].conf \in Confs => confRuns[call[p].conf] + 1 \in Nat
      BY DEF ActionTypeOK
    <3> QED BY <3>1, <3>2 DEF ActionTypeOK
  <2> QED BY <1>8, <2>2, <2>3, <2>4 DEF CallExecutes, ActionTypeOK
<1>9. ASSUME NEW p \in Procs, CallRemembers(p)
      PROVE  ActionTypeOK'
  <2>1. known' \in [Procs -> SUBSET Keys] /\ keyFile' \subseteq Keys /\ excused' \subseteq Keys
    BY <1>9, RememberType DEF CallRemembers
  <2> QED BY <1>9, <1>0, <2>1 DEF CallRemembers, ActionTypeOK
<1>10. ASSUME NEW p \in Procs, Crash(p)
       PROVE  ActionTypeOK'
  <2>1. stage' \in [Intents -> Stages] /\ excused' \subseteq Keys
    BY <1>10 DEF Crash, ActionTypeOK, Stages
  <2>2. queue' \in [Procs -> Seq(Intents)]
    BY <1>10 DEF Crash, ActionTypeOK
  <2> QED BY <1>10, <1>0, <2>1, <2>2 DEF Crash, ActionTypeOK
<1>11. CASE UNCHANGED actionVars
  BY <1>11 DEF actionVars, ActionTypeOK
<1> QED BY <1>1, <1>2, <1>3, <1>4, <1>5, <1>6, <1>7, <1>8, <1>9, <1>10, <1>11, ActionCases

----------------------------------------------------------------------------
(***************************************************************************)
(* A confirmation is spent once.                                           *)
(***************************************************************************)

\* Who executes for a confirmation has spent it, alone, and before any other
\* backend call was made for it.
SpentInv ==
    \A c \in Confs :
        /\ confRuns[c] <= 1
        /\ ~conf[c].consumed => confRuns[c] = 0
        /\ \A p \in Procs : call[p].pc = "execute" /\ call[p].conf = c =>
             /\ conf[c].consumed /\ confRuns[c] = 0
             /\ \A r \in Procs : call[r].pc = "execute" /\ call[r].conf = c => r = p

\* What is spent stays spent, and what is posed stays posed.
LEMMA MovesKeep ==
  ASSUME ConfTypeOK, AnswerInv, ConfMoves, NEW c \in Confs
  PROVE  /\ conf[c].consumed => conf'[c].consumed
         /\ conf[c].status # "none" => conf'[c].status # "none"
<1>1. conf[c] \in Confirmation /\ conf'[c] \in Confirmation /\ Moves(c)
  BY DEF ConfTypeOK, ConfMoves
<1> QED BY <1>1 DEF Confirmation, Moves, Posed, SameQuestion, Lapsed, Answered, Spent, AnswerInv

LEMMA SpentStep ==
  ASSUME ConfTypeOK, ActionTypeOK, AnswerInv, ClaimInv, SpentInv, ConfMoves, [Next]_vars
  PROVE  ClaimInv' /\ SpentInv'
<1>0. /\ \A p \in Procs : call[p] \in Call
      /\ \A c \in Confs : confRuns[c] \in Nat /\ c # 0
      /\ Idle.pc = "idle"
  BY ConstantFacts DEF ActionTypeOK, Idle, Confs
<1>k. \A c \in Confs : /\ conf[c].consumed => conf'[c].consumed
                       /\ conf[c].status # "none" => conf'[c].status # "none"
  BY MovesKeep
<1>s. Confs' = Confs
  BY DEF Confs
\* A call that stays, ends, or goes on to another point leaves the rest alone.
<1>a. ASSUME confRuns' = confRuns,
             \A p \in Procs : \/ call'[p] = call[p]
                              \/ call'[p].pc = "idle"
                              \/ call'[p].pc = "execute" /\ call'[p].conf = 0
                              \/ /\ call'[p].pc = "claim" /\ call'[p].conf \in Confs
                                 /\ conf[call'[p].conf].status # "none"
      PROVE  ClaimInv' /\ SpentInv'
  <2>1. ClaimInv'
    BY <1>a, <1>k, <1>s DEF ClaimInv
  <2>2. SpentInv'
    BY <1>a, <1>k, <1>s, <1>0 DEF SpentInv
  <2> QED BY <2>1, <2>2
<1>1. ASSUME NEW p \in Procs, NEW i \in Intents, SubmitAsks(p, i) \/ SubmitAllowed(p, i)
      PROVE  ClaimInv' /\ SpentInv'
  <2>1. [Idle EXCEPT !.pc = "execute", !.key = IntentKey[i]].pc = "execute"
        /\ [Idle EXCEPT !.pc = "execute", !.key = IntentKey[i]].conf = 0
    BY DEF Idle
  <2>2. /\ confRuns' = confRuns
        /\ \/ call' = call
           \/ call' = [call EXCEPT ![p] = [Idle EXCEPT !.pc = "execute", !.key = IntentKey[i]]]
    BY <1>1 DEF SubmitAsks, SubmitAllowed
  <2> QED BY <2>1, <2>2, <1>a DEF ActionTypeOK
<1>2. ASSUME NEW p \in Procs, TickStarts(p) \/ CallRemembers(p) \/ Crash(p)
      PROVE  ClaimInv' /\ SpentInv'
  <2>1. confRuns' = confRuns /\ (call' = call \/ call' = [call EXCEPT ![p] = Idle])
    BY <1>2 DEF TickStarts, CallRemembers, Crash
  <2> QED BY <2>1, <1>0, <1>a DEF ActionTypeOK
<1>3. ASSUME NEW i \in Intents, BackendRuns(i) \/ Dispatched(i)
      PROVE  ClaimInv' /\ SpentInv'
  <2>1. confRuns' = confRuns /\ call' = call
    BY <1>3 DEF BackendRuns, Dispatched
  <2> QED BY <2>1, <1>a
<1>4. ASSUME NEW p \in Procs, NEW c \in Confs, NEW reply \in Replies, ResumeLooks(p, c, reply)
      PROVE  ClaimInv' /\ SpentInv'
  <2> DEFINE e == [pc |-> "claim", conf |-> c, key |-> conf[c].key, now |-> clock]
  <2>1. /\ confRuns' = confRuns /\ conf[c].status # "none"
        /\ call' = call \/ call' = [call EXCEPT ![p] = e]
    BY <1>4 DEF ResumeLooks
  <2>2. e.pc = "claim" /\ e.conf = c
    OBVIOUS
  <2> HIDE DEF e
  <2> QED BY <2>1, <2>2, <1>a DEF ActionTypeOK
<1>5. ASSUME NEW p \in Procs, ResumeClaims(p)
      PROVE  ClaimInv' /\ SpentInv'
  <2> DEFINE c == call[p].conf
             now == call[p].now
  <2>1. c \in Confs /\ conf' = Claimed(c, now) /\ confRuns' = confRuns
    BY <1>5 DEF ClaimInv, ResumeClaims
  <2>2. CASE ~Claimable(c, now)
    <3>1. call' = [call EXCEPT ![p] = Idle]
      BY <1>5, <2>2 DEF ResumeClaims
    <3> QED BY <3>1, <2>1, <1>0, <1>a DEF ActionTypeOK
  <2>3. CASE Claimable(c, now)
    <3>1. call' = [call EXCEPT ![p].pc = "execute"]
      BY <1>5, <2>3 DEF ResumeClaims
    <3>2. /\ call'[p].pc = "execute" /\ call'[p].conf = c
          /\ \A r \in Procs : r # p => call'[r] = call[r]
      BY <3>1, <1>0 DEF ActionTypeOK, Call
    <3>3. ~conf[c].consumed /\ conf'[c].consumed
      <4>1. conf' = [conf EXCEPT ![c].consumed = TRUE] /\ ~conf[c].consumed
        BY <2>1, <2>3 DEF Claimed, Claimable
      <4>2. conf[c] \in Confirmation
        BY <2>1 DEF ConfTypeOK
      <4> QED BY <4>1, <4>2, <2>1 DEF ConfTypeOK, Confirmation
    <3> HIDE DEF c, now
    <3>4. ClaimInv'
      BY <3>2, <1>k, <1>s DEF ClaimInv
    <3>5. \A r \in Procs : ~(call[r].pc = "execute" /\ call[r].conf = c)
      BY <3>3, <2>1 DEF SpentInv
    <3>6. SpentInv'
      BY <3>2, <3>3, <3>5, <2>1, <1>k, <1>s, <1>0 DEF SpentInv
    <3> QED BY <3>4, <3>6
  <2> QED BY <2>2, <2>3
<1>6. ASSUME NEW p \in Procs, CallExecutes(p)
      PROVE  ClaimInv' /\ SpentInv'
  <2> DEFINE c == call[p].conf
  <2>1. /\ call[p].pc = "execute"
        /\ \/ call' = [call EXCEPT ![p].pc = "remember"]
           \/ call' = [call EXCEPT ![p] = Idle]
        /\ confRuns' = IF c = 0 THEN confRuns ELSE [confRuns EXCEPT ![c] = @ + 1]
    BY <1>6 DEF CallExecutes
  <2>2. /\ call'[p].pc \notin {"execute", "claim"}
        /\ \A r \in Procs : r # p => call'[r] = call[r]
    BY <2>1, <1>0 DEF ActionTypeOK, Call
  <2>3. c \in 0..MaxConfs
    BY <1>0 DEF Call
  <2>4. c # 0 => c \in Confs
    BY <2>3, ConstantFacts DEF Confs
  <2> HIDE DEF c
  <2>5. /\ \A d \in Confs : d # c => confRuns'[d] = confRuns[d]
        /\ c # 0 => confRuns'[c] = confRuns[c] + 1
    BY <2>1, <2>4 DEF ActionTypeOK
  <2>6. ClaimInv'
    BY <2>2, <1>k, <1>s DEF ClaimInv
  <2>7. c # 0 => /\ conf[c].consumed /\ confRuns[c] = 0
                 /\ \A r \in Procs : call[r].pc = "execute" /\ call[r].conf = c => r = p
    BY <2>1, <2>4 DEF SpentInv, c
  <2>8. ASSUME NEW d \in Confs
        PROVE  /\ confRuns'[d] <= 1
               /\ ~conf'[d].consumed => confRuns'[d] = 0
               /\ \A x \in Procs : call'[x].pc = "execute" /\ call'[x].conf = d =>
                    /\ conf'[d].consumed /\ confRuns'[d] = 0
                    /\ \A r \in Procs : call'[r].pc = "execute" /\ call'[r].conf = d => r = x
    <3>1. CASE d = c
      <4>1. confRuns'[d] = 1 /\ conf'[d].consumed
        BY <3>1, <2>5, <2>7, <1>0, <1>k
      <4>2. \A x \in Procs : ~(call'[x].pc = "execute" /\ call'[x].conf = d)
        BY <3>1, <2>2, <2>7, <1>0
      <4> QED BY <4>1, <4>2
    <3>2. CASE d # c
      BY <3>2, <2>2, <2>5, <1>k DEF SpentInv
    <3> QED BY <3>1, <3>2
  <2>9. SpentInv'
    BY <2>8, <1>s DEF SpentInv
  <2> QED BY <2>6, <2>9
<1>7. CASE UNCHANGED actionVars
  BY <1>7, <1>a DEF actionVars
<1> QED BY <1>1, <1>2, <1>3, <1>4, <1>5, <1>6, <1>7, ActionCases

----------------------------------------------------------------------------
(***************************************************************************)
(* Grants.                                                                 *)
(***************************************************************************)

Yes == {"confirmed", "persistent"}
ToolOf(q) == IF q.kind = "tool" THEN ReqTool[q.subject] ELSE NoTool
Entry(c, persistent, via) ==
    [conf |-> c, subject |-> conf[c].subject, tool |-> ToolOf(conf[c]), issued |-> clock,
     expires |-> clock + (IF persistent /\ ToolOf(conf[c]) \notin HighRisk
                            THEN LongTTL ELSE ShortTTL),
     via |-> via]

\* A grant goes back to the one confirmation it was issued for, which was
\* answered with a yes; one that was issued in the chat is for a tool.
GrantInv ==
    \A n \in DOMAIN grants :
        /\ conf[grants[n].conf].said \in Yes
        /\ grants[n].subject = conf[grants[n].conf].subject
        /\ grants[n].tool = ToolOf(conf[grants[n].conf])
        /\ grants[n].via = "chat" => conf[grants[n].conf].kind = "tool"
        /\ grants[n].tool \in HighRisk => grants[n].expires - grants[n].issued <= ShortTTL
        /\ \A m \in DOMAIN grants : grants[m].conf = grants[n].conf => m = n

\* The entry that an answer adds.
NewEntry(c, persistent, via) ==
    /\ grants' = Append(grants, Entry(c, persistent, via))
    /\ conf[c].status = "pending"
    /\ conf'[c].said \in Yes
    /\ conf'[c].kind = conf[c].kind /\ conf'[c].subject = conf[c].subject

LEMMA EntryType ==
  ASSUME ConfTypeOK, AnswerInv, NEW c \in Confs, conf[c].status = "pending",
         NEW b \in BOOLEAN, NEW via \in {"chat", "rest"}
  PROVE  Entry(c, b, via) \in Grant
<1>1. conf[c].subject \in Subjects /\ clock \in Nat
  BY ConstantFacts DEF ConfTypeOK, Confirmation
<1>2. ToolOf(conf[c]) \in Tools \cup {NoTool}
  BY ConstantFacts DEF AnswerInv, ToolOf
<1>3. clock + (IF b /\ ToolOf(conf[c]) \notin HighRisk THEN LongTTL ELSE ShortTTL) \in Nat
  BY <1>1, ConstantFacts
<1> QED BY <1>1, <1>2, <1>3 DEF Entry, Grant

\* What Then adds: nothing, or an entry for a confirmation that was pending and
\* is answered with a yes in the same step, so that no grant exists for it.
LEMMA ThenFacts ==
  ASSUME ConfTypeOK, ApprovalTypeOK, AnswerInv, GrantInv,
         NEW c \in Confs, NEW reply \in Replies, NEW caller, NEW via \in {"chat", "rest"},
         conf'[c] = Resolved(c, reply, caller)[c], Then(Decision(c, reply, caller), c, via)
  PROVE  grants' = grants \/ \E b \in BOOLEAN : NewEntry(c, b, via)
<1> DEFINE d == Decision(c, reply, caller)
           r == Resolved(c, reply, caller)
<1> SUFFICES ASSUME d \in Yes, grants' = Issued(c, d = "persistent", via)
             PROVE  \E b \in BOOLEAN : NewEntry(c, b, via)
  BY DEF Then, Yes
<1>1. /\ conf[c].status = "pending" /\ r[c].said = d
      /\ r[c].kind = conf[c].kind /\ r[c].subject = conf[c].subject
  <2>1. conf \in [Confs -> Confirmation]
    BY DEF ConfTypeOK
  <2>2. /\ r[c].kind = conf[c].kind /\ r[c].subject = conf[c].subject
        /\ \/ d \notin {"confirmed", "persistent", "rejected"}
           \/ conf[c].status = "pending" /\ r[c].said = d
    BY <2>1, ResolvedFacts
  <2> QED BY <2>2 DEF Yes
<1> HIDE DEF d, r
<1>2. conf[c].said = "nothing"
  BY <1>1 DEF AnswerInv
<1>3. \A n \in DOMAIN grants : grants[n].conf # c
  BY <1>2 DEF GrantInv, Yes
<1>4. Issued(c, d = "persistent", via) = Append(grants, Entry(c, d = "persistent", via))
  BY <1>3 DEF Issued, Entry, ToolOf
<1>5. (d = "persistent") \in BOOLEAN
  OBVIOUS
<1>6. NewEntry(c, d = "persistent", via)
  BY <1>1, <1>4 DEF NewEntry, r
<1> QED BY <1>5, <1>6

LEMMA GrantCases ==
  ASSUME ConfTypeOK, ApprovalTypeOK, AnswerInv, GrantInv, [Next]_vars
  PROVE  \/ grants' = grants
         \/ \E c \in Confs, b \in BOOLEAN, via \in {"chat", "rest"} :
              /\ NewEntry(c, b, via)
              /\ via = "chat" => /\ conf[c].kind = "tool"
                                 /\ denied'[ReqSession[conf[c].subject]] = {}
<1>1. ASSUME NEW s \in Sessions, NEW reply \in Replies, UserTurn(s, reply), grants' # grants
      PROVE  \E c \in Confs, b \in BOOLEAN :
               /\ NewEntry(c, b, "chat") /\ conf[c].kind = "tool"
               /\ denied'[ReqSession[conf[c].subject]] = {}
  <2>1. PICK c \in Latest(s) :
          /\ conf' = [WithoutOld EXCEPT ![c] = Resolved(c, reply, Nobody)[c]]
          /\ Then(Decision(c, reply, Nobody), c, "chat")
    BY <1>1 DEF UserTurn
  <2>2. c \in Confs /\ conf[c].kind = "tool" /\ ReqSession[conf[c].subject] = s
    BY DEF Latest
  <2>3. conf'[c] = Resolved(c, reply, Nobody)[c]
    BY <2>1, <2>2, OldFacts
  <2>4. \E b \in BOOLEAN : NewEntry(c, b, "chat")
    BY <1>1, <2>1, <2>2, <2>3, ThenFacts
  <2>5. denied'[s] = {}
    BY <1>1 DEF UserTurn, ApprovalTypeOK
  <2> QED BY <2>2, <2>4, <2>5
<1>2. ASSUME NEW c \in Confs, NEW reply \in {"confirmed", "rejected"}, NEW a,
             RestDecides(c, reply, a), grants' # grants
      PROVE  \E b \in BOOLEAN : NewEntry(c, b, "rest")
  <2>1. /\ reply \in Replies /\ conf'[c] = Resolved(c, reply, a)[c]
        /\ Then(Decision(c, reply, a), c, "rest")
    BY <1>2 DEF RestDecides, Replies
  <2> QED BY <1>2, <2>1, ThenFacts
<1>3. \/ grants' = grants
      \/ \E s \in Sessions, reply \in Replies : UserTurn(s, reply)
      \/ \E c \in Confs, reply \in {"confirmed", "rejected"}, a \in Actors \cup {Nobody} :
           RestDecides(c, reply, a)
  BY DEF Next, vars, approvalVars, ApprovalStep, CallTool, CommandDecides
<1> QED BY <1>1, <1>2, <1>3

LEMMA ApprovalTypes ==
  ASSUME ConfTypeOK, ApprovalTypeOK, AnswerInv, GrantInv, [Next]_vars
  PROVE  ApprovalTypeOK'
<1>1. grants' \in Seq(Grant)
  <2>1. CASE grants' = grants
    BY <2>1 DEF ApprovalTypeOK
  <2>2. ASSUME NEW c \in Confs, NEW b \in BOOLEAN, NEW via \in {"chat", "rest"}, NewEntry(c, b, via)
        PROVE  grants' \in Seq(Grant)
    <3>1. Entry(c, b, via) \in Grant
      BY <2>2, EntryType DEF NewEntry
    <3> QED BY <2>2, <3>1 DEF NewEntry, ApprovalTypeOK
  <2> QED BY <2>1, <2>2, GrantCases
<1>2. denied' \in [Sessions -> SUBSET Tools]
  <2>1. ASSUME NEW r \in Requests, CallTool(r)
        PROVE  denied' \in [Sessions -> SUBSET Tools]
    <3>1. /\ ReqTool[r] \in Tools /\ ReqSession[r] \in Sessions
          /\ denied' = [denied EXCEPT ![ReqSession[r]] = denied[ReqSession[r]] \cup {ReqTool[r]}]
      BY <2>1, ConstantFacts DEF CallTool
    <3> QED BY <3>1 DEF ApprovalTypeOK
  <2>2. \/ denied' = denied
        \/ \E r \in Requests : CallTool(r)
        \/ \E s \in Sessions : denied' = [denied EXCEPT ![s] = {}]
    BY DEF Next, vars, approvalVars, ApprovalStep, UserTurn, RestDecides, CommandDecides
  <2> QED BY <2>1, <2>2 DEF ApprovalTypeOK
<1> QED BY <1>1, <1>2 DEF ApprovalTypeOK

\* A confirmation that was answered with a yes keeps its question and answer.
LEMMA YesKept ==
  ASSUME ConfTypeOK, AnswerInv, ConfMoves, NEW c \in Confs, conf[c].said \in Yes
  PROVE  /\ conf'[c].said = conf[c].said /\ conf'[c].kind = conf[c].kind
         /\ conf'[c].subject = conf[c].subject
<1>1. conf[c] \in Confirmation /\ conf'[c] \in Confirmation /\ Moves(c)
  BY DEF ConfTypeOK, ConfMoves
<1>2. conf[c].status \notin {"none", "pending"}
  BY DEF AnswerInv, Yes
<1> QED BY <1>1, <1>2 DEF Moves, Posed, SameQuestion, Lapsed, Answered, Spent

LEMMA GrantFields ==
  ASSUME ApprovalTypeOK, NEW n \in DOMAIN grants
  PROVE  grants[n].conf \in Confs /\ grants[n].expires \in Nat
<1>1. grants[n] \in Grant
  BY DEF ApprovalTypeOK
<1> QED BY <1>1 DEF Grant

LEMMA GrantStep ==
  ASSUME ConfTypeOK, ApprovalTypeOK, AnswerInv, GrantInv, ConfMoves, [Next]_vars
  PROVE  GrantInv'
<1>0. \A n \in DOMAIN grants : grants[n].conf \in Confs
  BY GrantFields
<1>1. ASSUME NEW n \in DOMAIN grants
      PROVE  /\ conf'[grants[n].conf].said \in Yes
             /\ grants[n].subject = conf'[grants[n].conf].subject
             /\ grants[n].tool = ToolOf(conf'[grants[n].conf])
             /\ grants[n].via = "chat" => conf'[grants[n].conf].kind = "tool"
             /\ grants[n].tool \in HighRisk => grants[n].expires - grants[n].issued <= ShortTTL
             /\ \A m \in DOMAIN grants : grants[m].conf = grants[n].conf => m = n
  <2>1. /\ conf[grants[n].conf].said \in Yes
        /\ grants[n].subject = conf[grants[n].conf].subject
        /\ grants[n].tool = ToolOf(conf[grants[n].conf])
        /\ grants[n].via = "chat" => conf[grants[n].conf].kind = "tool"
        /\ grants[n].tool \in HighRisk => grants[n].expires - grants[n].issued <= ShortTTL
        /\ \A m \in DOMAIN grants : grants[m].conf = grants[n].conf => m = n
    BY DEF GrantInv
  <2>2. /\ conf'[grants[n].conf].said = conf[grants[n].conf].said
        /\ conf'[grants[n].conf].kind = conf[grants[n].conf].kind
        /\ conf'[grants[n].conf].subject = conf[grants[n].conf].subject
    BY <1>0, <2>1, YesKept
  <2> QED BY <2>1, <2>2 DEF ToolOf
<1>2. CASE grants' = grants
  BY <1>1, <1>2 DEF GrantInv
<1>3. ASSUME NEW c \in Confs, NEW b \in BOOLEAN, NEW via \in {"chat", "rest"},
             NewEntry(c, b, via), via = "chat" => conf[c].kind = "tool"
      PROVE  GrantInv'
  <2> DEFINE e == Entry(c, b, via)
             k == Len(grants)
  <2>1. e \in Grant
    BY <1>3, EntryType DEF NewEntry
  <2>2. /\ grants' = Append(grants, e)
        /\ conf'[c].said \in Yes /\ conf'[c].kind = conf[c].kind
        /\ conf'[c].subject = conf[c].subject
    BY <1>3 DEF NewEntry
  <2>3. /\ e.conf = c /\ e.subject = conf[c].subject /\ e.tool = ToolOf(conf[c]) /\ e.via = via
        /\ e.tool \in HighRisk => e.expires - e.issued <= ShortTTL
    <3>1. clock \in Nat /\ ShortTTL \in Nat
      BY ConstantFacts DEF ConfTypeOK
    <3> QED BY <3>1 DEF Entry
  <2>4. \A m \in DOMAIN grants : grants[m].conf # c
    <3>1. conf[c].said = "nothing"
      BY <1>3 DEF NewEntry, AnswerInv
    <3> QED BY <3>1 DEF GrantInv, Yes
  <2> HIDE DEF e
  <2>5. /\ k \in Nat /\ DOMAIN grants = 1..k /\ DOMAIN grants' = 1..(k + 1)
        /\ grants'[k + 1] = e /\ \A m \in 1..k : grants'[m] = grants[m]
    BY <2>1, <2>2 DEF ApprovalTypeOK
  <2> HIDE DEF k
  <2>6. ToolOf(conf'[c]) = ToolOf(conf[c])
    BY <2>2 DEF ToolOf
  <2>7. ASSUME NEW n \in DOMAIN grants'
        PROVE  /\ conf'[grants'[n].conf].said \in Yes
               /\ grants'[n].subject = conf'[grants'[n].conf].subject
               /\ grants'[n].tool = ToolOf(conf'[grants'[n].conf])
               /\ grants'[n].via = "chat" => conf'[grants'[n].conf].kind = "tool"
               /\ grants'[n].tool \in HighRisk => grants'[n].expires - grants'[n].issued <= ShortTTL
               /\ \A m \in DOMAIN grants' : grants'[m].conf = grants'[n].conf => m = n
    <3>1. CASE n = k + 1
      <4>1. grants'[n] = e
        BY <3>1, <2>5
      <4>2. \A m \in DOMAIN grants' : grants'[m].conf = c => m = n
        BY <3>1, <2>4, <2>5
      <4> QED BY <4>1, <4>2, <2>2, <2>3, <2>6, <1>3
    <3>2. CASE n # k + 1
      <4>1. n \in DOMAIN grants /\ grants'[n] = grants[n]
        BY <3>2, <2>5
      <4>2. \A m \in DOMAIN grants' : grants'[m].conf = grants[n].conf => m = n
        BY <4>1, <1>1, <2>3, <2>4, <2>5
      <4> QED BY <4>1, <4>2, <1>1
    <3> QED BY <3>1, <3>2
  <2> QED BY <2>7 DEF GrantInv
<1> QED BY <1>2, <1>3, GrantCases

\* The list of denied tools and the grants that were given in the chat.
LEMMA UsableStep ==
  ASSUME ConfTypeOK, ApprovalTypeOK, AnswerInv, GrantInv, ApprovedUsable, ConfMoves, [Next]_vars
  PROVE  ApprovedUsable'
<1>0. \A n \in DOMAIN grants : grants[n].conf \in Confs /\ grants[n].expires \in Nat
  BY GrantFields
<1>t. clock \in Nat /\ clock' \in Nat /\ clock <= clock'
  BY TimeTypes, ConstantFacts DEF ConfTypeOK
<1>1. ASSUME NEW n \in DOMAIN grants, grants[n].via = "chat", grants[n].expires > clock'
      PROVE  grants[n].tool \notin denied'[ReqSession[grants[n].subject]]
  <2>1. Active(grants[n])
    BY <1>0, <1>t, <1>1 DEF Active
  <2>2. grants[n].tool \notin denied[ReqSession[grants[n].subject]]
    BY <1>1, <2>1 DEF ApprovedUsable
  <2>3. grants[n].subject \in Requests /\ ReqSession[grants[n].subject] \in Sessions
    <3>1. /\ conf[grants[n].conf].kind = "tool" /\ conf[grants[n].conf].said \in Yes
          /\ grants[n].subject = conf[grants[n].conf].subject
      BY <1>1 DEF GrantInv
    <3>2. grants[n].subject \in Requests
      BY <1>0, <3>1 DEF AnswerInv, Yes
    <3> QED BY <3>2, ConstantFacts
  <2>4. ASSUME NEW r \in Requests, CallTool(r)
        PROVE  grants[n].tool \notin denied'[ReqSession[grants[n].subject]]
    <3>1. /\ ~Covered(ReqSession[r], ReqTool[r])
          /\ denied' = [denied EXCEPT ![ReqSession[r]] = @ \cup {ReqTool[r]}]
      BY <2>4 DEF CallTool
    <3>2. ~(grants[n].tool = ReqTool[r] /\ ReqSession[grants[n].subject] = ReqSession[r])
      BY <2>1, <3>1 DEF Covered
    <3> QED BY <2>2, <2>3, <3>1, <3>2 DEF ApprovalTypeOK
  <2>5. \/ denied' = denied
        \/ \E r \in Requests : CallTool(r)
        \/ \E s \in Sessions : denied' = [denied EXCEPT ![s] = {}]
    BY DEF Next, vars, approvalVars, ApprovalStep, UserTurn, RestDecides, CommandDecides
  <2> QED BY <2>2, <2>3, <2>4, <2>5 DEF ApprovalTypeOK
<1>2. CASE grants' = grants
  BY <1>1, <1>2 DEF ApprovedUsable, Active
<1>3. ASSUME NEW c \in Confs, NEW b \in BOOLEAN, NEW via \in {"chat", "rest"},
             NewEntry(c, b, via),
             via = "chat" => denied'[ReqSession[conf[c].subject]] = {}
      PROVE  ApprovedUsable'
  <2> DEFINE e == Entry(c, b, via)
             k == Len(grants)
  <2>1. e \in Grant
    BY <1>3, EntryType DEF NewEntry
  <2>2. grants' = Append(grants, e) /\ e.via = via /\ e.subject = conf[c].subject
    BY <1>3 DEF NewEntry, Entry
  <2> HIDE DEF e
  <2>3. /\ k \in Nat /\ DOMAIN grants = 1..k /\ DOMAIN grants' = 1..(k + 1)
        /\ grants'[k + 1] = e /\ \A m \in 1..k : grants'[m] = grants[m]
    BY <2>1, <2>2 DEF ApprovalTypeOK
  <2> HIDE DEF k
  <2>4. ASSUME NEW n \in DOMAIN grants', grants'[n].via = "chat", grants'[n].expires > clock'
        PROVE  grants'[n].tool \notin denied'[ReqSession[grants'[n].subject]]
    <3>1. CASE n = k + 1
      BY <3>1, <2>2, <2>3, <2>4, <1>3
    <3>2. CASE n # k + 1
      <4>1. n \in DOMAIN grants /\ grants'[n] = grants[n]
        BY <3>2, <2>3
      <4> QED BY <4>1, <2>4, <1>1
    <3> QED BY <3>1, <3>2
  <2> QED BY <2>4 DEF ApprovedUsable, Active
<1> QED BY <1>2, <1>3, GrantCases

----------------------------------------------------------------------------
(***************************************************************************)
(* The motor queue and the commands of a tick.                             *)
(***************************************************************************)

\* A queue holds intents of its own process that wait, each once.
QueueInv ==
    \A p \in Procs : /\ Distinct(queue[p])
                     /\ \A i \in Elems(queue[p]) : stage[i] = "queued" /\ home[i] = p

MotorInv ==
    \A p \in Procs :
        /\ IsFiniteSet(InFlight(p)) /\ Cardinality(InFlight(p)) <= MaxParallel
        /\ IsFiniteSet(InFlight(p) \ Parallel) /\ Cardinality(InFlight(p) \ Parallel) <= 1

LEMMA ElemsType ==
  ASSUME NEW q \in Seq(Intents)
  PROVE  Elems(q) \subseteq Intents
BY DEF Elems, Upto

\* A tick starts waiting commands of its own queue, and leaves the others.
LEMMA TickFacts ==
  ASSUME ActionTypeOK, QueueInv, NEW p \in Procs, TickStarts(p)
  PROVE  \E ready \in SUBSET Intents :
           /\ \A i \in ready : stage[i] = "queued" /\ home[i] = p
           /\ stage' = [i \in Intents |-> IF i \in ready THEN "started" ELSE stage[i]]
           /\ queue' = [queue EXCEPT ![p] = DequeueReady(queue[p]).left]
           /\ Elems(queue'[p]) \subseteq Elems(queue[p]) \ ready
           /\ Distinct(queue'[p])
           /\ IsFiniteSet(ready) /\ Cardinality(ready) <= MaxParallel
           /\ IsFiniteSet(ready \ Parallel) /\ Cardinality(ready \ Parallel) <= 1
<1> DEFINE d == DequeueReady(queue[p])
<1>1. queue[p] \in Seq(Intents) /\ Distinct(queue[p])
  BY DEF ActionTypeOK, QueueInv
<1>2. ScanGood(queue[p], d, Len(queue[p]))
  BY <1>1, DequeueFacts
<1>3. /\ stage' = [i \in Intents |-> IF i \in d.ready THEN "started" ELSE stage[i]]
      /\ queue' = [queue EXCEPT ![p] = d.left]
  BY DEF TickStarts
<1> HIDE DEF d
<1>4. /\ d.ready \subseteq Elems(queue[p]) /\ Elems(d.left) \subseteq Elems(queue[p])
      /\ Distinct(d.left) /\ d.ready \cap Elems(d.left) = {}
      /\ IsFiniteSet(d.ready) /\ Cardinality(d.ready) <= MaxParallel
      /\ IsFiniteSet(d.ready \ Parallel) /\ Cardinality(d.ready \ Parallel) <= 1
  BY <1>1, <1>2 DEF ScanGood, Elems
<1>5. queue'[p] = d.left
  BY <1>3 DEF ActionTypeOK
<1>6. d.ready \subseteq Intents
  BY <1>1, <1>4, ElemsType
<1>7. \A i \in d.ready : stage[i] = "queued" /\ home[i] = p
  BY <1>4 DEF QueueInv
<1>8. Elems(queue'[p]) \subseteq Elems(queue[p]) \ d.ready /\ Distinct(queue'[p])
  <2>1. Elems(d.left) \subseteq Elems(queue[p]) \ d.ready
    BY <1>4
  <2> QED BY <2>1, <1>4, <1>5
<1> QED BY <1>3, <1>4, <1>6, <1>7, <1>8 DEF d

LEMMA QueueStep ==
  ASSUME ActionTypeOK, QueueInv, [Next]_vars
  PROVE  QueueInv'
\* Intents that do not wait may change; those that wait are left alone.
<1>a. ASSUME queue' = queue,
             \A i \in Intents : stage[i] = "queued" => stage'[i] = "queued" /\ home'[i] = home[i]
      PROVE  QueueInv'
  <2>1. \A p \in Procs : Elems(queue[p]) \subseteq Intents
    BY ElemsType DEF ActionTypeOK
  <2>2. ASSUME NEW p \in Procs
        PROVE  /\ Distinct(queue'[p])
               /\ \A i \in Elems(queue'[p]) : stage'[i] = "queued" /\ home'[i] = p
    BY <1>a, <2>1 DEF QueueInv
  <2> QED BY <2>2 DEF QueueInv, Distinct, Elems, Upto
<1>1. ASSUME NEW p \in Procs, NEW i \in Intents, SubmitAllowed(p, i)
      PROVE  QueueInv'
  <2>1. /\ stage[i] = "new" /\ home' = [home EXCEPT ![i] = p]
        /\ \/ /\ stage' = [stage EXCEPT ![i] = "queued"]
              /\ queue' = [queue EXCEPT ![p] = Append(queue[p], i)]
           \/ /\ stage' = [stage EXCEPT ![i] = "over"]
              /\ queue' = queue
    BY <1>1 DEF SubmitAllowed
  <2>2. CASE queue' = queue
    <3>1. \A j \in Intents : stage[j] = "queued" => stage'[j] = "queued" /\ home'[j] = home[j]
      BY <2>1 DEF ActionTypeOK
    <3> QED BY <2>2, <3>1, <1>a
  <2>3. CASE /\ stage' = [stage EXCEPT ![i] = "queued"]
             /\ queue' = [queue EXCEPT ![p] = Append(queue[p], i)]
    <3>1. ASSUME NEW r \in Procs
          PROVE  /\ Distinct(queue'[r])
                 /\ \A j \in Elems(queue'[r]) : stage'[j] = "queued" /\ home'[j] = r
      <4>1. queue[r] \in Seq(Intents) /\ Elems(queue[r]) \subseteq Intents
        BY ElemsType DEF ActionTypeOK
      <4>2. /\ Distinct(queue[r])
            /\ \A j \in Elems(queue[r]) : stage[j] = "queued" /\ home[j] = r
        BY DEF QueueInv
      <4>3. i \notin Elems(queue[r])
        BY <4>2, <2>1
      <4>4. \A j \in Elems(queue[r]) : stage'[j] = "queued" /\ home'[j] = r
        BY <4>1, <4>2, <4>3, <2>1, <2>3 DEF ActionTypeOK
      <4>5. stage'[i] = "queued" /\ home'[i] = p
        BY <2>1, <2>3 DEF ActionTypeOK
      <4>6. CASE r # p
        <5>1. queue'[r] = queue[r]
          BY <4>6, <2>3 DEF ActionTypeOK
        <5> QED BY <5>1, <4>2, <4>4
      <4>7. CASE r = p
        <5>1. queue'[r] = Append(queue[r], i)
          BY <4>7, <2>3 DEF ActionTypeOK
        <5>2. /\ Elems(Append(queue[r], i)) = Elems(queue[r]) \cup {i}
              /\ Distinct(Append(queue[r], i))
          BY <4>1, <4>2, <4>3, AppendFacts
        <5> QED BY <5>1, <5>2, <4>4, <4>5, <4>7
      <4> QED BY <4>6, <4>7
    <3> QED BY <3>1 DEF QueueInv, Distinct, Elems, Upto
  <2> QED BY <2>1, <2>2, <2>3
<1>2. ASSUME NEW p \in Procs, TickStarts(p)
      PROVE  QueueInv'
  <2>1. PICK ready \in SUBSET Intents :
           /\ \A i \in ready : stage[i] = "queued" /\ home[i] = p
           /\ stage' = [i \in Intents |-> IF i \in ready THEN "started" ELSE stage[i]]
           /\ queue' = [queue EXCEPT ![p] = DequeueReady(queue[p]).left]
           /\ Elems(queue'[p]) \subseteq Elems(queue[p]) \ ready
           /\ Distinct(queue'[p])
    BY <1>2, TickFacts
  <2>2. home' = home
    BY <1>2 DEF TickStarts
  <2>3. ASSUME NEW r \in Procs
        PROVE  /\ Distinct(queue'[r])
               /\ \A j \in Elems(queue'[r]) : stage'[j] = "queued" /\ home'[j] = r
    <3>1. /\ Elems(queue[r]) \subseteq Intents /\ Distinct(queue[r])
          /\ \A j \in Elems(queue[r]) : stage[j] = "queued" /\ home[j] = r
      BY ElemsType DEF ActionTypeOK, QueueInv
    <3>2. CASE r # p
      <4>1. queue'[r] = queue[r]
        BY <3>2, <2>1 DEF ActionTypeOK
      <4>2. \A j \in Elems(queue[r]) : j \notin ready
        BY <3>1, <3>2, <2>1
      <4> QED BY <4>1, <4>2, <3>1, <2>1, <2>2
    <3>3. CASE r = p
      BY <3>1, <3>3, <2>1, <2>2
    <3> QED BY <3>2, <3>3
  <2> QED BY <2>3 DEF QueueInv, Distinct, Elems, Upto
<1>3. ASSUME NEW p \in Procs, Crash(p)
      PROVE  QueueInv'
  <2>1. /\ queue' = [queue EXCEPT ![p] = <<>>] /\ home' = home
        /\ \A i \in Intents : home[i] # p => stage'[i] = stage[i]
    BY <1>3 DEF Crash
  <2>2. ASSUME NEW r \in Procs
        PROVE  /\ Distinct(queue'[r])
               /\ \A j \in Elems(queue'[r]) : stage'[j] = "queued" /\ home'[j] = r
    <3>1. /\ Elems(queue[r]) \subseteq Intents /\ Distinct(queue[r])
          /\ \A j \in Elems(queue[r]) : stage[j] = "queued" /\ home[j] = r
      BY ElemsType DEF ActionTypeOK, QueueInv
    <3>2. CASE r # p
      <4>1. queue'[r] = queue[r]
        BY <3>2, <2>1 DEF ActionTypeOK
      <4> QED BY <4>1, <3>1, <3>2, <2>1
    <3>3. CASE r = p
      <4>1. queue'[r] = <<>>
        BY <3>3, <2>1 DEF ActionTypeOK
      <4>2. Elems(<<>>) = {} /\ Distinct(<<>>)
        BY DEF Elems, Upto, Distinct
      <4> QED BY <4>1, <4>2
    <3> QED BY <3>2, <3>3
  <2> QED BY <2>2 DEF QueueInv, Distinct, Elems, Upto
<1>4. ASSUME NEW i \in Intents,
             \/ BackendRuns(i) \/ Dispatched(i) \/ \E p \in Procs : SubmitAsks(p, i)
      PROVE  QueueInv'
  <2>1. /\ stage[i] # "queued" /\ queue' = queue /\ home' = home
        /\ \E x \in Stages : stage' = [stage EXCEPT ![i] = x]
    BY <1>4 DEF BackendRuns, Dispatched, SubmitAsks, Stages
  <2>2. \A j \in Intents : stage[j] = "queued" => stage'[j] = "queued" /\ home'[j] = home[j]
    BY <2>1 DEF ActionTypeOK
  <2> QED BY <2>1, <2>2, <1>a
<1>5. ASSUME \/ \E p \in Procs, c \in Confs, reply \in Replies : ResumeLooks(p, c, reply)
             \/ \E p \in Procs : ResumeClaims(p) \/ CallExecutes(p) \/ CallRemembers(p)
             \/ UNCHANGED actionVars
      PROVE  QueueInv'
  <2>1. queue' = queue /\ stage' = stage /\ home' = home
    BY <1>5 DEF ResumeLooks, ResumeClaims, CallExecutes, CallRemembers, actionVars
  <2> QED BY <2>1, <1>a
<1> QED BY <1>1, <1>2, <1>3, <1>4, <1>5, ActionCases

LEMMA MotorStep ==
  ASSUME ActionTypeOK, QueueInv, MotorInv, [Next]_vars
  PROVE  MotorInv'
<1> DEFINE Good(S) == /\ IsFiniteSet(S) /\ Cardinality(S) <= MaxParallel
                      /\ IsFiniteSet(S \ Parallel) /\ Cardinality(S \ Parallel) <= 1
<1>0. MaxParallel \in Nat
  BY ActionAssumption
<1>s. ASSUME NEW S, Good(S), NEW T \in SUBSET S
      PROVE  Good(T)
  <2>1. IsFiniteSet(T) /\ Cardinality(T) <= Cardinality(S)
    BY <1>s, FS_Subset
  <2>2. T \ Parallel \in SUBSET (S \ Parallel)
    OBVIOUS
  <2>3. IsFiniteSet(T \ Parallel) /\ Cardinality(T \ Parallel) <= Cardinality(S \ Parallel)
    BY <1>s, <2>2, FS_Subset
  <2>4. /\ Cardinality(T) \in Nat /\ Cardinality(S) \in Nat
        /\ Cardinality(T \ Parallel) \in Nat /\ Cardinality(S \ Parallel) \in Nat
    BY <1>s, <2>1, <2>3, FS_CardinalityType
  <2> QED BY <1>s, <1>0, <2>1, <2>3, <2>4
<1>g. \A p \in Procs : Good(InFlight(p))
  BY DEF MotorInv
<1> HIDE DEF Good
\* Whoever is in flight afterwards was in flight before.
<1>a. ASSUME NEW p \in Procs,
             \A i \in Intents : home'[i] = p /\ stage'[i] \in {"started", "ran"} =>
                                home[i] = p /\ stage[i] \in {"started", "ran"}
      PROVE  Good(InFlight(p)')
  <2>1. InFlight(p)' \in SUBSET InFlight(p)
    BY <1>a DEF InFlight
  <2> QED BY <2>1, <1>g, <1>s
<1>1. ASSUME NEW p \in Procs, NEW r \in Procs, TickStarts(p)
      PROVE  Good(InFlight(r)')
  <2>1. PICK ready \in SUBSET Intents :
           /\ \A i \in ready : stage[i] = "queued" /\ home[i] = p
           /\ stage' = [i \in Intents |-> IF i \in ready THEN "started" ELSE stage[i]]
           /\ IsFiniteSet(ready) /\ Cardinality(ready) <= MaxParallel
           /\ IsFiniteSet(ready \ Parallel) /\ Cardinality(ready \ Parallel) <= 1
    BY <1>1, TickFacts
  <2>2. home' = home /\ InFlight(p) = {}
    BY <1>1 DEF TickStarts
  <2>3. CASE r = p
    <3>1. InFlight(r)' \in SUBSET ready
      BY <2>1, <2>2, <2>3 DEF InFlight
    <3>2. Good(ready)
      BY <2>1 DEF Good
    <3> QED BY <3>1, <3>2, <1>s
  <2>4. CASE r # p
    <3>1. \A i \in Intents : home'[i] = r /\ stage'[i] \in {"started", "ran"} =>
                             home[i] = r /\ stage[i] \in {"started", "ran"}
      BY <2>1, <2>2, <2>4
    <3> QED BY <3>1, <1>a
  <2> QED BY <2>3, <2>4
<1>2. ASSUME NEW r \in Procs, ~ \E p \in Procs : TickStarts(p)
      PROVE  Good(InFlight(r)')
  <2> SUFFICES ASSUME NEW i \in Intents, home'[i] = r, stage'[i] \in {"started", "ran"}
               PROVE  home[i] = r /\ stage[i] \in {"started", "ran"}
    BY <1>a
  <2>1. ASSUME NEW p \in Procs, NEW j \in Intents, SubmitAsks(p, j) \/ SubmitAllowed(p, j)
        PROVE  home[i] = r /\ stage[i] \in {"started", "ran"}
    <3>1. \E x \in {"over", "queued"} : stage' = [stage EXCEPT ![j] = x]
      BY <2>1 DEF SubmitAsks, SubmitAllowed
    <3>2. i # j
      BY <3>1 DEF ActionTypeOK
    <3>3. home' = home \/ home' = [home EXCEPT ![j] = p]
      BY <2>1 DEF SubmitAsks, SubmitAllowed
    <3> QED BY <3>1, <3>2, <3>3 DEF ActionTypeOK
  <2>2. ASSUME NEW j \in Intents, BackendRuns(j) \/ Dispatched(j)
        PROVE  home[i] = r /\ stage[i] \in {"started", "ran"}
    <3>1. /\ home' = home
          /\ \/ stage[j] \in {"started", "ran"} /\ stage' = [stage EXCEPT ![j] = "over"]
             \/ stage[j] \in {"started", "ran"} /\ stage' = [stage EXCEPT ![j] = "ran"]
      BY <2>2 DEF BackendRuns, Dispatched
    <3> QED BY <3>1 DEF ActionTypeOK
  <2>3. ASSUME NEW p \in Procs, Crash(p)
        PROVE  home[i] = r /\ stage[i] \in {"started", "ran"}
    BY <2>3 DEF Crash
  <2>4. ASSUME \/ \E p \in Procs, c \in Confs, reply \in Replies : ResumeLooks(p, c, reply)
               \/ \E p \in Procs : ResumeClaims(p) \/ CallExecutes(p) \/ CallRemembers(p)
               \/ UNCHANGED actionVars
        PROVE  home[i] = r /\ stage[i] \in {"started", "ran"}
    BY <2>4 DEF ResumeLooks, ResumeClaims, CallExecutes, CallRemembers, actionVars
  <2> QED BY <1>2, <2>1, <2>2, <2>3, <2>4, ActionCases
<1>3. \A r \in Procs : Good(InFlight(r)')
  BY <1>1, <1>2
<1> QED BY <1>3 DEF MotorInv, Good

----------------------------------------------------------------------------
(***************************************************************************)
(* Idempotency keys.                                                       *)
(***************************************************************************)

\* An intent, or a call, that is under way with key k.
Bears(i, k) == IntentKey[i] = k /\ stage[i] \in {"queued", "started", "ran"}
Holds(p, k) == call[p].key = k

\* What counts as executed was executed.
Executed(k) ==
    (\/ k \in keyFile \/ \E p \in Procs : k \in known[p]
     \/ \E i \in Intents : IntentKey[i] = k /\ stage[i] = "ran"
     \/ \E p \in Procs : Holds(p, k) /\ call[p].pc = "remember") => runs[k] > 0

\* A key that nothing excuses has one bearer at most; while the bearer has not
\* run, the key has not; and once it has run and nobody bears it, a process
\* knows it, which the file then knows too.
OneBearer(k) ==
    /\ \A i, j \in Intents : Bears(i, k) /\ Bears(j, k) => i = j
    /\ \A p, q \in Procs : Holds(p, k) /\ Holds(q, k) => p = q
    /\ \A i \in Intents, p \in Procs : ~(Bears(i, k) /\ Holds(p, k))

FreshBearer(k) ==
    /\ \A i \in Intents : Bears(i, k) /\ stage[i] # "ran" => runs[k] = 0
    /\ \A p \in Procs : Holds(p, k) /\ call[p].pc # "remember" => runs[k] = 0

Remembered(k) ==
    /\ runs[k] > 0 => UnderWay(k) \/ \E p \in Procs : k \in known[p]
    /\ (\E p \in Procs : k \in known[p]) => k \in keyFile

KeySound(k) == runs[k] <= 1 /\ OneBearer(k) /\ FreshBearer(k) /\ Remembered(k)

IdleInv == \A p \in Procs : call[p].pc = "idle" => call[p].key = NoKey
KeyInv == \A k \in Keys : Executed(k) /\ (k \notin excused => KeySound(k))

\* A step that does not move the bearers of k past the backend, nor what is
\* known of k.
KeyFrame(k) ==
    /\ \A i \in Intents : IntentKey[i] = k =>
         /\ stage'[i] \in {"queued", "started", "ran"} <=> stage[i] \in {"queued", "started", "ran"}
         /\ stage'[i] = "ran" <=> stage[i] = "ran"
    /\ \A p \in Procs : /\ call'[p].key = k <=> call[p].key = k
                        /\ call[p].key = k => (call'[p].pc = "remember" <=> call[p].pc = "remember")
    /\ runs'[k] = runs[k]
    /\ \A p \in Procs : k \in known'[p] <=> k \in known[p]
    /\ k \in keyFile' <=> k \in keyFile

LEMMA FrameStep ==
  ASSUME NEW k \in Keys, Executed(k), KeySound(k), KeyFrame(k)
  PROVE  Executed(k)' /\ KeySound(k)'
<1>1. Executed(k)'
  BY DEF Executed, KeyFrame, Holds
<1>2. OneBearer(k)'
  BY DEF KeySound, OneBearer, KeyFrame, Holds, Bears
<1>3. FreshBearer(k)'
  BY DEF KeySound, FreshBearer, KeyFrame, Holds, Bears
<1>4. Remembered(k)'
  BY DEF KeySound, Remembered, UnderWay, KeyFrame, Holds
<1> QED BY <1>1, <1>2, <1>3, <1>4 DEF KeySound, KeyFrame

LEMMA FrameExecuted ==
  ASSUME NEW k \in Keys, Executed(k), KeyFrame(k)
  PROVE  Executed(k)'
BY DEF Executed, KeyFrame, Holds

KeyKept(k) == Executed(k)' /\ (k \notin excused' => KeySound(k)')

LEMMA FrameKept ==
  ASSUME NEW k \in Keys, KeyInv, KeyFrame(k), excused \subseteq excused'
  PROVE  KeyKept(k)
BY FrameStep, FrameExecuted DEF KeyInv, KeyKept

\* A key that is admitted without an excuse has never run, and nobody bears it.
LEMMA AdmitFacts ==
  ASSUME ActionTypeOK, KeyInv, NEW p \in Procs, NEW k \in Keys, k \notin known[p],
         k \notin excused \cup Excuse(p, k)
  PROVE  /\ runs[k] = 0 /\ ~UnderWay(k)
         /\ \A q \in Procs : k \notin known[q]
<1>1. ~UnderWay(k) /\ \A q \in Procs : k \notin known[q]
  BY DEF Excuse
<1>2. Remembered(k) /\ runs[k] \in Nat
  BY DEF KeyInv, KeySound, ActionTypeOK
<1> QED BY <1>1, <1>2 DEF Remembered

LEMMA NewBearer ==
  ASSUME ActionTypeOK, IdleInv, KeyInv, NEW p \in Procs, NEW i \in Intents, SubmitAllowed(p, i),
         NEW k \in Keys
  PROVE  KeyKept(k)
<1> DEFINE e == [Idle EXCEPT !.pc = "execute", !.key = IntentKey[i]]
<1>1. /\ call[p].pc = "idle" /\ stage[i] = "new" /\ IntentKey[i] \notin known[p]
      /\ excused' = excused \cup Excuse(p, IntentKey[i])
      /\ known' = known /\ keyFile' = keyFile /\ runs' = runs
      /\ \/ stage' = [stage EXCEPT ![i] = "queued"] /\ call' = call
         \/ stage' = [stage EXCEPT ![i] = "over"] /\ call' = [call EXCEPT ![p] = e]
  BY DEF SubmitAllowed
<1>2. e.pc = "execute" /\ e.key = IntentKey[i]
  BY DEF Idle
<1> HIDE DEF e
<1>3. call[p].key # k
  BY <1>1, ConstantFacts DEF IdleInv
<1>4. CASE k # IntentKey[i]
  <2>1. KeyFrame(k)
    BY <1>1, <1>2, <1>3, <1>4 DEF KeyFrame, ActionTypeOK
  <2> QED BY <2>1, <1>1, FrameKept
<1>5. CASE k = IntentKey[i]
  <2>1. /\ \A j \in Intents : j # i => stage'[j] = stage[j]
        /\ \A r \in Procs : r # p => call'[r] = call[r]
        /\ \/ stage'[i] = "queued" /\ call'[p] = call[p]
           \/ stage'[i] = "over" /\ call'[p].pc = "execute" /\ call'[p].key = k
    BY <1>1, <1>2, <1>5 DEF ActionTypeOK
  <2>2. Executed(k)
    BY DEF KeyInv
  <2>3. Executed(k)'
    BY <2>1, <2>2, <1>1, <1>3 DEF Executed, Holds
  <2>4. ASSUME k \notin excused' PROVE KeySound(k)'
    <3>1. /\ runs[k] = 0 /\ ~UnderWay(k)
          /\ \A q \in Procs : k \notin known[q]
      BY <1>1, <1>5, <2>4, AdmitFacts
    <3>2. /\ \A j \in Intents : IntentKey[j] = k => stage[j] \notin {"queued", "started", "ran"}
          /\ \A r \in Procs : call[r].key # k
      BY <3>1 DEF UnderWay
    <3>3. OneBearer(k)'
      BY <2>1, <3>2, <1>3 DEF OneBearer, Bears, Holds
    <3>4. FreshBearer(k)' /\ Remembered(k)' /\ runs'[k] <= 1
      BY <1>1, <3>1 DEF FreshBearer, Remembered
    <3> QED BY <3>3, <3>4 DEF KeySound
  <2> QED BY <2>3, <2>4 DEF KeyKept
<1> QED BY <1>4, <1>5

LEMMA NewHolder ==
  ASSUME ActionTypeOK, IdleInv, KeyInv, NEW p \in Procs, NEW c \in Confs, NEW reply,
         ResumeLooks(p, c, reply), NEW k \in Keys
  PROVE  KeyKept(k)
<1> DEFINE key == conf[c].key
           e == [pc |-> "claim", conf |-> c, key |-> key, now |-> clock]
<1>1. /\ call[p].pc = "idle" /\ stage' = stage
      /\ known' = known /\ keyFile' = keyFile /\ runs' = runs
      /\ \/ call' = call /\ excused' = excused
         \/ /\ key \notin known[p] /\ call' = [call EXCEPT ![p] = e]
            /\ excused' = excused \cup Excuse(p, key)
  BY DEF ResumeLooks
<1>2. e.pc = "claim" /\ e.key = key
  OBVIOUS
<1> HIDE DEF e, key
<1>3. call[p].key # k
  BY <1>1, ConstantFacts DEF IdleInv
<1>4. CASE k # key \/ call' = call
  <2>1. KeyFrame(k)
    BY <1>1, <1>2, <1>3, <1>4 DEF KeyFrame, ActionTypeOK
  <2> QED BY <2>1, <1>1, FrameKept
<1>5. CASE k = key /\ call' # call
  <2>1. /\ \A r \in Procs : r # p => call'[r] = call[r]
        /\ call'[p].pc = "claim" /\ call'[p].key = k
    BY <1>1, <1>2, <1>5 DEF ActionTypeOK
  <2>2. Executed(k)
    BY DEF KeyInv
  <2>3. Executed(k)'
    BY <2>1, <2>2, <1>1, <1>3 DEF Executed, Holds
  <2>4. ASSUME k \notin excused' PROVE KeySound(k)'
    <3>1. /\ runs[k] = 0 /\ ~UnderWay(k)
          /\ \A q \in Procs : k \notin known[q]
      BY <1>1, <1>5, <2>4, AdmitFacts
    <3>2. /\ \A j \in Intents : IntentKey[j] = k => stage[j] \notin {"queued", "started", "ran"}
          /\ \A r \in Procs : call[r].key # k
      BY <3>1 DEF UnderWay
    <3>3. OneBearer(k)'
      BY <2>1, <3>2, <1>1 DEF OneBearer, Bears, Holds
    <3>4. FreshBearer(k)' /\ Remembered(k)' /\ runs'[k] <= 1
      BY <1>1, <3>1 DEF FreshBearer, Remembered
    <3> QED BY <3>3, <3>4 DEF KeySound
  <2> QED BY <2>3, <2>4 DEF KeyKept
<1> QED BY <1>4, <1>5

\* The backend executes the command of a tick.
LEMMA BearerRuns ==
  ASSUME ActionTypeOK, KeyInv, NEW i \in Intents, BackendRuns(i), NEW k \in Keys
  PROVE  KeyKept(k)
<1>1. /\ stage[i] = "started" /\ call' = call /\ known' = known /\ keyFile' = keyFile
      /\ excused' = excused
      /\ \/ stage' = [stage EXCEPT ![i] = "ran"] /\ runs' = Ran(IntentKey[i])
         \/ stage' = [stage EXCEPT ![i] = "over"] /\ runs' = runs
  BY DEF BackendRuns
<1>2. /\ runs[k] \in Nat
      /\ Ran(IntentKey[i])[k] = IF k = IntentKey[i] THEN runs[k] + 1 ELSE runs[k]
  BY RanType DEF ActionTypeOK
<1>3. CASE k # IntentKey[i]
  <2>1. KeyFrame(k)
    BY <1>1, <1>2, <1>3 DEF KeyFrame, ActionTypeOK
  <2> QED BY <2>1, <1>1, FrameKept
<1>4. CASE k = IntentKey[i]
  <2>1. /\ \A j \in Intents : j # i => stage'[j] = stage[j]
        /\ \/ stage'[i] = "ran" /\ runs'[k] = runs[k] + 1
           \/ stage'[i] = "over" /\ runs'[k] = runs[k]
    BY <1>1, <1>2, <1>4 DEF ActionTypeOK
  <2>2. Executed(k)
    BY DEF KeyInv
  <2>3. Executed(k)'
    BY <2>1, <2>2, <1>1, <1>2 DEF Executed, Holds
  <2>4. ASSUME k \notin excused' PROVE KeySound(k)'
    <3>1. runs[k] <= 1 /\ OneBearer(k) /\ FreshBearer(k) /\ Remembered(k)
      BY <2>4, <1>1 DEF KeyInv, KeySound
    <3>2. runs[k] = 0
      BY <3>1, <1>1, <1>4 DEF FreshBearer, Bears
    <3>3. OneBearer(k)'
      BY <2>1, <3>1, <1>1, <1>4 DEF OneBearer, Bears, Holds
    <3>4. FreshBearer(k)'
      BY <2>1, <3>1, <3>2, <1>1, <1>4 DEF FreshBearer, OneBearer, Bears, Holds
    <3>5. Remembered(k)' /\ runs'[k] <= 1
      BY <2>1, <3>1, <3>2, <1>1, <1>4 DEF Remembered, UnderWay
    <3> QED BY <3>3, <3>4, <3>5 DEF KeySound
  <2> QED BY <2>3, <2>4 DEF KeyKept
<1> QED BY <1>3, <1>4

\* Remembering a key that ran: the process knows it, and the file, unless the
\* write failed, which excuses the key.
LEMMA RememberFacts ==
  ASSUME ActionTypeOK, NEW p \in Procs, NEW key, Remember(p, key), NEW k \in Keys
  PROVE  /\ excused \subseteq excused'
         /\ \A q \in Procs : k \in known[q] => k \in known'[q]
         /\ k \in keyFile => k \in keyFile'
         /\ k # key => /\ \A q \in Procs : k \in known'[q] <=> k \in known[q]
                       /\ k \in keyFile' <=> k \in keyFile
         /\ k = key => k \in known'[p]
         /\ k = key /\ k \notin excused' => k \in keyFile' \/ k \in known[p]
<1>1. CASE key \in Keys \ known[p]
  <2>1. known' = [known EXCEPT ![p] = known[p] \cup {key}]
    BY <1>1 DEF Remember
  <2>2. \A q \in Procs : k \in known'[q] <=> k \in known[q] \/ (q = p /\ k = key)
    BY <2>1 DEF ActionTypeOK
  <2>3. \/ keyFile' = keyFile \cup {key} /\ excused' = excused
        \/ keyFile' = keyFile /\ excused' = excused \cup {key}
    BY <1>1 DEF Remember
  <2> QED BY <2>2, <2>3
<1>2. CASE key \notin Keys \ known[p]
  <2>1. known' = known /\ keyFile' = keyFile /\ excused' = excused
    BY <1>2 DEF Remember
  <2> QED BY <1>2, <2>1
<1> QED BY <1>1, <1>2

LEMMA BearerRemembers ==
  ASSUME ActionTypeOK, KeyInv, NEW i \in Intents, Dispatched(i), NEW k \in Keys
  PROVE  KeyKept(k)
<1> DEFINE p == home[i]
<1>1. /\ p \in Procs /\ stage[i] = "ran" /\ Remember(p, IntentKey[i])
      /\ stage' = [stage EXCEPT ![i] = "over"] /\ call' = call /\ runs' = runs
  BY DEF Dispatched, ActionTypeOK
<1> HIDE DEF p
<1>2. /\ excused \subseteq excused'
      /\ \A q \in Procs : k \in known[q] => k \in known'[q]
      /\ k \in keyFile => k \in keyFile'
      /\ k # IntentKey[i] => /\ \A q \in Procs : k \in known'[q] <=> k \in known[q]
                             /\ k \in keyFile' <=> k \in keyFile
      /\ k = IntentKey[i] => k \in known'[p]
      /\ k = IntentKey[i] /\ k \notin excused' => k \in keyFile' \/ k \in known[p]
  BY <1>1, RememberFacts
<1>3. CASE k # IntentKey[i]
  <2>1. KeyFrame(k)
    BY <1>1, <1>2, <1>3 DEF KeyFrame, ActionTypeOK
  <2> QED BY <2>1, <1>2, FrameKept
<1>4. CASE k = IntentKey[i]
  <2>1. \A j \in Intents : stage'[j] = IF j = i THEN "over" ELSE stage[j]
    BY <1>1 DEF ActionTypeOK
  <2>2. runs[k] > 0
    BY <1>1, <1>4 DEF KeyInv, Executed
  <2>3. Executed(k)'
    BY <2>2, <1>1 DEF Executed
  <2>4. ASSUME k \notin excused' PROVE KeySound(k)'
    <3>1. runs[k] <= 1 /\ OneBearer(k) /\ FreshBearer(k) /\ Remembered(k)
      BY <2>4, <1>2 DEF KeyInv, KeySound
    <3>2. OneBearer(k)' /\ FreshBearer(k)'
      BY <2>1, <3>1, <1>1 DEF OneBearer, FreshBearer, Bears, Holds
    <3>3. Remembered(k)'
      BY <2>4, <3>1, <1>1, <1>2, <1>4 DEF Remembered
    <3> QED BY <3>1, <3>2, <3>3, <1>1 DEF KeySound
  <2> QED BY <2>3, <2>4 DEF KeyKept
<1> QED BY <1>3, <1>4

\* The end of a call that did not run, or whose key is remembered.
LEMMA HolderEnds ==
  ASSUME ActionTypeOK, KeyInv, NEW p \in Procs, NEW k \in Keys,
         call[p].pc # "remember", call' = [call EXCEPT ![p] = Idle],
         stage' = stage, known' = known, keyFile' = keyFile, runs' = runs, excused' = excused
  PROVE  KeyKept(k)
<1>1. \A r \in Procs : call'[r] = IF r = p THEN Idle ELSE call[r]
  BY DEF ActionTypeOK
<1>2. Idle.key # k /\ Idle.pc = "idle"
  BY ConstantFacts DEF Idle
<1>3. CASE call[p].key # k
  <2>1. KeyFrame(k)
    BY <1>1, <1>2, <1>3 DEF KeyFrame
  <2> QED BY <2>1, FrameKept
<1>4. CASE call[p].key = k
  <2>1. Executed(k)'
    BY <1>1, <1>2 DEF KeyInv, Executed, Holds
  <2>2. ASSUME k \notin excused PROVE KeySound(k)'
    <3>1. runs[k] <= 1 /\ OneBearer(k) /\ FreshBearer(k) /\ Remembered(k)
      BY <2>2 DEF KeyInv, KeySound
    <3>2. runs[k] = 0
      BY <3>1, <1>4 DEF FreshBearer, Holds
    <3>3. OneBearer(k)' /\ FreshBearer(k)'
      BY <1>1, <1>2, <3>1, <3>2 DEF OneBearer, FreshBearer, Bears, Holds
    <3>4. Remembered(k)'
      BY <3>1, <3>2 DEF Remembered
    <3> QED BY <3>1, <3>3, <3>4 DEF KeySound
  <2> QED BY <2>1, <2>2 DEF KeyKept
<1> QED BY <1>3, <1>4

LEMMA HolderClaims ==
  ASSUME ActionTypeOK, KeyInv, NEW p \in Procs, ResumeClaims(p), NEW k \in Keys
  PROVE  KeyKept(k)
<1>1. /\ call[p].pc = "claim" /\ stage' = stage /\ known' = known /\ keyFile' = keyFile
      /\ runs' = runs /\ excused' = excused
      /\ \/ call' = [call EXCEPT ![p].pc = "execute"]
         \/ call' = [call EXCEPT ![p] = Idle]
  BY DEF ResumeClaims
<1>2. CASE call' = [call EXCEPT ![p].pc = "execute"]
  <2>1. /\ call'[p].pc = "execute" /\ call'[p].key = call[p].key
        /\ \A r \in Procs : r # p => call'[r] = call[r]
    BY <1>2 DEF ActionTypeOK, Call
  <2>2. KeyFrame(k)
    BY <2>1, <1>1 DEF KeyFrame
  <2> QED BY <2>2, <1>1, FrameKept
<1>3. CASE call' = [call EXCEPT ![p] = Idle]
  BY <1>1, <1>3, HolderEnds
<1> QED BY <1>1, <1>2, <1>3

LEMMA HolderRuns ==
  ASSUME ActionTypeOK, KeyInv, NEW p \in Procs, CallExecutes(p), NEW k \in Keys
  PROVE  KeyKept(k)
<1>1. /\ call[p].pc = "execute" /\ stage' = stage /\ known' = known /\ keyFile' = keyFile
      /\ excused' = excused
      /\ \/ call' = [call EXCEPT ![p].pc = "remember"] /\ runs' = Ran(call[p].key)
         \/ call' = [call EXCEPT ![p] = Idle] /\ runs' = runs
  BY DEF CallExecutes
<1>2. CASE call' = [call EXCEPT ![p] = Idle] /\ runs' = runs
  BY <1>1, <1>2, HolderEnds
<1>3. CASE call' = [call EXCEPT ![p].pc = "remember"] /\ runs' = Ran(call[p].key)
  <2>1. /\ call'[p].pc = "remember" /\ call'[p].key = call[p].key
        /\ \A r \in Procs : r # p => call'[r] = call[r]
    BY <1>3 DEF ActionTypeOK, Call
  <2>2. runs[k] \in Nat /\ runs'[k] = IF k = call[p].key THEN runs[k] + 1 ELSE runs[k]
    BY <1>3, RanType DEF ActionTypeOK
  <2>3. CASE k # call[p].key
    <3>1. KeyFrame(k)
      BY <2>1, <2>2, <2>3, <1>1 DEF KeyFrame
    <3> QED BY <3>1, <1>1, FrameKept
  <2>4. CASE k = call[p].key
    <3>1. Executed(k)'
      BY <2>2, <2>4 DEF Executed
    <3>2. ASSUME k \notin excused PROVE KeySound(k)'
      <4>1. runs[k] <= 1 /\ OneBearer(k) /\ FreshBearer(k) /\ Remembered(k)
        BY <3>2 DEF KeyInv, KeySound
      <4>2. runs[k] = 0 /\ runs'[k] = 1
        BY <4>1, <1>1, <2>2, <2>4 DEF FreshBearer, Holds
      <4>3. OneBearer(k)'
        BY <4>1, <1>1, <2>1 DEF OneBearer, Bears, Holds
      <4>4. FreshBearer(k)'
        BY <4>1, <1>1, <2>1, <2>4 DEF FreshBearer, OneBearer, Bears, Holds
      <4>5. Remembered(k)'
        BY <4>1, <1>1, <2>1, <2>4 DEF Remembered, UnderWay
      <4> QED BY <4>2, <4>3, <4>4, <4>5 DEF KeySound
    <3> QED BY <3>1, <3>2, <1>1 DEF KeyKept
  <2> QED BY <2>3, <2>4
<1> QED BY <1>1, <1>2, <1>3

LEMMA HolderRemembers ==
  ASSUME ActionTypeOK, KeyInv, NEW p \in Procs, CallRemembers(p), NEW k \in Keys
  PROVE  KeyKept(k)
<1>1. /\ call[p].pc = "remember" /\ Remember(p, call[p].key)
      /\ call' = [call EXCEPT ![p] = Idle] /\ stage' = stage /\ runs' = runs
  BY DEF CallRemembers
<1>2. /\ excused \subseteq excused'
      /\ \A q \in Procs : k \in known[q] => k \in known'[q]
      /\ k \in keyFile => k \in keyFile'
      /\ k # call[p].key => /\ \A q \in Procs : k \in known'[q] <=> k \in known[q]
                            /\ k \in keyFile' <=> k \in keyFile
      /\ k = call[p].key => k \in known'[p]
      /\ k = call[p].key /\ k \notin excused' => k \in keyFile' \/ k \in known[p]
  BY <1>1, RememberFacts
<1>3. \A r \in Procs : call'[r] = IF r = p THEN Idle ELSE call[r]
  BY <1>1 DEF ActionTypeOK
<1>4. Idle.key # k /\ Idle.pc = "idle"
  BY ConstantFacts DEF Idle
<1>5. CASE k # call[p].key
  <2>1. KeyFrame(k)
    BY <1>1, <1>2, <1>3, <1>4, <1>5 DEF KeyFrame
  <2> QED BY <2>1, <1>2, FrameKept
<1>6. CASE k = call[p].key
  <2>1. runs[k] > 0
    BY <1>1, <1>6 DEF KeyInv, Executed, Holds
  <2>2. Executed(k)'
    BY <2>1, <1>1 DEF Executed
  <2>3. ASSUME k \notin excused' PROVE KeySound(k)'
    <3>1. runs[k] <= 1 /\ OneBearer(k) /\ FreshBearer(k) /\ Remembered(k)
      BY <2>3, <1>2 DEF KeyInv, KeySound
    <3>2. OneBearer(k)' /\ FreshBearer(k)'
      BY <3>1, <1>1, <1>3, <1>4 DEF OneBearer, FreshBearer, Bears, Holds
    <3>3. Remembered(k)'
      BY <2>3, <3>1, <1>1, <1>2, <1>6 DEF Remembered
    <3> QED BY <3>1, <3>2, <3>3, <1>1 DEF KeySound
  <2> QED BY <2>2, <2>3 DEF KeyKept
<1> QED BY <1>5, <1>6

\* A crash excuses the keys that the process bore; of the others it knows,
\* afterwards, what the file knows.
LEMMA BearersCrash ==
  ASSUME ActionTypeOK, KeyInv, NEW p \in Procs, Crash(p), NEW k \in Keys
  PROVE  KeyKept(k)
<1> DEFINE mine == {i \in Intents : home[i] = p /\ stage[i] \in {"queued", "started", "ran"}}
<1>1. /\ excused' = excused \cup (Keys \cap ({call[p].key} \cup {IntentKey[i] : i \in mine}))
      /\ stage' = [i \in Intents |-> IF i \in mine THEN "over" ELSE stage[i]]
      /\ call' = [call EXCEPT ![p] = Idle]
      /\ known' = [known EXCEPT ![p] = keyFile]
      /\ keyFile' = keyFile /\ runs' = runs
  BY DEF Crash
<1>2. /\ \A r \in Procs : call'[r] = IF r = p THEN Idle ELSE call[r]
      /\ \A r \in Procs : known'[r] = IF r = p THEN keyFile ELSE known[r]
  BY <1>1 DEF ActionTypeOK
<1>3. Idle.key # k /\ Idle.pc = "idle"
  BY ConstantFacts DEF Idle
<1>4. \A i \in Intents : stage'[i] \in {"queued", "started", "ran"} => stage'[i] = stage[i]
  BY <1>1
<1>5. Executed(k)'
  BY <1>1, <1>2, <1>3, <1>4 DEF KeyInv, Executed, Holds
<1>6. ASSUME k \notin excused' PROVE KeySound(k)'
  <2>1. runs[k] <= 1 /\ OneBearer(k) /\ FreshBearer(k) /\ Remembered(k)
    BY <1>6, <1>1 DEF KeyInv, KeySound
  <2>2. call[p].key # k /\ \A i \in Intents : IntentKey[i] = k => stage'[i] = stage[i]
    BY <1>1, <1>6
  <2>3. \A r \in Procs : /\ call'[r].key = k <=> call[r].key = k
                         /\ call[r].key = k => call'[r] = call[r]
    BY <2>2, <1>2, <1>3
  <2>4. OneBearer(k)' /\ FreshBearer(k)'
    BY <2>1, <2>2, <2>3, <1>1 DEF OneBearer, FreshBearer, Bears, Holds
  <2>5. UnderWay(k)' <=> UnderWay(k)
    BY <2>2, <2>3 DEF UnderWay
  <2>6. Remembered(k)'
    BY <2>1, <2>5, <1>1, <1>2 DEF Remembered
  <2> QED BY <2>1, <2>4, <2>6, <1>1 DEF KeySound
<1> QED BY <1>5, <1>6 DEF KeyKept

LEMMA KeyStep ==
  ASSUME ConfTypeOK, ActionTypeOK, IdleInv, QueueInv, KeyInv, [Next]_vars
  PROVE  KeyInv'
<1> SUFFICES ASSUME NEW k \in Keys PROVE KeyKept(k)
  BY DEF KeyInv, KeyKept
<1>1. ASSUME NEW p \in Procs, TickStarts(p)
      PROVE  KeyKept(k)
  <2>1. PICK ready \in SUBSET Intents :
           /\ \A i \in ready : stage[i] = "queued"
           /\ stage' = [i \in Intents |-> IF i \in ready THEN "started" ELSE stage[i]]
    BY <1>1, TickFacts
  <2>2. /\ call' = call /\ known' = known /\ keyFile' = keyFile /\ runs' = runs
        /\ excused' = excused
    BY <1>1 DEF TickStarts
  <2>3. KeyFrame(k)
    BY <2>1, <2>2 DEF KeyFrame
  <2> QED BY <2>2, <2>3, FrameKept
<1>2. ASSUME NEW p \in Procs, NEW i \in Intents, SubmitAsks(p, i)
      PROVE  KeyKept(k)
  <2>1. /\ stage[i] = "new" /\ stage' = [stage EXCEPT ![i] = "over"]
        /\ call' = call /\ known' = known /\ keyFile' = keyFile /\ runs' = runs
        /\ excused' = excused
    BY <1>2 DEF SubmitAsks
  <2>2. KeyFrame(k)
    BY <2>1 DEF KeyFrame, ActionTypeOK
  <2> QED BY <2>1, <2>2, FrameKept
<1>3. CASE UNCHANGED actionVars
  <2>1. KeyFrame(k) /\ excused' = excused
    BY <1>3 DEF KeyFrame, actionVars
  <2> QED BY <2>1, FrameKept
<1> QED BY <1>1, <1>2, <1>3, NewBearer, NewHolder, BearerRuns, BearerRemembers, HolderClaims,
          HolderRuns, HolderRemembers, BearersCrash, ActionCases

LEMMA IdleStep ==
  ASSUME ActionTypeOK, IdleInv, [Next]_vars
  PROVE  IdleInv'
<1>1. \A p \in Procs : call[p] \in Call
  BY DEF ActionTypeOK
<1>2. \A p \in Procs : \/ call'[p] = call[p]
                       \/ call'[p] = Idle
                       \/ call'[p].pc # "idle"
  <2>1. ASSUME NEW p \in Procs, NEW i \in Intents, SubmitAllowed(p, i)
        PROVE  \A r \in Procs : call'[r] = call[r] \/ call'[r].pc # "idle"
    <3>1. [Idle EXCEPT !.pc = "execute", !.key = IntentKey[i]].pc = "execute"
      BY DEF Idle
    <3>2. \/ call' = call
          \/ call' = [call EXCEPT ![p] = [Idle EXCEPT !.pc = "execute", !.key = IntentKey[i]]]
      BY <2>1 DEF SubmitAllowed
    <3> QED BY <3>1, <3>2 DEF ActionTypeOK
  <2>2. ASSUME NEW p \in Procs, NEW c \in Confs, NEW reply \in Replies, ResumeLooks(p, c, reply)
        PROVE  \A r \in Procs : call'[r] = call[r] \/ call'[r].pc # "idle"
    BY <2>2 DEF ResumeLooks, ActionTypeOK
  <2>3. ASSUME NEW p \in Procs, ResumeClaims(p) \/ CallExecutes(p) \/ CallRemembers(p) \/ Crash(p)
        PROVE  \A r \in Procs : call'[r] = call[r] \/ call'[r] = Idle \/ call'[r].pc # "idle"
    <3>1. \/ \E x \in {"execute", "remember"} : call' = [call EXCEPT ![p].pc = x]
          \/ call' = [call EXCEPT ![p] = Idle]
      BY <2>3 DEF ResumeClaims, CallExecutes, CallRemembers, Crash
    <3> QED BY <3>1, <1>1 DEF ActionTypeOK, Call
  <2>4. ASSUME \/ \E p \in Procs : TickStarts(p)
               \/ \E i \in Intents : BackendRuns(i) \/ Dispatched(i)
               \/ \E p \in Procs, i \in Intents : SubmitAsks(p, i)
               \/ UNCHANGED actionVars
        PROVE  call' = call
    BY <2>4 DEF TickStarts, BackendRuns, Dispatched, SubmitAsks, actionVars
  <2> QED BY <2>1, <2>2, <2>3, <2>4, ActionCases
<1>3. Idle.key = NoKey
  BY DEF Idle
<1> QED BY <1>2, <1>3 DEF IdleInv

----------------------------------------------------------------------------
(***************************************************************************)
(* The inductive invariant and the theorems.                               *)
(***************************************************************************)

AuthInv ==
    /\ TypeOK /\ AnswerInv /\ ClaimInv /\ SpentInv
    /\ GrantInv /\ ApprovedUsable
    /\ QueueInv /\ MotorInv /\ IdleInv /\ KeyInv

LEMMA AuthInit == Init => AuthInv
<1> SUFFICES ASSUME Init PROVE AuthInv
  OBVIOUS
<1> USE DEF Init, ConfInit, ActionInit, ApprovalInit
<1>1. ConfTypeOK
  BY BlankType, ConstantFacts DEF ConfTypeOK
<1>2. ActionTypeOK
  <2>1. Idle \in Call
    BY ConstantFacts DEF Idle, Call
  <2>2. (CHOOSE p \in Procs : TRUE) \in Procs
    BY ActionAssumption
  <2> QED BY <2>1, <2>2 DEF ActionTypeOK, Stages
<1>3. ApprovalTypeOK /\ GrantInv /\ ApprovedUsable
  BY DEF ApprovalTypeOK, GrantInv, ApprovedUsable
<1>4. /\ Blank.status = "none" /\ Blank.said = "nothing" /\ Blank.consumed = FALSE
      /\ Idle.pc = "idle" /\ Idle.key = NoKey
  BY DEF Blank, Idle
<1>5. AnswerInv /\ ClaimInv /\ SpentInv /\ IdleInv
  BY <1>4 DEF AnswerInv, ClaimInv, SpentInv, IdleInv
<1>6. QueueInv
  BY DEF QueueInv, Distinct, Elems, Upto
<1>7. MotorInv
  <2>1. \A p \in Procs : InFlight(p) = {} /\ InFlight(p) \ Parallel = {}
    BY DEF InFlight
  <2>2. IsFiniteSet({}) /\ Cardinality({}) = 0
    BY FS_EmptySet
  <2>3. \A p \in Procs : /\ IsFiniteSet(InFlight(p)) /\ Cardinality(InFlight(p)) = 0
                         /\ IsFiniteSet(InFlight(p) \ Parallel)
                         /\ Cardinality(InFlight(p) \ Parallel) = 0
    BY <2>1, <2>2, Zenon
  <2>4. MaxParallel \in Nat
    BY ActionAssumption
  <2> HIDE DEF Init, ConfInit, ActionInit, ApprovalInit
  <2> QED BY <2>3, <2>4 DEF MotorInv
<1>8. KeyInv
  BY <1>4, ConstantFacts DEF KeyInv, Executed, KeySound, OneBearer, FreshBearer, Remembered,
     Bears, Holds, UnderWay
<1> QED BY <1>1, <1>2, <1>3, <1>5, <1>6, <1>7, <1>8 DEF AuthInv, TypeOK

LEMMA AuthNext == AuthInv /\ [Next]_vars => AuthInv'
<1> SUFFICES ASSUME AuthInv, [Next]_vars PROVE AuthInv'
  OBVIOUS
<1>1. /\ ConfTypeOK /\ ActionTypeOK /\ ApprovalTypeOK /\ AnswerInv /\ ClaimInv /\ SpentInv
      /\ GrantInv /\ ApprovedUsable /\ QueueInv /\ MotorInv /\ IdleInv /\ KeyInv
  BY DEF AuthInv, TypeOK
<1>2. ConfMoves
  BY <1>1, EveryStepMoves
<1>3. ConfTypeOK'
  <2>1. conf' \in [Confs -> Confirmation]
    BY <1>2 DEF ConfMoves
  <2>2. clock' \in 0..MaxClock /\ faults' \in 0..MaxFaults
    BY <1>1, TimeTypes
  <2> QED BY <2>1, <2>2 DEF ConfTypeOK, Confs
<1>4. ActionTypeOK'
  BY <1>1, ActionTypes
<1>5. ApprovalTypeOK'
  BY <1>1, ApprovalTypes
<1>6. AnswerInv'
  BY <1>1, <1>2, AnswerStep
<1>7. ClaimInv' /\ SpentInv'
  BY <1>1, <1>2, SpentStep
<1>8. GrantInv'
  BY <1>1, <1>2, GrantStep
<1>9. ApprovedUsable'
  BY <1>1, <1>2, UsableStep
<1>10. QueueInv' /\ MotorInv'
  BY <1>1, QueueStep, MotorStep
<1>11. IdleInv' /\ KeyInv'
  BY <1>1, IdleStep, KeyStep
<1> QED BY <1>3, <1>4, <1>5, <1>6, <1>7, <1>8, <1>9, <1>10, <1>11 DEF AuthInv, TypeOK

LEMMA AuthInvariant == Spec => []AuthInv
BY AuthInit, AuthNext, PTL DEF Spec

\* The file of confirmations, the executor's state, the grants and the denials
\* keep their types in every behaviour.
THEOREM AuthorizationTypes == Spec => []TypeOK
<1>1. AuthInv => TypeOK
  BY DEF AuthInv
<1> QED BY <1>1, AuthInvariant, PTL

\* Two processes that resume one confirmation share one claim: at most one
\* backend call is made for it, and only when the user confirmed it once
\* (confirmation.py claim_consumption, action_runtime.py resume_confirmed).
THEOREM SpentOnce == Spec => []ConfirmationSpentOnce
<1>1. AuthInv => ConfirmationSpentOnce
  <2> SUFFICES ASSUME AuthInv, NEW c \in Confs
               PROVE  /\ confRuns[c] <= 1
                      /\ confRuns[c] = 1 => conf[c].consumed /\ conf[c].said = "confirmed"
    BY DEF ConfirmationSpentOnce
  <2>1. SpentInv /\ AnswerInv
    BY DEF AuthInv
  <2> QED BY <2>1 DEF SpentInv, AnswerInv
<1> QED BY <1>1, AuthInvariant, PTL

\* A grant gives a tool only for an approval that was answered with a yes, one
\* grant for one confirmation, and a high-risk tool for the short time only
\* (rest_api.py, agent_turn_pipeline.py and grants.py's issue_tool_approval_grant).
THEOREM GrantsFromApproval == Spec => []PowerFromApproval
<1>1. AuthInv => PowerFromApproval
  <2> SUFFICES ASSUME AuthInv, NEW n \in DOMAIN grants
               PROVE  LET g == grants[n] c == conf[g.conf]
                      IN  /\ c.said \in {"confirmed", "persistent"}
                          /\ g.tool # NoTool => c.kind = "tool" /\ g.tool = ReqTool[c.subject]
                          /\ g.tool \in HighRisk => g.expires - g.issued <= ShortTTL
                          /\ \A m \in DOMAIN grants : grants[m].conf = g.conf => m = n
    BY DEF PowerFromApproval
  <2>1. GrantInv
    BY DEF AuthInv
  <2> QED BY <2>1 DEF GrantInv, Yes, ToolOf
<1> QED BY <1>1, AuthInvariant, PTL

\* A tool the user approved in the chat is not on the session's list of denied
\* tools while its grant lasts (runner.py _persist_session_denied_tool,
\* agent_turn_pipeline.py).
THEOREM ApprovalsUsable == Spec => []ApprovedUsable
<1>1. AuthInv => ApprovedUsable
  BY DEF AuthInv
<1> QED BY <1>1, AuthInvariant, PTL

\* The commands a tick has in its threads are at most max_parallel_per_tick,
\* and at most one of them is serial (epic_motor.py dequeue_ready and tick).
THEOREM TicksBounded == Spec => []MotorBound
<1>1. AuthInv => MotorBound
  <2>1. AuthInv => MotorInv
    BY DEF AuthInv
  <2> QED BY <2>1 DEF MotorInv, MotorBound
<1> QED BY <1>1, AuthInvariant, PTL

\* An idempotency key that nothing excuses is executed once, and a key counts
\* as executed only after the backend executed it (action_runtime.py
\* _remember_successful_idempotency).
THEOREM KeysTell == Spec => []KeysAccurate
<1>1. AuthInv => KeysAccurate
  <2> SUFFICES ASSUME AuthInv PROVE KeysAccurate
    OBVIOUS
  <2>1. KeyInv /\ ActionTypeOK
    BY DEF AuthInv, TypeOK
  <2>2. ASSUME NEW k \in Keys, runs[k] > 1 PROVE k \in excused
    <3>1. runs[k] \in Nat
      BY <2>1 DEF ActionTypeOK
    <3> QED BY <3>1, <2>1, <2>2 DEF KeyInv, KeySound
  <2>3. ASSUME NEW k \in keyFile \cup UNION {known[p] : p \in Procs} PROVE runs[k] > 0
    <3>1. k \in Keys /\ (k \in keyFile \/ \E p \in Procs : k \in known[p])
      BY <2>1 DEF ActionTypeOK
    <3> QED BY <3>1, <2>1 DEF KeyInv, Executed
  <2> QED BY <2>2, <2>3 DEF KeysAccurate, OncePerKey
<1> QED BY <1>1, AuthInvariant, PTL
=============================================================================
