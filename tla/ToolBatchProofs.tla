-------------------------- MODULE ToolBatchProofs --------------------------
(***************************************************************************)
(* Proofs about ToolBatch, for any tools and kinds of tools, thresholds    *)
(* and limits, any length of the replies and any number of turns.          *)
(*                                                                         *)
(* The limits are checked before a call's first await and recorded after   *)
(* its last one.  What bounds the damage is the number of calls in flight  *)
(* together: each limit is an inequality between what is recorded and what *)
(* is in flight.                                                           *)
(***************************************************************************)
EXTENDS ToolBatch, Integers, FiniteSetTheorems, TLAPS

\* The calls in flight: of the reply, of one tool; those of one call whose
\* tool runs, and those that succeeded and are not yet recorded.
Flying    == {i \in DOMAIN calls : status[i] \in {"running", "succeeded", "failed"}}
FlyingOf(t) == {i \in Flying : calls[i][1] = t}
Executing(c) == {i \in DOMAIN calls : status[i] = "running" /\ calls[i] = c}
Unrecorded(c) == {i \in DOMAIN calls : status[i] = "succeeded" /\ calls[i] = c}

\* How many calls of tool t can be in flight together.
WidthOf(t) == IF MayOverlap(t) THEN Width ELSE 1

\* The batch is all that has begun and not returned.
BatchInv ==
    /\ pc # "tools" => calls = <<>>
    /\ pc = "tools" =>
         /\ first \in DOMAIN calls
         /\ \A i \in DOMAIN calls : /\ i < first => status[i] = "done"
                                    /\ i > first /\ i \notin Batch => status[i] = "waiting"
         /\ Cardinality(Flying) <= Slots

\* A success is unrecorded, or its key stops further calls.
KeyInv ==
    \A c \in Calls : c[1] \notin LookupTools =>
        /\ c \notin keys => succ[c] = Cardinality(Unrecorded(c))
        /\ c \in keys => succ[c] + Cardinality(Executing(c)) <= WidthOf(c[1])

OnceInv ==
    \A t \in OnceTools :
        /\ t \notin once => \A c \in Calls : c[1] = t => succ[c] = Cardinality(Unrecorded(c))
        /\ t \in once =>
             /\ FlyingOf(t) = {}
             /\ \A c, d \in Calls : c[1] = t /\ d[1] = t =>
                  succ[c] <= 1 /\ (c # d => succ[c] = 0 \/ succ[d] = 0)

CountInv ==
    \A t \in Tools : counts[t] + Cardinality(FlyingOf(t)) <= Threshold[t] + (WidthOf(t) - 1)

LookupInv ==
    \A c \in Calls : c[1] \in LookupTools => runs[c] <= MaxLookups /\ runs[c] <= lookups[c]

ToolInv ==
    /\ TypeOK
    /\ BatchInv
    /\ KeyInv
    /\ OnceInv
    /\ CountInv
    /\ LookupInv
    /\ OrphansAreSafe
----------------------------------------------------------------------------
(* Counting *)

LEMMA CallTools == \A c \in Calls : c[1] \in Tools
BY ToolAssumption

LEMMA CallsOf ==
  ASSUME TypeOK, NEW i \in DOMAIN calls
  PROVE  calls[i] \in Calls /\ calls[i][1] \in Tools
<1>1. calls \in Seq(Calls)
  BY DEF TypeOK
<1>2. calls[i] \in Calls
  BY <1>1
<1> QED BY <1>2, CallTools

LEMMA Finite ==
  ASSUME TypeOK, NEW S \in SUBSET DOMAIN calls
  PROVE  IsFiniteSet(S) /\ Cardinality(S) \in Nat /\ Cardinality(S) <= MaxCalls
<1>1. Len(calls) \in Nat /\ Len(calls) <= MaxCalls /\ DOMAIN calls = 1..Len(calls)
  BY DEF TypeOK
<1>2. IsFiniteSet(1..Len(calls)) /\ Cardinality(1..Len(calls)) = Len(calls)
  <2>1. 1 \in Int /\ Len(calls) \in Int
    BY <1>1
  <2>2. /\ IsFiniteSet(1..Len(calls))
        /\ Cardinality(1..Len(calls)) = IF 1 > Len(calls) THEN 0 ELSE Len(calls) - 1 + 1
    BY <2>1, FS_Interval
  <2> QED BY <1>1, <2>2
<1>3. IsFiniteSet(S) /\ Cardinality(S) <= Len(calls)
  BY <1>1, <1>2, FS_Subset
<1>4. Cardinality(S) \in Nat
  BY <1>3, FS_CardinalityType
<1>5. MaxCalls \in Nat
  BY ToolAssumption
<1> QED BY <1>1, <1>3, <1>4, <1>5

LEMMA Smaller ==
  ASSUME TypeOK, NEW S \in SUBSET DOMAIN calls, NEW T \in SUBSET S
  PROVE  Cardinality(T) <= Cardinality(S)
BY Finite, FS_Subset

LEMMA OneMore ==
  ASSUME TypeOK, NEW S \in SUBSET DOMAIN calls, NEW i \in DOMAIN calls, i \notin S
  PROVE  Cardinality(S \cup {i}) = Cardinality(S) + 1
BY Finite, FS_AddElement

LEMMA OneLess ==
  ASSUME TypeOK, NEW S \in SUBSET DOMAIN calls, NEW i \in S
  PROVE  Cardinality(S \ {i}) = Cardinality(S) - 1
BY Finite, FS_RemoveElement

----------------------------------------------------------------------------
(* The batch *)

LEMMA WidthPositive == Width \in Nat /\ Width >= 1 /\ \A t : WidthOf(t) \in Nat /\ WidthOf(t) >= 1
<1>1. MaxCalls \in Nat \ {0} /\ Limit \in Nat
  BY ToolAssumption
<1> QED BY <1>1 DEF Width, WidthOf

\* A batch is a row of calls; if there is more than one, all are safe.
LEMMA BatchFacts ==
  ASSUME TypeOK, first \in DOMAIN calls
  PROVE  /\ first \in Nat /\ first \in Batch /\ Batch \in SUBSET DOMAIN calls
         /\ Cardinality(Batch) \in Nat /\ Cardinality(Batch) >= 1
         /\ Batch = first..(first + (Cardinality(Batch) - 1))
         /\ Batch = {first} \/ (concurrent /\ \A i \in Batch : Safe(i))
         /\ Parallel => Batch # {first}
         /\ Slots \in Nat /\ Slots <= Width
<1>1. Len(calls) \in Nat /\ DOMAIN calls = 1..Len(calls) /\ first \in Nat
  BY DEF TypeOK
<1>2. first \in Batch /\ Batch \in SUBSET DOMAIN calls
  BY DEF Batch
<1>3. /\ IsFiniteSet(Batch) /\ Cardinality(Batch) \in Nat /\ Cardinality(Batch) <= MaxCalls
      /\ Cardinality(Batch) # 0
  BY <1>2, Finite, FS_EmptySet
<1> DEFINE n == Cardinality(Batch)
           I == first..(first + (n - 1))
<1>4. ASSUME NEW j \in Batch PROVE j \in I
  <2>1. j \in Nat /\ j >= first
    BY <1>1, <1>2 DEF Batch
  <2>2. first..j \subseteq Batch
    <3> SUFFICES ASSUME NEW i \in first..j PROVE i \in Batch
      OBVIOUS
    <3>1. i \in DOMAIN calls
      BY <1>1, <1>2, <2>1
    <3>2. CASE i = first
      BY <1>2, <3>2
    <3>3. CASE i > first
      <4>1. concurrent /\ \A k \in first..j : Safe(k)
        BY <1>1, <2>1, <3>3 DEF Batch
      <4>2. \A k \in first..i : Safe(k)
        BY <1>1, <2>1, <4>1
      <4> QED BY <3>1, <3>3, <4>1, <4>2 DEF Batch
    <3> QED BY <3>2, <3>3, <1>1, <2>1
  <2>3. IsFiniteSet(first..j) /\ Cardinality(first..j) = j - first + 1
    <3>1. first \in Int /\ j \in Int /\ ~(first > j)
      BY <1>1, <2>1
    <3> QED BY <3>1, FS_Interval
  <2>4. Cardinality(first..j) <= n
    BY <1>3, <2>2, FS_Subset
  <2> HIDE DEF n
  <2>5. n \in Nat
    BY <1>3 DEF n
  <2> QED BY <1>1, <2>1, <2>3, <2>4, <2>5
<1>5. IsFiniteSet(I) /\ Cardinality(I) = n
  <2>1. n \in Nat /\ n # 0
    BY <1>3
  <2> HIDE DEF n
  <2>2. first \in Int /\ first + (n - 1) \in Int /\ ~(first > first + (n - 1))
    BY <1>1, <2>1
  <2>3. IsFiniteSet(I) /\ Cardinality(I) = (first + (n - 1)) - first + 1
    BY <2>2, FS_Interval
  <2>4. (first + (n - 1)) - first + 1 = n
    BY <1>1, <2>1
  <2> QED BY <2>3, <2>4
<1>6. Batch = I
  <2>1. Batch \subseteq I
    BY <1>4
  <2> HIDE DEF I
  <2> QED BY <1>5, <2>1, FS_Subset
<1>7. Batch = {first} \/ (concurrent /\ \A i \in Batch : Safe(i))
  <2>1. ASSUME NEW j \in Batch, j # first PROVE concurrent /\ Safe(first)
    BY <1>1, <2>1 DEF Batch
  <2>2. ASSUME NEW i \in Batch, i # first PROVE Safe(i)
    <3>1. \A k \in first..i : Safe(k)
      BY <2>2 DEF Batch
    <3>2. i \in Nat /\ i >= first
      BY <1>1, <1>2, <2>2 DEF Batch
    <3> QED BY <1>1, <3>1, <3>2
  <2> QED BY <1>2, <2>1, <2>2
<1>8. Parallel => Batch # {first}
  <2>1. Batch = {first} => Cardinality(Batch) = 1
    BY FS_Singleton, Zenon
  <2> QED BY <2>1 DEF Parallel
<1>9. Slots \in Nat /\ Slots <= Width
  <2>1. MaxCalls \in Nat \ {0} /\ Limit \in Nat
    BY ToolAssumption
  <2>2. n \in Nat /\ n # 0 /\ n <= MaxCalls
    BY <1>3
  <2>3. Slots = IF Limit \in 1..n - 1 THEN Limit ELSE n
    BY Zenon DEF Slots
  <2> HIDE DEF n
  <2> QED BY <2>1, <2>2, <2>3 DEF Width
<1> HIDE DEF I
<1>10. n \in Nat /\ n >= 1
  BY <1>3
<1> QED BY <1>1, <1>2, <1>6, <1>7, <1>8, <1>9, <1>10 DEF I

\* What is in flight is in the batch, and fits its width.
LEMMA FlyingFacts ==
  ASSUME TypeOK, BatchInv, pc = "tools"
  PROVE  /\ Flying = InFlight
         /\ Flying \in SUBSET Batch
         /\ \A i \in Flying : ~MayOverlap(calls[i][1]) => Flying = {i} /\ Batch = {i}
         /\ \A t \in Tools : Cardinality(FlyingOf(t)) <= WidthOf(t)
<1>0. first \in DOMAIN calls /\ Cardinality(Flying) <= Slots
  BY DEF BatchInv
<1>1. /\ first \in Batch /\ Batch \in SUBSET DOMAIN calls /\ first \in Nat
      /\ Batch = {first} \/ (concurrent /\ \A i \in Batch : Safe(i))
      /\ Slots \in Nat /\ Slots <= Width
  BY <1>0, BatchFacts
<1>2. ASSUME NEW i \in Flying PROVE i \in Batch
  <2>1. i \in DOMAIN calls /\ status[i] # "done" /\ status[i] # "waiting"
    BY DEF Flying
  <2>2. i \in Nat
    <3>1. calls \in Seq(Calls)
      BY DEF TypeOK
    <3> QED BY <2>1, <3>1
  <2>3. ~(i < first) /\ ~(i > first /\ i \notin Batch)
    BY <2>1 DEF BatchInv
  <2>4. i = first \/ i \in Batch
    BY <1>1, <2>2, <2>3
  <2> QED BY <1>1, <2>4
<1>3. Flying = InFlight
  BY <1>1, <1>2 DEF Flying, InFlight, With
<1>4. ASSUME NEW i \in Flying, ~MayOverlap(calls[i][1]) PROVE Flying = {i} /\ Batch = {i}
  <2>1. Batch = {first}
    BY <1>1, <1>2, <1>4 DEF MayOverlap, Safe
  <2> QED BY <2>1, <1>2, <1>4
<1>5. ASSUME NEW t \in Tools PROVE Cardinality(FlyingOf(t)) <= WidthOf(t)
  <2>0. FlyingOf(t) \subseteq Flying /\ Flying \subseteq DOMAIN calls
    BY DEF FlyingOf, Flying
  <2>1. CASE MayOverlap(t)
    <3>1. Cardinality(FlyingOf(t)) <= Cardinality(Flying)
      BY <2>0, Smaller
    <3>2. Cardinality(FlyingOf(t)) \in Nat /\ Cardinality(Flying) \in Nat
      BY <2>0, Finite
    <3> QED BY <1>0, <1>1, <2>1, <3>1, <3>2, WidthPositive DEF WidthOf
  <2>2. CASE ~MayOverlap(t)
    <3>1. CASE FlyingOf(t) = {}
      BY <2>2, <3>1, FS_EmptySet DEF WidthOf
    <3>2. CASE FlyingOf(t) # {}
      <4>1. PICK i \in FlyingOf(t) : TRUE
        BY <3>2
      <4>2. FlyingOf(t) = {i}
        BY <1>4, <2>0, <2>2, <4>1 DEF FlyingOf
      <4>3. Cardinality(FlyingOf(t)) = 1
        BY <4>2, FS_Singleton, Zenon
      <4> QED BY <2>2, <4>3 DEF WidthOf
    <3> QED BY <3>1, <3>2
  <2> QED BY <2>1, <2>2
<1> QED BY <1>2, <1>3, <1>4, <1>5
----------------------------------------------------------------------------
(* The steps, one by one *)

LEMMA StepCases ==
  ASSUME [Next]_vars
  PROVE  \/ BeginTurn
         \/ ModelCalls
         \/ \E i \in DOMAIN calls : StartTool(i)
         \/ \E i \in DOMAIN calls : ToolReturns(i)
         \/ \E i \in DOMAIN calls : CallReturns(i)
         \/ \E i \in DOMAIN calls : AskEscapes(i)
         \/ BatchReturns
         \/ EndTurn
         \/ Cancelled
         \/ \E c \in Calls : OrphanEnds(c)
         \/ UNCHANGED vars
BY DEF Next, CallStep

LEMMA AddFacts ==
  ASSUME NEW S, NEW f \in [S -> Nat], NEW x \in S
  PROVE  /\ Add(f, x) \in [S -> Nat] /\ Add(f, x)[x] = f[x] + 1
         /\ \A y \in S : y # x => Add(f, x)[y] = f[y]
BY DEF Add

LEMMA ZeroFacts ==
  ASSUME NEW S
  PROVE  Zero(S) \in [S -> Nat] /\ \A x \in S : Zero(S)[x] = 0
BY DEF Zero

\* The counters, apart from the rest of the type.
Counters ==
    /\ keys \subseteq Calls /\ once \subseteq OnceTools /\ denied \subseteq Tools
    /\ counts \in [Tools -> Nat]
    /\ lookups \in [Calls -> Nat] /\ runs \in [Calls -> Nat] /\ succ \in [Calls -> Nat]
    /\ orphans \in [Calls -> Nat]

Reply ==
    /\ calls \in Seq(Calls) /\ Len(calls) <= MaxCalls
    /\ status \in [DOMAIN calls -> Statuses]
    /\ first \in 1..MaxCalls + 1
    /\ results \in Seq(DOMAIN calls)

Loop ==
    /\ concurrent \in BOOLEAN
    /\ pc \in {"idle", "model", "tools"}
    /\ turn \in 0..MaxTurns /\ made \in 0..MaxMade
    /\ trigger \in {"user", "system"}

LEMMA TypeParts == TypeOK <=> Loop /\ Reply /\ Counters
<1>1. {lookups, runs, succ} \subseteq [Calls -> Nat] <=>
        lookups \in [Calls -> Nat] /\ runs \in [Calls -> Nat] /\ succ \in [Calls -> Nat]
  OBVIOUS
<1> QED BY <1>1 DEF TypeOK, Loop, Reply, Counters

LEMMA TypeStep ==
  ASSUME TypeOK, BatchInv, [Next]_vars
  PROVE  TypeOK'
<1> SUFFICES Loop' /\ Reply' /\ Counters'
  <2>1. {lookups', runs', succ'} \subseteq [Calls -> Nat] <=>
          lookups' \in [Calls -> Nat] /\ runs' \in [Calls -> Nat] /\ succ' \in [Calls -> Nat]
    OBVIOUS
  <2> QED BY <2>1 DEF TypeOK, Loop, Reply, Counters
<1>0. Loop /\ Reply /\ Counters
  BY TypeParts
<1>a. MaxCalls \in Nat \ {0} /\ MaxMade \in Nat \ {0} /\ MaxTurns \in Nat \ {0}
  BY ToolAssumption
<1>c. \A i \in DOMAIN calls : calls[i] \in Calls /\ calls[i][1] \in Tools
  BY <1>0, CallTools DEF Reply
<1>d. ASSUME NEW t \in Tools, denied' \in Denials(t) PROVE denied' \subseteq Tools
  BY <1>0, <1>d DEF Denials, Counters
\* One call goes on.
<1>s. ASSUME NEW i \in DOMAIN calls, NEW s \in Statuses, status' = [status EXCEPT ![i] = s],
             calls' = calls, first' = first,
             results' = results \/ results' = Append(results, i)
      PROVE  Reply'
  <2>1. status' \in [DOMAIN calls -> Statuses]
    BY <1>0, <1>s DEF Reply
  <2>2. results' \in Seq(DOMAIN calls)
    BY <1>0, <1>s DEF Reply
  <2> QED BY <1>0, <1>s, <2>1, <2>2 DEF Reply
<1>n. ASSUME NoCalls PROVE Reply'
  <2>1. /\ calls' = <<>> /\ status' = <<>> /\ first' = 1 /\ results' = <<>>
    BY <1>n DEF NoCalls
  <2>2. DOMAIN calls' = {} /\ Len(calls') = 0 /\ calls' \in Seq(Calls)
    BY <2>1
  <2>3. status' \in [{} -> Statuses]
    BY <2>1
  <2>4. results' \in Seq(DOMAIN calls')
    BY <2>1
  <2> QED BY <1>a, <2>1, <2>2, <2>3, <2>4 DEF Reply
<1>o. ASSUME TurnOver, pc \in {"model", "tools"}, orphans' \in [Calls -> Nat]
      PROVE  Loop' /\ Reply' /\ Counters'
  <2>1. Counters'
    BY <1>0, <1>o, ZeroFacts DEF TurnOver, Counters
  <2>2. Loop'
    BY <1>0, <1>o DEF TurnOver, Loop
  <2> QED BY <1>o, <1>n, <2>1, <2>2 DEF TurnOver
<1>1. CASE BeginTurn
  <2>1. Loop'
    BY <1>0, <1>1, <1>a DEF BeginTurn, Loop
  <2>2. Reply'
    BY <1>0, <1>1 DEF BeginTurn, Reply
  <2>3. denied' \subseteq Tools
    BY <1>0, <1>1 DEF BeginTurn, Counters
  <2>4. Counters'
    BY <1>0, <1>1, <2>3 DEF BeginTurn, limits, Counters
  <2> QED BY <2>1, <2>2, <2>4
<1>2. CASE ModelCalls
  <2>1. PICK n \in 1..MaxCalls :
          made + n <= MaxMade /\ calls' \in [1..n -> Calls] /\ made' = made + n
    BY <1>2 DEF ModelCalls
  <2>2. calls' \in Seq(Calls) /\ Len(calls') = n /\ DOMAIN calls' = 1..n
    BY <1>a, <2>1
  <2>3. Reply'
    <3>1. status' = [i \in DOMAIN calls' |-> "waiting"] /\ first' = 1 /\ results' = <<>>
      BY <1>2 DEF ModelCalls
    <3>2. status' \in [DOMAIN calls' -> Statuses]
      BY <3>1 DEF Statuses
    <3>3. results' \in Seq(DOMAIN calls')
      BY <3>1
    <3> QED BY <1>a, <2>1, <2>2, <3>1, <3>2, <3>3 DEF Reply
  <2>4. Loop'
    BY <1>0, <1>2, <1>a, <2>1 DEF ModelCalls, Loop
  <2> QED BY <1>0, <1>2, <2>3, <2>4 DEF ModelCalls, limits, Counters
<1>3. ASSUME NEW i \in DOMAIN calls, StartTool(i)
      PROVE  Loop' /\ Reply' /\ Counters'
  <2>1. Reply'
    <3>1. PICK s \in Statuses : status' = [status EXCEPT ![i] = s]
      BY <1>3 DEF StartTool, Becomes, Statuses
    <3>2. calls' = calls /\ first' = first /\ (results' = results \/ results' = Append(results, i))
      BY <1>3 DEF StartTool, Return
    <3> QED BY <3>1, <3>2, <1>s
  <2>2. lookups' \in [Calls -> Nat]
    BY <1>0, <1>3, <1>c, AddFacts DEF StartTool, Attempted, Counters
  <2>3. runs' \in [Calls -> Nat]
    BY <1>0, <1>3, <1>c, AddFacts DEF StartTool, Counters
  <2>4. denied' \subseteq Tools
    BY <1>0, <1>3, <1>c, <1>d DEF StartTool, Counters
  <2> QED BY <1>0, <1>3, <2>1, <2>2, <2>3, <2>4 DEF StartTool, Loop, Counters
<1>4. ASSUME NEW i \in DOMAIN calls, ToolReturns(i)
      PROVE  Loop' /\ Reply' /\ Counters'
  <2>1. Reply'
    <3>1. PICK s \in Statuses : status' = [status EXCEPT ![i] = s]
      BY <1>4 DEF ToolReturns, Becomes, Statuses
    <3> QED BY <1>4, <3>1, <1>s DEF ToolReturns
  <2>2. succ' \in [Calls -> Nat]
    BY <1>0, <1>4, <1>c, AddFacts DEF ToolReturns, Counters
  <2>3. denied' \subseteq Tools
    BY <1>0, <1>4, <1>c, <1>d DEF ToolReturns, Counters
  <2> QED BY <1>0, <1>4, <2>1, <2>2, <2>3 DEF ToolReturns, limits, Loop, Counters
<1>5. ASSUME NEW i \in DOMAIN calls, CallReturns(i)
      PROVE  Loop' /\ Reply' /\ Counters'
  <2>1. Reply'
    <3>1. status' = [status EXCEPT ![i] = "done"] /\ "done" \in Statuses
      BY <1>5 DEF CallReturns, Becomes, Statuses
    <3> QED BY <1>5, <3>1, <1>s DEF CallReturns, Return
  <2>2. counts' \in [Tools -> Nat] /\ keys' \subseteq Calls /\ once' \subseteq OnceTools
    BY <1>0, <1>5, <1>c, AddFacts DEF CallReturns, Record, Counters
  <2> QED BY <1>0, <1>5, <2>1, <2>2 DEF CallReturns, Loop, Counters
<1>6. ASSUME NEW i \in DOMAIN calls, AskEscapes(i)
      PROVE  Loop' /\ Reply' /\ Counters'
  BY <1>0, <1>6, <1>o DEF AskEscapes, Counters
<1>7. CASE BatchReturns
  <2>1. Loop' /\ Counters'
    BY <1>0, <1>7 DEF BatchReturns, limits, Loop, Counters
  <2>2. CASE NoCalls
    BY <1>n, <2>1, <2>2
  <2>3. CASE first' \in DOMAIN calls /\ UNCHANGED <<calls, status, results>>
    <3>1. first' \in 1..MaxCalls + 1
      BY <1>0, <1>a, <2>3 DEF Reply
    <3> QED BY <1>0, <2>1, <2>3, <3>1 DEF Reply
  <2> QED BY <1>7, <2>2, <2>3 DEF BatchReturns
<1>8. CASE EndTurn
  BY <1>0, <1>8, <1>o DEF EndTurn, Counters
<1>9. CASE Cancelled
  <2>1. ASSUME NEW c \in Calls PROVE Among(c, Batch \ With("done")) \in Nat
    <3>1. first \in DOMAIN calls
      BY <1>9 DEF BatchInv, Cancelled
    <3>2. {i \in Batch \ With("done") : calls[i] = c} \in SUBSET DOMAIN calls
      BY <3>1, BatchFacts
    <3> QED BY <3>2, Finite DEF Among
  <2>2. orphans' \in [Calls -> Nat]
    BY <1>0, <1>9, <2>1 DEF Cancelled, Counters
  <2> QED BY <1>9, <1>o, <2>2 DEF Cancelled
<1>10. ASSUME NEW c \in Calls, OrphanEnds(c)
       PROVE  Loop' /\ Reply' /\ Counters'
  <2>1. orphans' \in [Calls -> Nat]
    <3>1. orphans[c] \in Nat /\ orphans[c] > 0 /\ orphans' = [orphans EXCEPT ![c] = orphans[c] - 1]
      BY <1>0, <1>10 DEF OrphanEnds, Counters
    <3> QED BY <1>0, <3>1 DEF Counters
  <2>2. denied' \subseteq Tools
    BY <1>10, <1>d, CallTools DEF OrphanEnds
  <2> QED BY <1>0, <1>10, <2>1, <2>2 DEF OrphanEnds, limits, Loop, Reply, Counters
<1>11. CASE UNCHANGED vars
  BY <1>0, <1>11 DEF vars, limits, Loop, Reply, Counters
<1> QED BY <1>1, <1>2, <1>3, <1>4, <1>5, <1>6, <1>7, <1>8, <1>9, <1>10, <1>11, StepCases
----------------------------------------------------------------------------
(* What is in flight, from step to step *)

\* One call goes on: the sets it enters and leaves.
LEMMA OneGoesOn ==
  ASSUME TypeOK, NEW i \in DOMAIN calls, NEW s, status' = [status EXCEPT ![i] = s],
         calls' = calls
  PROVE  /\ Flying' = (Flying \ {i}) \cup (IF s \in {"running", "succeeded", "failed"}
                THEN {i} ELSE {})
         /\ \A t : FlyingOf(t)' =
              (FlyingOf(t) \ {i}) \cup (IF s \in {"running", "succeeded", "failed"} /\ calls[i][1] = t
                THEN {i} ELSE {})
         /\ \A c : Executing(c)' =
              (Executing(c) \ {i}) \cup (IF s = "running" /\ calls[i] = c
                THEN {i} ELSE {})
         /\ \A c : Unrecorded(c)' =
              (Unrecorded(c) \ {i}) \cup (IF s = "succeeded" /\ calls[i] = c
                THEN {i} ELSE {})
<1>1. /\ DOMAIN calls' = DOMAIN calls /\ status'[i] = s
      /\ \A j \in DOMAIN calls : j # i => status'[j] = status[j]
  BY DEF TypeOK
<1>2. \A j : j \in Flying' <=>
        j \in (Flying \ {i}) \cup (IF s \in {"running", "succeeded", "failed"}
                THEN {i} ELSE {})
  BY <1>1 DEF Flying
<1>3. \A t, j : j \in FlyingOf(t)' <=>
        j \in (FlyingOf(t) \ {i}) \cup (IF s \in {"running", "succeeded", "failed"} /\ calls[i][1] = t
                THEN {i} ELSE {})
  BY <1>2 DEF FlyingOf
<1>4. \A c, j : j \in Executing(c)' <=>
        j \in (Executing(c) \ {i}) \cup (IF s = "running" /\ calls[i] = c
                THEN {i} ELSE {})
  BY <1>1 DEF Executing
<1>5. \A c, j : j \in Unrecorded(c)' <=>
        j \in (Unrecorded(c) \ {i}) \cup (IF s = "succeeded" /\ calls[i] = c
                THEN {i} ELSE {})
  BY <1>1 DEF Unrecorded
<1> QED BY <1>2, <1>3, <1>4, <1>5

LEMMA FlightTypes ==
  /\ Flying \in SUBSET DOMAIN calls
  /\ \A t : FlyingOf(t) \in SUBSET DOMAIN calls /\ FlyingOf(t) \in SUBSET Flying
  /\ \A c : Executing(c) \in SUBSET FlyingOf(c[1]) /\ Unrecorded(c) \in SUBSET FlyingOf(c[1])
BY DEF Flying, FlyingOf, Executing, Unrecorded

\* Nothing flies when there are no calls, or none has begun.
LEMMA NoneFlies ==
  ASSUME \A i \in DOMAIN calls : status[i] \in {"waiting", "done"}
  PROVE  /\ Flying = {}
         /\ \A t : FlyingOf(t) = {}
         /\ \A c : Executing(c) = {} /\ Unrecorded(c) = {}
BY DEF Flying, FlyingOf, Executing, Unrecorded

LEMMA SlotsNat == TypeOK /\ first \in DOMAIN calls => Slots \in Nat
BY BatchFacts

FlightFits == \A t \in Tools : Cardinality(FlyingOf(t)) <= WidthOf(t)

LEMMA FlyingFits == TypeOK /\ BatchInv /\ pc = "tools" => FlightFits
BY FlyingFacts DEF FlightFits

LEMMA BatchStep ==
  ASSUME TypeOK, TypeOK', BatchInv, [Next]_vars
  PROVE  BatchInv'
<1>0. calls \in Seq(Calls) /\ status \in [DOMAIN calls -> Statuses] /\ first \in Nat
  BY DEF TypeOK
<1>s. ASSUME pc = "tools", pc' = pc, calls' = calls, first' = first, concurrent' = concurrent,
             NEW i \in DOMAIN calls, NEW s, status' = [status EXCEPT ![i] = s], i \in Batch,
             \/ i \in Startable
             \/ i \in InFlight
      PROVE  BatchInv'
  <2>1. Batch' = Batch /\ Slots' = Slots
    BY <1>s DEF Batch, Slots, Safe
  <2>2. /\ first \in DOMAIN calls /\ Cardinality(Flying) <= Slots
        /\ \A j \in DOMAIN calls : /\ j < first => status[j] = "done"
                                   /\ j > first /\ j \notin Batch => status[j] = "waiting"
    BY <1>s DEF BatchInv
  <2>3. i \in Nat /\ i >= first /\ Slots \in Nat
    <3>1. first \in Nat /\ Batch = first..(first + (Cardinality(Batch) - 1))
          /\ Cardinality(Batch) \in Nat /\ Slots \in Nat
      BY <2>2, BatchFacts
    <3> QED BY <1>s, <3>1
  <2>4. Cardinality(Flying') <= Slots
    <3>1. Flying \in SUBSET DOMAIN calls /\ Flying = InFlight
      BY <1>s, FlightTypes, FlyingFacts
    <3>2. Cardinality(Flying) \in Nat
      BY <3>1, Finite
    <3>3. Flying' = (Flying \ {i}) \cup (IF s \in {"running", "succeeded", "failed"}
                THEN {i} ELSE {})
      BY <1>s, OneGoesOn
    <3>4. CASE i \in InFlight
      <4>1. Flying' \in SUBSET Flying
        BY <3>1, <3>3, <3>4
      <4>2. Cardinality(Flying') <= Cardinality(Flying) /\ Cardinality(Flying') \in Nat
        BY <3>1, <4>1, Smaller, Finite
      <4> QED BY <2>2, <2>3, <3>2, <4>2
    <3>5. CASE i \in Startable /\ i \notin InFlight
      <4>1. Cardinality(Flying) < Slots
        BY <3>1, <3>5 DEF Startable, SlotFree
      <4>2. Cardinality(Flying \cup {i}) = Cardinality(Flying) + 1
        BY <3>1, <3>5, OneMore
      <4>3. Flying' \in SUBSET (Flying \cup {i}) /\ Flying \cup {i} \in SUBSET DOMAIN calls
        BY <3>1, <3>3
      <4>4. Cardinality(Flying') <= Cardinality(Flying \cup {i}) /\ Cardinality(Flying') \in Nat
        BY <4>3, Smaller, Finite
      <4> QED BY <2>3, <3>2, <4>1, <4>2, <4>4
    <3> QED BY <1>s, <3>4, <3>5
  <2>5. \A j \in DOMAIN calls' : /\ j < first' => status'[j] = "done"
                                 /\ j > first' /\ j \notin Batch' => status'[j] = "waiting"
    BY <1>0, <1>s, <2>1, <2>2, <2>3
  <2> QED BY <1>s, <2>1, <2>2, <2>4, <2>5 DEF BatchInv
<1>n. ASSUME pc' # "tools", calls' = <<>> PROVE BatchInv'
  BY <1>n DEF BatchInv
<1>k. ASSUME UNCHANGED <<calls, status, first, concurrent>>, pc' = pc \/ {pc, pc'} \subseteq {"idle", "model"}
      PROVE  BatchInv'
  <2>1. Batch' = Batch /\ Slots' = Slots /\ Flying' = Flying
    BY <1>k DEF Batch, Slots, Safe, Flying
  <2> QED BY <1>k, <2>1 DEF BatchInv
<1>1. CASE BeginTurn
  BY <1>1, <1>k DEF BeginTurn
<1>2. CASE ModelCalls
  <2>1. PICK n \in 1..MaxCalls : calls' \in [1..n -> Calls]
    BY <1>2 DEF ModelCalls
  <2>2. MaxCalls \in Nat
    BY ToolAssumption
  <2>3. /\ first' = 1 /\ status' = [j \in DOMAIN calls' |-> "waiting"] /\ pc' = "tools"
        /\ DOMAIN calls' = 1..n
    BY <1>2, <2>1 DEF ModelCalls
  <2>4. first' \in DOMAIN calls'
    BY <2>2, <2>3
  <2>5. Flying' = {}
    BY <2>3 DEF Flying
  <2>6. Slots' \in Nat
    <3>1. (TypeOK /\ first \in DOMAIN calls)' => (Slots \in Nat)'
      BY SlotsNat, PTL
    <3> QED BY <2>4, <3>1
  <2>7. Cardinality(Flying') = 0
    BY <2>5, FS_EmptySet
  <2>8. \A j \in DOMAIN calls' : ~(j < first') /\ status'[j] = "waiting"
    BY <2>2, <2>3
  <2>9. Cardinality(Flying') <= Slots'
    BY <2>6, <2>7
  <2> QED BY <2>3, <2>4, <2>8, <2>9 DEF BatchInv
<1>3. ASSUME NEW i \in DOMAIN calls, StartTool(i)
      PROVE  BatchInv'
  <2>1. PICK s : status' = [status EXCEPT ![i] = s]
    BY <1>3 DEF StartTool, Becomes
  <2> QED BY <1>3, <1>s, <2>1 DEF StartTool, Startable
<1>4. ASSUME NEW i \in DOMAIN calls, ToolReturns(i)
      PROVE  BatchInv'
  <2>1. PICK s : status' = [status EXCEPT ![i] = s]
    BY <1>4 DEF ToolReturns, Becomes
  <2> QED BY <1>4, <1>s, <2>1 DEF ToolReturns, InFlight, With
<1>5. ASSUME NEW i \in DOMAIN calls, CallReturns(i)
      PROVE  BatchInv'
  BY <1>5, <1>s DEF CallReturns, Becomes, InFlight, With
<1>6. ASSUME TurnOver PROVE BatchInv'
  BY <1>6, <1>n DEF TurnOver, NoCalls
<1>7. CASE BatchReturns
  <2> DEFINE n == Cardinality(Batch)
  <2>1. /\ pc = "tools" /\ With("done") = Batch /\ concurrent' = concurrent
        /\ \/ /\ first + n \in DOMAIN calls /\ first' = first + n
              /\ UNCHANGED <<pc, calls, status>>
           \/ pc' = "model" /\ calls' = <<>>
    BY <1>7, Zenon DEF BatchReturns, NoCalls
  <2>2. CASE pc' = "model" /\ calls' = <<>>
    BY <1>n, <2>2
  <2>3. CASE first + n \in DOMAIN calls /\ first' = first + n /\ UNCHANGED <<pc, calls, status>>
    <3>1. first \in DOMAIN calls /\ \A j \in DOMAIN calls : j < first => status[j] = "done"
      BY <2>1 DEF BatchInv
    <3>2. n \in Nat /\ n >= 1 /\ Batch = first..(first + (n - 1))
      BY <3>1, BatchFacts
    <3> HIDE DEF n
    <3>3. \A j \in Batch : status[j] = "done"
      BY <2>1 DEF With
    <3>4. ASSUME NEW j \in DOMAIN calls
          PROVE  /\ j < first + n => status[j] = "done"
                 /\ ~(j < first + n) => status[j] = "waiting"
      <4>1. j \in Nat
        BY <1>0
      <4>2. CASE j < first
        BY <1>0, <3>1, <3>2, <4>1, <4>2
      <4>3. CASE j >= first /\ j < first + n
        <5>1. j \in Batch
          BY <1>0, <3>2, <4>1, <4>3
        <5> QED BY <3>3, <4>3, <5>1
      <4>4. CASE j >= first + n
        <5>1. j \notin Batch /\ j > first
          BY <1>0, <3>2, <4>1, <4>4
        <5>2. status[j] = "waiting"
          BY <2>1, <5>1 DEF BatchInv
        <5> QED BY <1>0, <3>2, <4>1, <4>4, <5>2
      <4> QED BY <1>0, <3>2, <4>1, <4>2, <4>3, <4>4
    <3>5. Flying' = {}
      BY <2>3, <3>4 DEF Flying
    <3>6. Cardinality(Flying') = 0
      BY <3>5, FS_EmptySet
    <3>7. Slots' \in Nat
      <4>1. (TypeOK /\ first \in DOMAIN calls)' => (Slots \in Nat)'
        BY SlotsNat, PTL
      <4> QED BY <2>3, <4>1
    <3>8. Cardinality(Flying') <= Slots'
      BY <3>6, <3>7
    <3>9. ASSUME NEW j \in DOMAIN calls
          PROVE  /\ j < first' => status'[j] = "done"
                 /\ j > first' => status'[j] = "waiting"
      <4>1. j \in Nat
        BY <1>0
      <4> QED BY <1>0, <2>3, <3>2, <3>4, <4>1
    <3> QED BY <2>1, <2>3, <3>8, <3>9 DEF BatchInv
  <2> QED BY <2>1, <2>2, <2>3
<1>8. ASSUME NEW c \in Calls, OrphanEnds(c)
      PROVE  BatchInv'
  BY <1>8, <1>k DEF OrphanEnds
<1>9. CASE UNCHANGED vars
  BY <1>9, <1>k DEF vars
<1> QED BY <1>1, <1>2, <1>3, <1>4, <1>5, <1>6, <1>7, <1>8, <1>9, StepCases
        DEF AskEscapes, EndTurn, Cancelled
----------------------------------------------------------------------------
(* The limits *)

LimitsInv == KeyInv /\ OnceInv /\ CountInv

\* Nothing that the limits count changes.
LEMMA SameFlight ==
  ASSUME LimitsInv, UNCHANGED <<concurrent, keys, once, counts, succ>>,
         \A t : FlyingOf(t)' = FlyingOf(t),
         \A c : Executing(c)' = Executing(c) /\ Unrecorded(c)' = Unrecorded(c)
  PROVE  LimitsInv'
<1>1. \A t : WidthOf(t)' = WidthOf(t)
  BY DEF WidthOf, MayOverlap, Width
<1>2. KeyInv'
  BY <1>1 DEF LimitsInv, KeyInv
<1>3. OnceInv'
  BY DEF LimitsInv, OnceInv
<1>4. CountInv'
  BY <1>1 DEF LimitsInv, CountInv
<1> QED BY <1>2, <1>3, <1>4 DEF LimitsInv

\* The check that lets a call start: its key is not taken, its tool neither
\* spent nor stopped.
LEMMA StartKeeps ==
  ASSUME TypeOK, TypeOK', BatchInv', pc' = "tools", LimitsInv,
         UNCHANGED <<concurrent, calls, keys, once, counts, succ>>,
         NEW i \in DOMAIN calls, status[i] = "waiting", ~Skipped(calls[i]),
         NEW s \in {"running", "failed"}, status' = [status EXCEPT ![i] = s]
  PROVE  LimitsInv'
<1>c. PICK c \in Calls : c = calls[i]
  BY CallsOf
<1>0. /\ c \in Calls /\ c[1] \in Tools
      /\ c[1] \notin once /\ counts[c[1]] < Threshold[c[1]]
      /\ c[1] \notin LookupTools => c \notin keys
  <2>1. c \in Calls /\ c[1] \in Tools
    BY CallTools
  <2>2. counts[c[1]] \in Nat /\ Threshold[c[1]] \in Nat
    BY <2>1, ToolAssumption DEF TypeOK
  <2> QED BY <1>c, <2>1, <2>2 DEF Skipped
<1>1. \A t : WidthOf(t)' = WidthOf(t)
  BY DEF WidthOf, MayOverlap, Width
<1>2. /\ \A t : t # c[1] => FlyingOf(t)' = FlyingOf(t)
      /\ \A d : d # c => Executing(d)' = Executing(d)
      /\ \A d : Unrecorded(d)' = Unrecorded(d)
  <2>1. /\ \A t : FlyingOf(t)' =
             (FlyingOf(t) \ {i}) \cup (IF s \in {"running", "succeeded", "failed"} /\ calls[i][1] = t
                THEN {i} ELSE {})
        /\ \A d : Executing(d)' =
             (Executing(d) \ {i}) \cup (IF s = "running" /\ calls[i] = d
                THEN {i} ELSE {})
        /\ \A d : Unrecorded(d)' =
             (Unrecorded(d) \ {i}) \cup (IF s = "succeeded" /\ calls[i] = d
                THEN {i} ELSE {})
    <3>1. calls' = calls
      OBVIOUS
    <3> QED BY <3>1, OneGoesOn
  <2>2. \A t : i \notin FlyingOf(t) /\ i \notin Executing(t) /\ i \notin Unrecorded(t)
    BY DEF FlyingOf, Flying, Executing, Unrecorded
  <2>3. ASSUME NEW t, t # c[1] PROVE FlyingOf(t)' = FlyingOf(t)
    BY <1>c, <2>1, <2>2, <2>3
  <2>4. ASSUME NEW d, d # c PROVE Executing(d)' = Executing(d)
    BY <1>c, <2>1, <2>2, <2>4
  <2>5. ASSUME NEW d PROVE Unrecorded(d)' = Unrecorded(d)
    BY <2>1, <2>2
  <2> QED BY <2>3, <2>4, <2>5
<1>3. KeyInv'
  <2> SUFFICES ASSUME NEW d \in Calls, d[1] \notin LookupTools
               PROVE  /\ d \notin keys => succ[d] = Cardinality(Unrecorded(d)')
                      /\ d \in keys => succ[d] + Cardinality(Executing(d)') <= WidthOf(d[1])
    BY <1>1 DEF KeyInv
  <2> QED BY <1>0, <1>2 DEF LimitsInv, KeyInv
<1>4. OnceInv'
  <2> SUFFICES ASSUME NEW t \in OnceTools
               PROVE  /\ t \notin once => \A d \in Calls :
                           d[1] = t => succ[d] = Cardinality(Unrecorded(d)')
                      /\ t \in once =>
                           /\ FlyingOf(t)' = {}
                           /\ \A d, e \in Calls : d[1] = t /\ e[1] = t =>
                                succ[d] <= 1 /\ (d # e => succ[d] = 0 \/ succ[e] = 0)
    BY DEF OnceInv
  <2> QED BY <1>0, <1>2 DEF LimitsInv, OnceInv
<1>5. CountInv'
  <2> SUFFICES ASSUME NEW t \in Tools
               PROVE  counts[t] + Cardinality(FlyingOf(t)') <= Threshold[t] + (WidthOf(t) - 1)
    BY <1>1 DEF CountInv
  <2>1. CASE t # c[1]
    BY <1>2, <2>1 DEF LimitsInv, CountInv
  <2>2. CASE t = c[1]
    <3>1. Cardinality(FlyingOf(t)') <= WidthOf(t)
      <4>1. (TypeOK /\ BatchInv /\ pc = "tools")' => FlightFits'
        BY FlyingFits, PTL
      <4>2. \A u \in Tools : Cardinality(FlyingOf(u)') <= WidthOf(u)'
        BY <4>1 DEF FlightFits
      <4> QED BY <1>1, <4>2
    <3>2. Cardinality(FlyingOf(t)') \in Nat
      <4>1. DOMAIN calls' = DOMAIN calls /\ FlyingOf(t)' \in SUBSET DOMAIN calls
        BY DEF FlyingOf, Flying
      <4> QED BY <4>1, Finite
    <3>3. counts[t] \in Nat /\ Threshold[t] \in Nat /\ counts[t] < Threshold[t]
      BY <1>0, <2>2, ToolAssumption DEF TypeOK
    <3> QED BY <3>1, <3>2, <3>3, WidthPositive
  <2> QED BY <2>1, <2>2
<1> QED BY <1>3, <1>4, <1>5 DEF LimitsInv

\* A tool returns: a success is counted at once and recorded later.
LEMMA ReturnKeeps ==
  ASSUME TypeOK, LimitsInv, UNCHANGED <<concurrent, calls, keys, once, counts>>,
         NEW i \in DOMAIN calls, status[i] = "running",
         NEW s \in {"succeeded", "failed"}, status' = [status EXCEPT ![i] = s],
         succ' = IF s = "succeeded" THEN Add(succ, calls[i]) ELSE succ
  PROVE  LimitsInv'
<1>c. PICK c \in Calls : c = calls[i]
  BY CallsOf
<1>0. c \in Calls /\ c[1] \in Tools /\ i \in FlyingOf(c[1])
  BY <1>c, CallTools DEF FlyingOf, Flying
<1>1. \A t : WidthOf(t)' = WidthOf(t)
  BY DEF WidthOf, MayOverlap, Width
<1>s. succ \in [Calls -> Nat]
  BY TypeParts DEF Counters
<1>2. /\ \A d \in Calls : d # c => succ'[d] = succ[d]
      /\ s = "succeeded" => succ'[c] = succ[c] + 1
      /\ s = "failed" => succ'[c] = succ[c]
  BY <1>0, <1>c, <1>s, AddFacts
<1>3. /\ \A t : FlyingOf(t)' = FlyingOf(t)
      /\ \A d : d # c => Executing(d)' = Executing(d) /\ Unrecorded(d)' = Unrecorded(d)
      /\ i \in Executing(c) /\ Executing(c)' = Executing(c) \ {i}
      /\ i \notin Unrecorded(c)
      /\ s = "succeeded" => Unrecorded(c)' = Unrecorded(c) \cup {i}
      /\ s = "failed" => Unrecorded(c)' = Unrecorded(c)
  <2>1. /\ \A t : FlyingOf(t)' =
             (FlyingOf(t) \ {i}) \cup (IF s \in {"running", "succeeded", "failed"} /\ calls[i][1] = t
                THEN {i} ELSE {})
        /\ \A d : Executing(d)' =
             (Executing(d) \ {i}) \cup (IF s = "running" /\ calls[i] = d
                THEN {i} ELSE {})
        /\ \A d : Unrecorded(d)' =
             (Unrecorded(d) \ {i}) \cup (IF s = "succeeded" /\ calls[i] = d
                THEN {i} ELSE {})
    <3>1. calls' = calls
      OBVIOUS
    <3> QED BY <3>1, OneGoesOn
  <2>2. /\ \A t : i \in FlyingOf(t) <=> calls[i][1] = t
        /\ \A d : i \in Executing(d) <=> calls[i] = d
        /\ \A d : i \notin Unrecorded(d)
    BY DEF FlyingOf, Flying, Executing, Unrecorded
  <2>3. ASSUME NEW t PROVE FlyingOf(t)' = FlyingOf(t)
    BY <2>1, <2>2
  <2>4. ASSUME NEW d, d # c PROVE Executing(d)' = Executing(d) /\ Unrecorded(d)' = Unrecorded(d)
    BY <1>c, <2>1, <2>2, <2>4
  <2>5. Executing(c)' = Executing(c) \ {i} /\ i \in Executing(c) /\ i \notin Unrecorded(c)
    BY <1>c, <2>1, <2>2
  <2>6. s = "succeeded" => Unrecorded(c)' = Unrecorded(c) \cup {i}
    BY <1>c, <2>1, <2>2
  <2>7. s = "failed" => Unrecorded(c)' = Unrecorded(c)
    BY <1>c, <2>1, <2>2
  <2> QED BY <2>3, <2>4, <2>5, <2>6, <2>7
<1>4. /\ Executing(c) \in SUBSET DOMAIN calls /\ Unrecorded(c) \in SUBSET DOMAIN calls
      /\ Cardinality(Executing(c)) \in Nat /\ Cardinality(Unrecorded(c)) \in Nat
  <2>1. Executing(c) \in SUBSET DOMAIN calls /\ Unrecorded(c) \in SUBSET DOMAIN calls
    BY DEF Executing, Unrecorded
  <2> QED BY <2>1, Finite
<1>5. /\ Cardinality(Executing(c)') = Cardinality(Executing(c)) - 1
      /\ s = "succeeded" => Cardinality(Unrecorded(c)') = Cardinality(Unrecorded(c)) + 1
      /\ s = "failed" => Cardinality(Unrecorded(c)') = Cardinality(Unrecorded(c))
  BY <1>3, <1>4, OneMore, OneLess
<1>6. succ[c] \in Nat
  BY <1>0, <1>s
<1>7. KeyInv'
  <2> SUFFICES ASSUME NEW d \in Calls, d[1] \notin LookupTools
               PROVE  /\ d \notin keys => succ'[d] = Cardinality(Unrecorded(d)')
                      /\ d \in keys => succ'[d] + Cardinality(Executing(d)') <= WidthOf(d[1])
    BY <1>1 DEF KeyInv
  <2>0. /\ d \notin keys => succ[d] = Cardinality(Unrecorded(d))
        /\ d \in keys => succ[d] + Cardinality(Executing(d)) <= WidthOf(d[1])
    BY DEF LimitsInv, KeyInv
  <2>1. CASE d # c
    BY <1>2, <1>3, <2>0, <2>1
  <2>2. CASE d = c
    <3>1. WidthOf(c[1]) \in Nat
      BY WidthPositive
    <3> QED BY <1>2, <1>4, <1>5, <1>6, <2>0, <2>2, <3>1
  <2> QED BY <2>1, <2>2
<1>8. OnceInv'
  <2> SUFFICES ASSUME NEW t \in OnceTools
               PROVE  /\ t \notin once => \A d \in Calls :
                           d[1] = t => succ'[d] = Cardinality(Unrecorded(d)')
                      /\ t \in once =>
                           /\ FlyingOf(t)' = {}
                           /\ \A d, e \in Calls : d[1] = t /\ e[1] = t =>
                                succ'[d] <= 1 /\ (d # e => succ'[d] = 0 \/ succ'[e] = 0)
    BY DEF OnceInv
  <2>0. /\ t \notin once => \A d \in Calls : d[1] = t => succ[d] = Cardinality(Unrecorded(d))
        /\ t \in once =>
             /\ FlyingOf(t) = {}
             /\ \A d, e \in Calls : d[1] = t /\ e[1] = t =>
                  succ[d] <= 1 /\ (d # e => succ[d] = 0 \/ succ[e] = 0)
    BY DEF LimitsInv, OnceInv
  <2>1. CASE t \in once
    <3>1. \A d \in Calls : d[1] = t => succ'[d] = succ[d]
      BY <1>0, <1>2, <2>0, <2>1
    <3> QED BY <1>3, <2>0, <2>1, <3>1
  <2>2. CASE t \notin once
    <3> SUFFICES ASSUME NEW d \in Calls, d[1] = t
                 PROVE  succ'[d] = Cardinality(Unrecorded(d)')
      BY <2>2
    <3>1. CASE d # c
      BY <1>2, <1>3, <2>0, <2>2, <3>1
    <3>2. CASE d = c
      BY <1>2, <1>5, <2>0, <2>2, <3>2
    <3> QED BY <3>1, <3>2
  <2> QED BY <2>1, <2>2
<1>9. CountInv'
  BY <1>1, <1>3 DEF LimitsInv, CountInv
<1> QED BY <1>7, <1>8, <1>9 DEF LimitsInv

\* A call returns; what succeeded is recorded.
LEMMA RecordKeeps ==
  ASSUME TypeOK, BatchInv, pc = "tools", LimitsInv, UNCHANGED <<concurrent, calls, succ>>,
         NEW i \in DOMAIN calls, status[i] \in {"succeeded", "failed"},
         status' = [status EXCEPT ![i] = "done"],
         IF status[i] = "succeeded" THEN Record(calls[i]) ELSE UNCHANGED <<keys, counts, once>>
  PROVE  LimitsInv'
<1>c. PICK c \in Calls : c = calls[i]
  BY CallsOf
<1>0. c[1] \in Tools /\ i \in Flying /\ i \in FlyingOf(c[1])
  BY <1>c, CallTools DEF FlyingOf, Flying
<1>1. \A t : WidthOf(t)' = WidthOf(t)
  BY DEF WidthOf, MayOverlap, Width
<1>s. succ \in [Calls -> Nat] /\ counts \in [Tools -> Nat]
  BY TypeParts DEF Counters
<1>2. /\ \A t : t # c[1] => FlyingOf(t)' = FlyingOf(t)
      /\ FlyingOf(c[1])' = FlyingOf(c[1]) \ {i}
      /\ \A d : Executing(d)' = Executing(d)
      /\ \A d : d # c => Unrecorded(d)' = Unrecorded(d)
      /\ status[i] = "failed" => Unrecorded(c)' = Unrecorded(c)
      /\ status[i] = "succeeded" => i \in Unrecorded(c)
      /\ \A d : d # c => i \notin Unrecorded(d)
  <2>1. /\ \A t : FlyingOf(t)' = FlyingOf(t) \ {i}
        /\ \A d : Executing(d)' = Executing(d) \ {i}
        /\ \A d : Unrecorded(d)' = Unrecorded(d) \ {i}
    <3>1. calls' = calls
      OBVIOUS
    <3>2. /\ \A t : FlyingOf(t)' =
             (FlyingOf(t) \ {i}) \cup (IF "done" \in {"running", "succeeded", "failed"} /\ calls[i][1] = t
                THEN {i} ELSE {})
          /\ \A d : Executing(d)' =
             (Executing(d) \ {i}) \cup (IF "done" = "running" /\ calls[i] = d
                THEN {i} ELSE {})
          /\ \A d : Unrecorded(d)' =
             (Unrecorded(d) \ {i}) \cup (IF "done" = "succeeded" /\ calls[i] = d
                THEN {i} ELSE {})
      BY <3>1, OneGoesOn
    <3>3. ASSUME NEW t PROVE FlyingOf(t)' = FlyingOf(t) \ {i}
      BY <3>2
    <3>4. ASSUME NEW d PROVE Executing(d)' = Executing(d) \ {i}
      BY <3>2
    <3>5. ASSUME NEW d PROVE Unrecorded(d)' = Unrecorded(d) \ {i}
      BY <3>2
    <3> QED BY <3>3, <3>4, <3>5
  <2>2. /\ \A t : i \in FlyingOf(t) <=> c[1] = t
        /\ \A d : i \notin Executing(d)
        /\ \A d : i \in Unrecorded(d) <=> (c = d /\ status[i] = "succeeded")
    BY <1>c DEF FlyingOf, Flying, Executing, Unrecorded
  <2>3. ASSUME NEW t, t # c[1] PROVE FlyingOf(t)' = FlyingOf(t)
    BY <2>1, <2>2, <2>3
  <2>4. ASSUME NEW d PROVE Executing(d)' = Executing(d)
    BY <2>1, <2>2
  <2>5. ASSUME NEW d, d # c \/ status[i] = "failed" PROVE Unrecorded(d)' = Unrecorded(d)
    BY <2>1, <2>2, <2>5
  <2>6. FlyingOf(c[1])' = FlyingOf(c[1]) \ {i}
    BY <2>1
  <2>7. /\ status[i] = "succeeded" => i \in Unrecorded(c)
        /\ \A d : d # c => i \notin Unrecorded(d)
    BY <2>2
  <2> QED BY <2>3, <2>4, <2>5, <2>6, <2>7
<1>3. /\ FlyingOf(c[1]) \in SUBSET DOMAIN calls
      /\ Executing(c) \in SUBSET DOMAIN calls /\ Unrecorded(c) \in SUBSET DOMAIN calls
      /\ Executing(c) \cup Unrecorded(c) \in SUBSET FlyingOf(c[1])
      /\ Executing(c) \cap Unrecorded(c) = {}
  <2>1. Executing(c) \cap Unrecorded(c) = {}
    BY DEF Executing, Unrecorded
  <2> QED BY <2>1, FlightTypes
<1>4. Cardinality(FlyingOf(c[1])) \in Nat /\ Cardinality(FlyingOf(c[1])') = Cardinality(FlyingOf(c[1])) - 1
  BY <1>0, <1>2, <1>3, Finite, OneLess
\* Successes that are not recorded are in flight with those that run.
<1>5. Cardinality(Unrecorded(c)) + Cardinality(Executing(c)) <= WidthOf(c[1])
  <2>1. /\ IsFiniteSet(Executing(c)) /\ IsFiniteSet(Unrecorded(c))
        /\ Cardinality(Executing(c)) \in Nat /\ Cardinality(Unrecorded(c)) \in Nat
    BY <1>3, Finite
  <2>2. Cardinality(Executing(c) \cup Unrecorded(c)) =
          Cardinality(Executing(c)) + Cardinality(Unrecorded(c))
    <3>1. Cardinality(Executing(c) \cup Unrecorded(c)) =
            Cardinality(Executing(c)) + Cardinality(Unrecorded(c)) - Cardinality(Executing(c) \cap Unrecorded(c))
      BY <2>1, FS_Union
    <3>2. Cardinality(Executing(c) \cap Unrecorded(c)) = 0
      BY <1>3, FS_EmptySet
    <3> QED BY <2>1, <3>1, <3>2
  <2>3. Cardinality(Executing(c) \cup Unrecorded(c)) <= Cardinality(FlyingOf(c[1]))
    BY <1>3, Smaller
  <2>4. Cardinality(FlyingOf(c[1])) <= WidthOf(c[1])
    BY <1>0, FlyingFacts
  <2> QED BY <1>4, <2>1, <2>2, <2>3, <2>4, WidthPositive
<1>6. CASE status[i] = "failed"
  <2>0. keys' = keys /\ counts' = counts /\ once' = once /\ \A d : Unrecorded(d)' = Unrecorded(d)
    <3>1. ASSUME NEW d PROVE Unrecorded(d)' = Unrecorded(d)
      BY <1>2, <1>6
    <3> QED BY <1>6, <3>1
  <2>1. KeyInv'
    BY <1>1, <1>2, <2>0 DEF LimitsInv, KeyInv
  <2>2. OnceInv'
    <3>1. \A t : FlyingOf(t) = {} => FlyingOf(t)' = {}
      BY <1>2
    <3> QED BY <2>0, <3>1 DEF LimitsInv, OnceInv
  <2>3. CountInv'
    <3> SUFFICES ASSUME NEW t \in Tools
                 PROVE  counts[t] + Cardinality(FlyingOf(t)') <= Threshold[t] + (WidthOf(t) - 1)
      BY <1>1, <2>0 DEF CountInv
    <3>0. counts[t] + Cardinality(FlyingOf(t)) <= Threshold[t] + (WidthOf(t) - 1)
      BY DEF LimitsInv, CountInv
    <3>1. CASE t # c[1]
      BY <1>2, <3>0, <3>1
    <3>2. CASE t = c[1]
      <4>1. counts[t] \in Nat /\ Threshold[t] \in Nat /\ WidthOf(t) \in Nat
        BY <1>s, ToolAssumption, WidthPositive
      <4> QED BY <1>4, <3>0, <3>2, <4>1
    <3> QED BY <3>1, <3>2
  <2> QED BY <2>1, <2>2, <2>3 DEF LimitsInv
<1>7. CASE status[i] = "succeeded"
  <2>0. /\ counts' = Add(counts, c[1])
        /\ keys' = IF c[1] \in LookupTools THEN keys ELSE keys \cup {c}
        /\ once' = once \cup ({c[1]} \cap OnceTools)
    BY <1>7, <1>c DEF Record
  <2>1. KeyInv'
    <3> SUFFICES ASSUME NEW d \in Calls, d[1] \notin LookupTools
                 PROVE  /\ d \notin keys' => succ[d] = Cardinality(Unrecorded(d)')
                        /\ d \in keys' => succ[d] + Cardinality(Executing(d)') <= WidthOf(d[1])
      BY <1>1 DEF KeyInv
    <3>0. /\ d \notin keys => succ[d] = Cardinality(Unrecorded(d))
          /\ d \in keys => succ[d] + Cardinality(Executing(d)) <= WidthOf(d[1])
      BY DEF LimitsInv, KeyInv
    <3>1. CASE d # c
      <4>1. d \in keys' <=> d \in keys
        BY <2>0, <3>1
      <4> QED BY <1>2, <3>0, <3>1, <4>1
    <3>2. CASE d = c
      <4>1. d \in keys'
        BY <2>0, <3>2
      <4> QED BY <1>2, <1>5, <3>0, <3>2, <4>1
    <3> QED BY <3>1, <3>2
  <2>2. OnceInv'
    <3> SUFFICES ASSUME NEW t \in OnceTools
                 PROVE  /\ t \notin once' => \A d \in Calls :
                             d[1] = t => succ[d] = Cardinality(Unrecorded(d)')
                        /\ t \in once' =>
                             /\ FlyingOf(t)' = {}
                             /\ \A d, e \in Calls : d[1] = t /\ e[1] = t =>
                                  succ[d] <= 1 /\ (d # e => succ[d] = 0 \/ succ[e] = 0)
      BY DEF OnceInv
    <3>0. /\ t \notin once => \A d \in Calls : d[1] = t => succ[d] = Cardinality(Unrecorded(d))
          /\ t \in once =>
               /\ FlyingOf(t) = {}
               /\ \A d, e \in Calls : d[1] = t /\ e[1] = t =>
                    succ[d] <= 1 /\ (d # e => succ[d] = 0 \/ succ[e] = 0)
      BY DEF LimitsInv, OnceInv
    <3>1. CASE t # c[1]
      <4>1. t \in once' <=> t \in once
        BY <2>0, <3>1
      <4>2. \A d \in Calls : d[1] = t => Unrecorded(d)' = Unrecorded(d)
        BY <1>2, <3>1
      <4> QED BY <1>2, <3>0, <3>1, <4>1, <4>2
    <3>2. CASE t = c[1]
      <4>1. t \notin once /\ t \in once'
        BY <1>0, <2>0, <3>0, <3>2
      <4>2. Flying = {i}
        <5>1. ~MayOverlap(calls[i][1])
          BY <1>c, <3>2, ToolAssumption DEF MayOverlap
        <5> QED BY <1>0, <5>1, FlyingFacts
      <4>3. FlyingOf(t)' = {}
        BY <1>2, <3>2, <4>2 DEF FlyingOf
      <4>4. succ[c] = 1
        <5>1. Unrecorded(c) = {i}
          BY <1>2, <1>7, <4>2, FlightTypes
        <5>2. Cardinality(Unrecorded(c)) = 1
          BY <5>1, FS_Singleton, Zenon
        <5> QED BY <3>0, <3>2, <4>1, <5>2
      <4>5. ASSUME NEW d \in Calls, d[1] = t, d # c PROVE succ[d] = 0
        <5>1. Unrecorded(d) = {}
          BY <1>2, <4>2, <4>5, FlightTypes
        <5>2. Cardinality(Unrecorded(d)) = 0
          BY <5>1, FS_EmptySet
        <5> QED BY <3>0, <4>1, <4>5, <5>2
      <4> QED BY <4>1, <4>3, <4>4, <4>5
    <3> QED BY <3>1, <3>2
  <2>3. CountInv'
    <3> SUFFICES ASSUME NEW t \in Tools
                 PROVE  counts'[t] + Cardinality(FlyingOf(t)') <= Threshold[t] + (WidthOf(t) - 1)
      BY <1>1 DEF CountInv
    <3>0. counts[t] + Cardinality(FlyingOf(t)) <= Threshold[t] + (WidthOf(t) - 1)
      BY DEF LimitsInv, CountInv
    <3>1. CASE t # c[1]
      <4>1. counts'[t] = counts[t]
        BY <1>0, <1>s, <2>0, <3>1, AddFacts
      <4> QED BY <1>2, <3>0, <3>1, <4>1
    <3>2. CASE t = c[1]
      <4>1. counts'[t] = counts[t] + 1
        BY <1>0, <1>s, <2>0, <3>2, AddFacts
      <4>2. counts[t] \in Nat
        BY <1>s
      <4> QED BY <1>4, <3>0, <3>2, <4>1, <4>2
    <3> QED BY <3>1, <3>2
  <2> QED BY <2>1, <2>2, <2>3 DEF LimitsInv
<1> QED BY <1>6, <1>7

\* A turn starts with nothing counted and nothing in flight.
Fresh ==
    /\ calls = <<>>
    /\ keys = {} /\ counts = Zero(Tools) /\ once = {} /\ succ = Zero(Calls)

LEMMA FreshLimits == Fresh => LimitsInv
<1> SUFFICES ASSUME Fresh PROVE LimitsInv
  OBVIOUS
<1>1. /\ \A t : FlyingOf(t) = {}
      /\ \A c : Executing(c) = {} /\ Unrecorded(c) = {}
  <2>1. DOMAIN calls = {}
    BY DEF Fresh
  <2> QED BY <2>1, NoneFlies
<1>2. Cardinality({}) = 0
  BY FS_EmptySet
<1>3. (\A c \in Calls : succ[c] = 0) /\ (\A t \in Tools : counts[t] = 0)
  BY ZeroFacts DEF Fresh
<1>4. KeyInv
  BY <1>1, <1>2, <1>3 DEF KeyInv, Fresh
<1>5. OnceInv
  BY <1>1, <1>2, <1>3 DEF OnceInv, Fresh
<1>6. CountInv
  <2> SUFFICES ASSUME NEW t \in Tools
               PROVE  counts[t] + Cardinality(FlyingOf(t)) <= Threshold[t] + (WidthOf(t) - 1)
    BY DEF CountInv
  <2>1. counts[t] = 0 /\ Cardinality(FlyingOf(t)) = 0
    BY <1>1, <1>2, <1>3
  <2>2. Threshold[t] \in Nat /\ WidthOf(t) \in Nat /\ WidthOf(t) >= 1
    BY ToolAssumption, WidthPositive
  <2> QED BY <2>1, <2>2
<1> QED BY <1>4, <1>5, <1>6 DEF LimitsInv

LEMMA LimitsStep ==
  ASSUME TypeOK, TypeOK', BatchInv, BatchInv', LimitsInv, [Next]_vars
  PROVE  LimitsInv'
\* No call begins or ends.
<1>k. ASSUME UNCHANGED <<concurrent, calls, status, keys, once, counts, succ>> PROVE LimitsInv'
  <2>1. /\ \A t : FlyingOf(t)' = FlyingOf(t)
        /\ \A c : Executing(c)' = Executing(c) /\ Unrecorded(c)' = Unrecorded(c)
    BY <1>k DEF FlyingOf, Flying, Executing, Unrecorded
  <2> QED BY <1>k, <2>1, SameFlight
\* Nothing is in flight, before or after.
<1>n. ASSUME UNCHANGED <<concurrent, keys, once, counts, succ>>,
             \A i \in DOMAIN calls : status[i] \in {"waiting", "done"},
             \A i \in DOMAIN calls' : status'[i] \in {"waiting", "done"}
      PROVE  LimitsInv'
  <2>1. /\ \A t : FlyingOf(t) = {}
        /\ \A c : Executing(c) = {} /\ Unrecorded(c) = {}
    BY <1>n, NoneFlies
  <2>2. /\ \A t : FlyingOf(t)' = {}
        /\ \A c : Executing(c)' = {} /\ Unrecorded(c)' = {}
    BY <1>n DEF Flying, FlyingOf, Executing, Unrecorded
  <2>3. /\ \A t : FlyingOf(t)' = FlyingOf(t)
        /\ \A c : Executing(c)' = Executing(c) /\ Unrecorded(c)' = Unrecorded(c)
    BY <2>1, <2>2
  <2> QED BY <1>n, <2>3, SameFlight
<1>o. ASSUME TurnOver PROVE LimitsInv'
  <2>1. Fresh' => LimitsInv'
    BY FreshLimits, PTL
  <2>2. Fresh'
    BY <1>o DEF TurnOver, NoCalls, Fresh
  <2> QED BY <2>1, <2>2
<1>1. CASE BeginTurn
  BY <1>1, <1>k DEF BeginTurn, limits
<1>2. CASE ModelCalls
  <2>1. calls = <<>>
    BY <1>2 DEF ModelCalls, BatchInv
  <2>2. DOMAIN calls = {}
    BY <2>1
  <2> QED BY <1>2, <1>n, <2>2 DEF ModelCalls, limits
<1>3. ASSUME NEW i \in DOMAIN calls, StartTool(i)
      PROVE  LimitsInv'
  <2>0. /\ UNCHANGED <<concurrent, calls, keys, once, counts, succ>>
        /\ pc = "tools" /\ pc' = "tools" /\ status[i] = "waiting"
    BY <1>3 DEF StartTool, Startable
  <2>1. CASE status' = [status EXCEPT ![i] = "done"]
    <3>1. calls' = calls
      BY <2>0
    <3>2. /\ \A t : FlyingOf(t)' =
             (FlyingOf(t) \ {i}) \cup (IF "done" \in {"running", "succeeded", "failed"} /\ calls[i][1] = t
                THEN {i} ELSE {})
          /\ \A d : Executing(d)' =
             (Executing(d) \ {i}) \cup (IF "done" = "running" /\ calls[i] = d
                THEN {i} ELSE {})
          /\ \A d : Unrecorded(d)' =
             (Unrecorded(d) \ {i}) \cup (IF "done" = "succeeded" /\ calls[i] = d
                THEN {i} ELSE {})
      BY <2>1, <3>1, OneGoesOn
    <3>3. \A t : i \notin FlyingOf(t) /\ i \notin Executing(t) /\ i \notin Unrecorded(t)
      BY <2>0 DEF FlyingOf, Flying, Executing, Unrecorded
    <3>4. ASSUME NEW t PROVE FlyingOf(t)' = FlyingOf(t)
      BY <3>2, <3>3
    <3>5. ASSUME NEW d PROVE Executing(d)' = Executing(d) /\ Unrecorded(d)' = Unrecorded(d)
      BY <3>2, <3>3
    <3> QED BY <2>0, <3>4, <3>5, SameFlight
  <2>2. CASE ~(status' = [status EXCEPT ![i] = "done"])
    <3>1. ~Skipped(calls[i])
      BY <1>3, <2>2 DEF StartTool, Becomes
    <3>2. PICK s \in {"running", "failed"} : status' = [status EXCEPT ![i] = s]
      BY <1>3, <2>2 DEF StartTool, Becomes
    <3> QED BY <2>0, <3>1, <3>2, StartKeeps
  <2> QED BY <2>1, <2>2
<1>4. ASSUME NEW i \in DOMAIN calls, ToolReturns(i)
      PROVE  LimitsInv'
  <2>1. UNCHANGED <<concurrent, calls, keys, once, counts>> /\ status[i] = "running"
    BY <1>4 DEF ToolReturns, With, limits
  <2>2. PICK s \in {"succeeded", "failed"} :
          /\ status' = [status EXCEPT ![i] = s]
          /\ succ' = IF s = "succeeded" THEN Add(succ, calls[i]) ELSE succ
    BY <1>4 DEF ToolReturns, Becomes
  <2> QED BY <2>1, <2>2, ReturnKeeps
<1>5. ASSUME NEW i \in DOMAIN calls, CallReturns(i)
      PROVE  LimitsInv'
  <2>1. /\ pc = "tools" /\ status[i] \in {"succeeded", "failed"}
        /\ status' = [status EXCEPT ![i] = "done"]
        /\ UNCHANGED <<concurrent, calls, succ>>
    BY <1>5 DEF CallReturns, InFlight, With, Becomes
  <2>2. IF status[i] = "succeeded" THEN Record(calls[i]) ELSE UNCHANGED <<keys, counts, once>>
    BY <1>5 DEF CallReturns
  <2> QED BY <2>1, <2>2, RecordKeeps
<1>6. CASE BatchReturns
  <2>1. /\ pc = "tools" /\ With("done") = Batch
        /\ UNCHANGED <<concurrent, keys, once, counts, succ>>
        /\ UNCHANGED <<calls, status>> \/ calls' = <<>>
    BY <1>6 DEF BatchReturns, NoCalls, limits
  <2>2. ASSUME NEW i \in DOMAIN calls PROVE status[i] \in {"waiting", "done"}
    <3>1. i \notin Flying
      <4>1. Flying \in SUBSET Batch
        BY <2>1, FlyingFacts
      <4> QED BY <2>1, <4>1 DEF With, Flying
    <3>2. status[i] \in Statuses
      BY DEF TypeOK
    <3> QED BY <3>1, <3>2 DEF Flying, Statuses
  <2>3. CASE UNCHANGED <<calls, status>>
    BY <1>k, <2>1, <2>3
  <2>4. CASE calls' = <<>>
    <3>1. DOMAIN calls' = {}
      BY <2>4
    <3> QED BY <1>n, <2>1, <2>2, <3>1
  <2> QED BY <2>1, <2>3, <2>4
<1>7. ASSUME NEW c \in Calls, OrphanEnds(c)
      PROVE  LimitsInv'
  BY <1>7, <1>k DEF OrphanEnds, limits
<1>8. CASE UNCHANGED vars
  BY <1>8, <1>k DEF vars, limits
<1> QED BY <1>1, <1>2, <1>3, <1>4, <1>5, <1>6, <1>7, <1>8, <1>o, StepCases
        DEF AskEscapes, EndTurn, Cancelled

\* A lookup is counted before it is made.
LEMMA LookupStep ==
  ASSUME TypeOK, LookupInv, [Next]_vars
  PROVE  LookupInv'
<1>0. Counters /\ MaxLookups \in Nat
  BY TypeParts, ToolAssumption
<1>k. ASSUME UNCHANGED <<lookups, runs>> PROVE LookupInv'
  BY <1>k DEF LookupInv
<1>o. ASSUME TurnOver PROVE LookupInv'
  <2>1. lookups' = Zero(Calls) /\ runs' = Zero(Calls)
    BY <1>o DEF TurnOver
  <2> QED BY <1>0, <2>1, ZeroFacts DEF LookupInv
<1>1. ASSUME NEW i \in DOMAIN calls, StartTool(i)
      PROVE  LookupInv'
  <2>c. PICK c \in Calls : c = calls[i]
    BY CallsOf
  <2>1. lookups' = lookups \/ lookups' = Attempted(c)
    BY <1>1, <2>c DEF StartTool
  <2>2. runs' = runs \/ (runs' = Add(runs, c) /\ lookups' = Attempted(c) /\ ~(lookups'[c] > MaxLookups))
    BY <1>1, <2>c DEF StartTool
  <2>3. /\ lookups \in [Calls -> Nat] /\ runs \in [Calls -> Nat]
        /\ Add(lookups, c) \in [Calls -> Nat] /\ Add(lookups, c)[c] = lookups[c] + 1
        /\ Add(runs, c)[c] = runs[c] + 1
        /\ \A d \in Calls : d # c => Add(lookups, c)[d] = lookups[d] /\ Add(runs, c)[d] = runs[d]
    BY <1>0, AddFacts DEF Counters
  <2> SUFFICES ASSUME NEW d \in Calls, d[1] \in LookupTools
               PROVE  runs'[d] <= MaxLookups /\ runs'[d] <= lookups'[d]
    BY DEF LookupInv
  <2>4. /\ runs[d] <= MaxLookups /\ runs[d] <= lookups[d]
        /\ runs[d] \in Nat /\ lookups[d] \in Nat
    BY <2>3 DEF LookupInv
  <2>5. CASE d # c
    BY <2>1, <2>2, <2>3, <2>4, <2>5 DEF Attempted
  <2>6. CASE d = c
    <3>1. Attempted(c) = Add(lookups, c)
      BY <2>6 DEF Attempted
    <3> QED BY <1>0, <2>1, <2>2, <2>3, <2>4, <2>6, <3>1
  <2> QED BY <2>5, <2>6
<1>2. ASSUME NEW i \in DOMAIN calls, ToolReturns(i) PROVE LookupInv'
  BY <1>2, <1>k DEF ToolReturns, limits
<1>3. ASSUME NEW i \in DOMAIN calls, CallReturns(i) PROVE LookupInv'
  BY <1>3, <1>k DEF CallReturns
<1>4. ASSUME NEW c \in Calls, OrphanEnds(c) PROVE LookupInv'
  BY <1>4, <1>k DEF OrphanEnds, limits
<1>5. CASE BeginTurn \/ ModelCalls \/ BatchReturns \/ UNCHANGED vars
  BY <1>5, <1>k DEF BeginTurn, ModelCalls, BatchReturns, vars, limits
<1> QED BY <1>1, <1>2, <1>3, <1>4, <1>5, <1>o, StepCases DEF AskEscapes, EndTurn, Cancelled

\* A task that outlives its turn is one of several: all of them are safe.
LEMMA OrphanStep ==
  ASSUME TypeOK, BatchInv, OrphansAreSafe, [Next]_vars
  PROVE  OrphansAreSafe'
<1>0. orphans \in [Calls -> Nat]
  BY DEF TypeOK
<1>k. ASSUME orphans' = orphans PROVE OrphansAreSafe'
  BY <1>k DEF OrphansAreSafe
<1>1. CASE Cancelled
  <2>1. CASE ~Parallel
    BY <1>1, <1>k, <2>1 DEF Cancelled
  <2>2. CASE Parallel
    <3>1. /\ pc = "tools" /\ first \in DOMAIN calls
          /\ orphans' = [c \in Calls |-> orphans[c] + Among(c, Batch \ With("done"))]
      BY <1>1, <2>2 DEF Cancelled, BatchInv
    <3>2. Batch \in SUBSET DOMAIN calls /\ \A i \in Batch : Safe(i)
      BY <2>2, <3>1, BatchFacts
    <3> SUFFICES ASSUME NEW c \in Calls, orphans'[c] > 0, c[1] \notin SafeTools PROVE FALSE
      BY DEF OrphansAreSafe
    <3>3. ~(orphans[c] > 0) /\ orphans[c] \in Nat
      BY <1>0 DEF OrphansAreSafe
    <3>4. {i \in Batch \ With("done") : calls[i] = c} = {}
      BY <3>2 DEF Safe
    <3>5. Among(c, Batch \ With("done")) = 0
      BY <3>4, FS_EmptySet DEF Among
    <3> QED BY <3>1, <3>3, <3>5
  <2> QED BY <2>1, <2>2
<1>2. ASSUME NEW c \in Calls, OrphanEnds(c) PROVE OrphansAreSafe'
  <2> SUFFICES ASSUME NEW d \in Calls, orphans'[d] > 0 PROVE d[1] \in SafeTools
    BY DEF OrphansAreSafe
  <2>1. orphans[c] > 0 /\ orphans' = [orphans EXCEPT ![c] = orphans[c] - 1]
    BY <1>2 DEF OrphanEnds
  <2>2. orphans[d] > 0
    BY <1>0, <2>1
  <2> QED BY <2>2 DEF OrphansAreSafe
<1>3. ASSUME NEW i \in DOMAIN calls, StartTool(i) \/ ToolReturns(i) \/ CallReturns(i) \/ AskEscapes(i)
      PROVE  OrphansAreSafe'
  BY <1>3, <1>k DEF StartTool, ToolReturns, CallReturns, AskEscapes
<1>4. CASE BeginTurn \/ ModelCalls \/ BatchReturns \/ EndTurn \/ UNCHANGED vars
  BY <1>4, <1>k DEF BeginTurn, ModelCalls, BatchReturns, EndTurn, vars
<1> QED BY <1>1, <1>2, <1>3, <1>4, StepCases
----------------------------------------------------------------------------
(* The invariant *)

LEMMA ToolInit == Init => ToolInv
<1> SUFFICES ASSUME Init PROVE ToolInv
  OBVIOUS
<1>1. /\ MaxCalls \in Nat \ {0} /\ MaxMade \in Nat \ {0} /\ MaxTurns \in Nat \ {0}
      /\ MaxLookups \in Nat
  BY ToolAssumption
<1>2. TypeOK
  <2>1. Loop
    BY <1>1 DEF Init, Loop
  <2>2. Counters
    BY ZeroFacts DEF Init, Counters
  <2>3. Reply
    <3>1. calls = <<>> /\ status = <<>> /\ first = 1 /\ results = <<>>
      BY DEF Init
    <3>2. DOMAIN calls = {} /\ Len(calls) = 0 /\ calls \in Seq(Calls)
      BY <3>1
    <3>3. status \in [{} -> Statuses]
      BY <3>1
    <3>4. results \in Seq(DOMAIN calls)
      BY <3>1
    <3> QED BY <1>1, <3>1, <3>2, <3>3, <3>4 DEF Reply
  <2> QED BY <2>1, <2>2, <2>3, TypeParts
<1>3. BatchInv
  BY DEF Init, BatchInv
<1>4. LimitsInv
  BY FreshLimits DEF Init, Fresh
<1>5. LookupInv /\ OrphansAreSafe
  BY <1>1, ZeroFacts DEF Init, LookupInv, OrphansAreSafe
<1> QED BY <1>2, <1>3, <1>4, <1>5 DEF ToolInv, LimitsInv

LEMMA ToolNext ==
  ASSUME ToolInv, [Next]_vars
  PROVE  ToolInv'
<1>0. TypeOK /\ BatchInv /\ LimitsInv /\ LookupInv /\ OrphansAreSafe
  BY DEF ToolInv, LimitsInv
<1>1. TypeOK'
  BY <1>0, TypeStep
<1>2. BatchInv'
  BY <1>0, <1>1, BatchStep
<1>3. LimitsInv'
  BY <1>0, <1>1, <1>2, LimitsStep
<1>4. LookupInv' /\ OrphansAreSafe'
  BY <1>0, LookupStep, OrphanStep
<1> QED BY <1>1, <1>2, <1>3, <1>4 DEF ToolInv, LimitsInv

LEMMA ToolInvariant == Spec => []ToolInv
BY ToolInit, ToolNext, PTL DEF Spec

\* What the limits promise, from what is in flight.
LEMMA InvLimits == ToolInv => LimitsBounded
<1> SUFFICES ASSUME ToolInv PROVE LimitsBounded
  OBVIOUS
<1>0. TypeOK /\ BatchInv /\ KeyInv /\ OnceInv /\ CountInv /\ LookupInv
  BY DEF ToolInv
<1>1. succ \in [Calls -> Nat] /\ counts \in [Tools -> Nat]
  BY <1>0, TypeParts DEF Counters
<1>2. /\ \A t \in Tools : Cardinality(FlyingOf(t)) \in Nat /\ Cardinality(FlyingOf(t)) <= WidthOf(t)
      /\ \A i \in Flying : ~MayOverlap(calls[i][1]) => Flying = {i}
  <2>1. \A t \in Tools : Cardinality(FlyingOf(t)) \in Nat
    BY <1>0, FlightTypes, Finite
  <2>2. CASE pc = "tools"
    BY <1>0, <2>1, <2>2, FlyingFacts
  <2>3. CASE pc # "tools"
    <3>1. calls = <<>>
      BY <1>0, <2>3 DEF BatchInv
    <3>2. DOMAIN calls = {}
      BY <3>1
    <3>3. Flying = {} /\ \A t : FlyingOf(t) = {}
      BY <3>2, NoneFlies
    <3>4. ASSUME NEW t \in Tools PROVE Cardinality(FlyingOf(t)) = 0
      BY <3>3, FS_EmptySet
    <3>5. ASSUME NEW t \in Tools PROVE Cardinality(FlyingOf(t)) <= WidthOf(t)
      BY <3>4, WidthPositive
    <3> QED BY <2>1, <3>3, <3>5
  <2> QED BY <2>2, <2>3
<1>3. \A c \in Calls : /\ Unrecorded(c) \in SUBSET FlyingOf(c[1]) /\ c[1] \in Tools
                       /\ Cardinality(Unrecorded(c)) \in Nat
                       /\ Cardinality(Unrecorded(c)) <= WidthOf(c[1])
  <2> SUFFICES ASSUME NEW c \in Calls
               PROVE  /\ Unrecorded(c) \in SUBSET FlyingOf(c[1]) /\ c[1] \in Tools
                      /\ Cardinality(Unrecorded(c)) \in Nat
                      /\ Cardinality(Unrecorded(c)) <= WidthOf(c[1])
    OBVIOUS
  <2>1. /\ Unrecorded(c) \in SUBSET FlyingOf(c[1]) /\ c[1] \in Tools
        /\ FlyingOf(c[1]) \in SUBSET DOMAIN calls /\ Unrecorded(c) \in SUBSET DOMAIN calls
    BY FlightTypes, CallTools
  <2>2. Cardinality(Unrecorded(c)) \in Nat /\ Cardinality(Unrecorded(c)) <= Cardinality(FlyingOf(c[1]))
    BY <1>0, <2>1, Smaller, Finite
  <2>3. Cardinality(FlyingOf(c[1])) \in Nat /\ Cardinality(FlyingOf(c[1])) <= WidthOf(c[1])
    BY <1>2, <2>1
  <2>4. WidthOf(c[1]) \in Nat
    BY WidthPositive
  <2> QED BY <2>1, <2>2, <2>3, <2>4
<1>4. OnceHonoured
  <2> SUFFICES ASSUME NEW c \in Calls, NEW d \in Calls, c[1] = d[1], c[1] \in OnceTools
               PROVE  succ[c] <= 1 /\ (c # d => succ[c] = 0 \/ succ[d] = 0)
    BY DEF OnceHonoured
  <2>1. CASE c[1] \in once
    BY <1>0, <2>1 DEF OnceInv
  <2>2. CASE c[1] \notin once
    <3>1. succ[c] = Cardinality(Unrecorded(c)) /\ succ[d] = Cardinality(Unrecorded(d))
      BY <1>0, <2>2 DEF OnceInv
    <3>2. ~MayOverlap(c[1])
      BY ToolAssumption DEF MayOverlap
    <3>3. Cardinality(Unrecorded(c)) <= 1
      BY <1>3, <3>2 DEF WidthOf
    <3>4. ASSUME c # d, Unrecorded(c) # {}, Unrecorded(d) # {} PROVE FALSE
      <4>1. PICK i \in Unrecorded(c) : TRUE
        BY <3>4
      <4>2. PICK j \in Unrecorded(d) : TRUE
        BY <3>4
      <4>3. i \in Flying /\ j \in Flying /\ calls[i] = c /\ calls[j] = d
        BY DEF Unrecorded, Flying
      <4>4. i = j
        BY <1>2, <3>2, <4>3
      <4> QED BY <3>4, <4>3, <4>4
    <3>5. c # d => Cardinality(Unrecorded(c)) = 0 \/ Cardinality(Unrecorded(d)) = 0
      BY <3>4, FS_EmptySet
    <3> QED BY <3>1, <3>3, <3>5
  <2> QED BY <2>1, <2>2
<1>5. IdempotentBound
  <2> SUFFICES ASSUME NEW c \in Calls, c[1] \notin LookupTools PROVE succ[c] <= WidthOf(c[1])
    BY DEF IdempotentBound, WidthOf
  <2>1. CASE c \notin keys
    <3>1. succ[c] = Cardinality(Unrecorded(c))
      BY <1>0, <2>1 DEF KeyInv
    <3> QED BY <1>3, <3>1
  <2>2. CASE c \in keys
    <3>1. succ[c] + Cardinality(Executing(c)) <= WidthOf(c[1])
      BY <1>0, <2>2 DEF KeyInv
    <3>2. Executing(c) \in SUBSET DOMAIN calls
      BY DEF Executing
    <3>3. Cardinality(Executing(c)) \in Nat /\ succ[c] \in Nat /\ WidthOf(c[1]) \in Nat
      BY <1>0, <1>1, <3>2, Finite, WidthPositive
    <3> QED BY <3>1, <3>3
  <2> QED BY <2>1, <2>2
<1>6. BreakerBound
  <2>0. \A t : (IF MayOverlap(t) THEN Width - 1 ELSE 0) = WidthOf(t) - 1
    BY WidthPositive DEF WidthOf
  <2> SUFFICES ASSUME NEW t \in Tools PROVE counts[t] <= Threshold[t] + (WidthOf(t) - 1)
    BY <2>0 DEF BreakerBound
  <2>1. counts[t] + Cardinality(FlyingOf(t)) <= Threshold[t] + (WidthOf(t) - 1)
    BY <1>0 DEF CountInv
  <2>2. /\ counts[t] \in Nat /\ Cardinality(FlyingOf(t)) \in Nat /\ WidthOf(t) \in Nat
        /\ Threshold[t] \in Nat
    BY <1>1, <1>2, WidthPositive, ToolAssumption
  <2> QED BY <2>1, <2>2
<1>7. LookupBound
  BY <1>0 DEF LookupInv, LookupBound
<1> QED BY <1>4, <1>5, <1>6, <1>7 DEF LimitsBounded

LEMMA InvExclusive == ToolInv => ExclusiveAlone
<1> SUFFICES ASSUME ToolInv, pc = "tools", NEW i \in DOMAIN calls, ~Safe(i),
                    status[i] \notin {"waiting", "done"},
                    NEW j \in DOMAIN calls
             PROVE  (j < i => status[j] = "done") /\ (j > i => status[j] = "waiting")
  BY DEF ExclusiveAlone
<1>0. TypeOK /\ BatchInv
  BY DEF ToolInv
<1>1. i \in Flying /\ ~MayOverlap(calls[i][1])
  <2>1. status[i] \in Statuses
    BY <1>0 DEF TypeOK
  <2> QED BY <2>1 DEF Flying, Statuses, MayOverlap, Safe
<1>2. Batch = {i} /\ first = i
  BY <1>0, <1>1, FlyingFacts DEF Batch
<1>3. i \in Nat /\ j \in Nat
  <2>1. calls \in Seq(Calls)
    BY <1>0 DEF TypeOK
  <2> QED BY <2>1
<1>4. /\ j < first => status[j] = "done"
      /\ j > first /\ j \notin Batch => status[j] = "waiting"
  BY <1>0 DEF BatchInv
<1> QED BY <1>2, <1>3, <1>4

\* The promise of a single step about the denials.
DenialKept ==
    /\ denied \subseteq denied' \/ (turn' > turn /\ trigger' = "user")
    /\ \A c \in Calls : c[1] \in denied => runs'[c] <= runs[c]

LEMMA DenialStep ==
  ASSUME TypeOK, [Next]_vars
  PROVE  DenialKept
<1>0. runs \in [Calls -> Nat] /\ turn \in Nat
  <2>1. Loop /\ Counters
    BY TypeParts
  <2>2. MaxTurns \in Nat
    BY ToolAssumption
  <2> QED BY <2>1, <2>2 DEF Loop, Counters
<1>d. ASSUME NEW t, denied' \in Denials(t) PROVE denied \subseteq denied'
  BY <1>d DEF Denials
<1>k. ASSUME denied \subseteq denied' \/ (turn' > turn /\ trigger' = "user"),
             runs' = runs
      PROVE  DenialKept
  BY <1>0, <1>k DEF DenialKept
<1>o. ASSUME TurnOver PROVE DenialKept
  <2>1. runs' = Zero(Calls) /\ denied' = denied
    BY <1>o DEF TurnOver
  <2> QED BY <1>0, <2>1, ZeroFacts DEF DenialKept
<1>1. CASE BeginTurn
  BY <1>0, <1>1, <1>k DEF BeginTurn
<1>2. ASSUME NEW i \in DOMAIN calls, StartTool(i) PROVE DenialKept
  <2>c. PICK c \in Calls : c = calls[i]
    BY CallsOf
  <2>1. denied \subseteq denied'
    BY <1>2, <1>d DEF StartTool
  <2>2. CASE runs' = runs
    BY <1>k, <2>1, <2>2
  <2>3. CASE runs' = Add(runs, c) /\ c[1] \notin denied
    <3>1. \A d \in Calls : d # c => runs'[d] = runs[d]
      BY <1>0, <2>3, AddFacts
    <3> QED BY <1>0, <2>1, <2>3, <3>1 DEF DenialKept
  <2> QED BY <1>2, <2>c, <2>2, <2>3 DEF StartTool, Skipped
<1>3. ASSUME NEW i \in DOMAIN calls, ToolReturns(i) PROVE DenialKept
  BY <1>3, <1>d, <1>k DEF ToolReturns
<1>4. ASSUME NEW c \in Calls, OrphanEnds(c) PROVE DenialKept
  BY <1>4, <1>d, <1>k DEF OrphanEnds
<1>5. ASSUME NEW i \in DOMAIN calls, CallReturns(i) PROVE DenialKept
  BY <1>5, <1>k DEF CallReturns
<1>6. CASE ModelCalls \/ BatchReturns \/ UNCHANGED vars
  BY <1>6, <1>k DEF ModelCalls, BatchReturns, vars
<1> QED BY <1>1, <1>2, <1>3, <1>4, <1>5, <1>6, <1>o, StepCases DEF AskEscapes, EndTurn, Cancelled
----------------------------------------------------------------------------
(* The theorems *)

\* The loop of AgentRunner.run keeps its variables within their types: every
\* status belongs to a call of the reply, every count is a natural number.
THEOREM BatchTypes == Spec => []TypeOK
BY ToolInvariant, PTL DEF ToolInv

\* A call that is not concurrency-safe runs alone, however long the reply is
\* and however its batches are scheduled (_partition_tool_batches).
THEOREM ExclusiveRunsAlone == Spec => []ExclusiveAlone
BY ToolInvariant, InvExclusive, PTL

\* The limits of a turn hold up to what one batch has in flight: once-per-turn
\* tools succeed once, a key is used once, the circuit breaker stops a tool at
\* its threshold, lookups are never repeated too often (_run_tool_core).
THEOREM LimitsHold == Spec => []LimitsBounded
BY ToolInvariant, InvLimits, PTL

\* What still runs after /stop cancelled its turn is concurrency-safe
\* (_execute_parallel_batch and asyncio.wait).
THEOREM OrphansSafe == Spec => []OrphansAreSafe
BY ToolInvariant, PTL DEF ToolInv

\* No step executes a tool the session has denied, and only a turn of the user
\* takes a denial back (_persist_session_denied_tool,
\* _clear_denied_tools_for_user_turn).
THEOREM DenialsHold == Spec => DenialHolds
<1>1. TypeOK /\ [Next]_vars => [DenialKept]_vars
  BY DenialStep
<1>2. Spec => [][DenialKept]_vars
  BY <1>1, BatchTypes, PTL DEF Spec
<1> QED BY <1>2 DEF DenialHolds, DenialKept
=============================================================================
