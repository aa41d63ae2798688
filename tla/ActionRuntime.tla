--------------------------- MODULE ActionRuntime ---------------------------
(***************************************************************************)
(* OriginAgent/agent/action_runtime.py and epic_motor.py: the executor     *)
(* that submits actions, its motor queue with the tick that dispatches it, *)
(* the resumption of confirmed actions, and the idempotency keys of the    *)
(* actions that succeeded.                                                 *)
(*                                                                         *)
(* A process runs one event loop.  submit and resume_confirmed block it;   *)
(* the backend calls of a tick run in threads.  The keys are read from the *)
(* file when the process starts and only added to afterwards.              *)
(*                                                                         *)
(* The gate, the permissions, the simulation and the backend's outcome are *)
(* the environment's choice.                                               *)
(***************************************************************************)
EXTENDS Confirmations

CONSTANTS
    Procs,        \* processes on one workspace
    Motor,        \* those whose executor has a motor queue
    Intents,      \* the actions submitted, each once
    IntentKey,    \* [Intents -> Keys \cup {NoKey}]
    Parallel,     \* the intents with requires_parallel
    MaxParallel   \* max_parallel_per_tick

ASSUME ActionAssumption ==
    /\ Procs # {} /\ Motor \subseteq Procs
    /\ Parallel \subseteq Intents
    /\ Intents \subseteq Subjects
    /\ IntentKey \in [Intents -> Keys \cup {NoKey}]
    /\ MaxParallel \in Nat \ {0}

VARIABLES
    stage,     \* [Intents -> Stages]
    home,      \* [Intents -> Procs]: the process that took the intent
    queue,     \* [Procs -> Seq(Intents)]: EpicActionQueue._commands
    known,     \* [Procs -> SUBSET Keys]: _successful_idempotency_keys
    keyFile,   \* idempotency_keys.jsonl
    call,      \* [Procs -> Call]: the submit or resume that blocks the loop
    runs,      \* history: [Keys -> Nat], successful executions of a key
    confRuns,  \* history: [Confs -> Nat], backend calls for a confirmation
    excused    \* history: keys whose replay the executor cannot notice

actionVars == <<stage, home, queue, known, keyFile, call, runs, confRuns, excused>>

Stages == {"new", "queued", "started", "ran", "over"}
\* conf = 0: the call is a submit.
Call == [pc : {"idle", "claim", "execute", "remember"}, conf : 0..MaxConfs,
         key : Keys \cup {NoKey}, now : Nat]
Idle == [pc |-> "idle", conf |-> 0, key |-> NoKey, now |-> 0]

ActionInit ==
    /\ stage = [i \in Intents |-> "new"]
    /\ home = [i \in Intents |-> CHOOSE p \in Procs : TRUE]
    /\ queue = [p \in Procs |-> <<>>]
    /\ known = [p \in Procs |-> {}]
    /\ keyFile = {}
    /\ call = [p \in Procs |-> Idle]
    /\ runs = [k \in Keys |-> 0]
    /\ confRuns = [c \in Confs |-> 0]
    /\ excused = {}

ActionTypeOK ==
    /\ stage \in [Intents -> Stages]
    /\ home \in [Intents -> Procs]
    /\ queue \in [Procs -> Seq(Intents)]
    /\ known \in [Procs -> SUBSET Keys]
    /\ keyFile \subseteq Keys
    /\ call \in [Procs -> Call]
    /\ runs \in [Keys -> Nat]
    /\ confRuns \in [Confs -> Nat]
    /\ excused \subseteq Keys

InFlight(p) == {i \in Intents : home[i] = p /\ stage[i] \in {"started", "ran"}}
UnderWay(k) ==
    \/ \E i \in Intents : IntentKey[i] = k /\ stage[i] \in {"queued", "started", "ran"}
    \/ \E p \in Procs : call[p].key = k
\* What a process cannot know when it admits key k: an execution that is not
\* remembered yet, or one that another process remembered.
Excuse(p, k) ==
    IF UnderWay(k) \/ \E q \in Procs \ {p} : k \in known[q] THEN {k} \cap Keys ELSE {}

Ran(k) == IF k \in Keys THEN [runs EXCEPT ![k] = @ + 1] ELSE runs

----------------------------------------------------------------------------
\* submit

\* A key that is known, a denial and a refused permission change nothing.
SubmitAsks(p, i) ==
    /\ call[p].pc = "idle" /\ stage[i] = "new"
    /\ IntentKey[i] \notin known[p]
    /\ Asked(Question("action", i, IntentKey[i], Nobody))
    /\ stage' = [stage EXCEPT ![i] = "over"]
    /\ UNCHANGED <<clock, faults, home, queue, known, keyFile, call, runs, confRuns, excused>>

\* _enqueue_motor_command, or the execution inside submit.
SubmitAllowed(p, i) ==
    /\ call[p].pc = "idle" /\ stage[i] = "new"
    /\ IntentKey[i] \notin known[p]
    /\ home' = [home EXCEPT ![i] = p]
    /\ excused' = excused \cup Excuse(p, IntentKey[i])
    /\ IF p \in Motor
         THEN /\ stage' = [stage EXCEPT ![i] = "queued"]
              /\ queue' = [queue EXCEPT ![p] = Append(@, i)]
              /\ UNCHANGED call
         ELSE /\ stage' = [stage EXCEPT ![i] = "over"]
              /\ call' = [call EXCEPT ![p] = [Idle EXCEPT !.pc = "execute",
                                                          !.key = IntentKey[i]]]
              /\ UNCHANGED queue
    /\ UNCHANGED <<conf, clock, faults, known, keyFile, runs, confRuns>>

----------------------------------------------------------------------------
\* The motor's tick.

\* dequeue_ready: in the order of the queue, up to the limit, one serial command
\* at most but parallel ones beside it; the commands it passes over stay.
DequeueReady(q) ==
    LET scan[n \in 0..Len(q)] ==
          IF n = 0 THEN [ready |-> {}, left |-> <<>>]
          ELSE LET s == scan[n - 1]
               IN  IF \/ Cardinality(s.ready) >= MaxParallel
                      \/ q[n] \notin Parallel /\ s.ready \ Parallel # {}
                     THEN [ready |-> s.ready, left |-> Append(s.left, q[n])]
                     ELSE [ready |-> s.ready \cup {q[n]}, left |-> s.left]
    IN  scan[Len(q)]

\* Mutant: the tick does not wait for the commands of the tick before.
TickOverlaps(p) ==
    /\ call[p].pc = "idle" /\ queue[p] # <<>>
    /\ LET d == DequeueReady(queue[p])
       IN  /\ stage' = [i \in Intents |-> IF i \in d.ready THEN "started" ELSE stage[i]]
           /\ queue' = [queue EXCEPT ![p] = d.left]
    /\ UNCHANGED <<conf, clock, faults, home, known, keyFile, call, runs, confRuns, excused>>

TickStarts(p) ==
    /\ call[p].pc = "idle" /\ queue[p] # <<>>
    /\ InFlight(p) = {}
    /\ LET d == DequeueReady(queue[p])
       IN  /\ stage' = [i \in Intents |-> IF i \in d.ready THEN "started" ELSE stage[i]]
           /\ queue' = [queue EXCEPT ![p] = d.left]
    /\ UNCHANGED <<conf, clock, faults, home, known, keyFile, call, runs, confRuns, excused>>

\* _execute_allowed in the command's thread.
BackendRuns(i) ==
    /\ stage[i] = "started"
    /\ \/ stage' = [stage EXCEPT ![i] = "ran"] /\ runs' = Ran(IntentKey[i])
       \/ stage' = [stage EXCEPT ![i] = "over"] /\ UNCHANGED runs
    /\ UNCHANGED <<conf, clock, faults, home, queue, known, keyFile, call, confRuns, excused>>

\* _remember_successful_idempotency; a failed put is only logged.
Remember(p, k) ==
    IF k \in Keys \ known[p]
      THEN /\ known' = [known EXCEPT ![p] = @ \cup {k}]
           /\ \/ keyFile' = keyFile \cup {k} /\ UNCHANGED <<faults, excused>>
              \/ Fault /\ excused' = excused \cup {k} /\ UNCHANGED keyFile
      ELSE UNCHANGED <<known, keyFile, faults, excused>>

\* Mutant: the dispatch of a tick does not remember the key.
DispatchForgets(i) ==
    /\ stage[i] = "ran" /\ call[home[i]].pc = "idle"
    /\ stage' = [stage EXCEPT ![i] = "over"]
    /\ UNCHANGED <<conf, clock, faults, home, queue, known, keyFile, call, runs, confRuns, excused>>

Dispatched(i) ==
    /\ stage[i] = "ran" /\ call[home[i]].pc = "idle"
    /\ Remember(home[i], IntentKey[i])
    /\ stage' = [stage EXCEPT ![i] = "over"]
    /\ UNCHANGED <<conf, clock, home, queue, call, runs, confRuns>>

----------------------------------------------------------------------------
\* resume_confirmed

\* Up to the claim.  The time of the whole call is that of its start.
ResumeLooks(p, c, reply) ==
    /\ call[p].pc = "idle" /\ conf[c].status # "none"
    /\ conf' = IF conf[c].kind = "action" /\ Pending(c)
                 THEN Resolved(c, reply, Nobody) ELSE ExpireOne(c)
    /\ \/ /\ conf'[c].kind = "action"
          /\ conf'[c].status = "confirmed_once"
          /\ ~conf'[c].consumed
          /\ conf[c].key \notin known[p]
          /\ call' = [call EXCEPT ![p] = [pc |-> "claim", conf |-> c,
                                          key |-> conf[c].key, now |-> clock]]
          /\ excused' = excused \cup Excuse(p, conf[c].key)
       \/ UNCHANGED <<call, excused>>
    /\ UNCHANGED <<clock, faults, stage, home, queue, known, keyFile, runs, confRuns>>

ResumeClaims(p) ==
    LET c == call[p].conf now == call[p].now
    IN  /\ call[p].pc = "claim"
        /\ conf' = Claimed(c, now)
        /\ call' = IF Claimable(c, now) THEN [call EXCEPT ![p].pc = "execute"]
                                        ELSE [call EXCEPT ![p] = Idle]
        /\ UNCHANGED <<clock, faults, stage, home, queue, known, keyFile, runs, confRuns, excused>>

\* _execute_allowed inside submit or resume_confirmed.
CallExecutes(p) ==
    LET c == call[p].conf
    IN  /\ call[p].pc = "execute"
        /\ confRuns' = IF c = 0 THEN confRuns ELSE [confRuns EXCEPT ![c] = @ + 1]
        /\ \/ call' = [call EXCEPT ![p].pc = "remember"] /\ runs' = Ran(call[p].key)
           \/ call' = [call EXCEPT ![p] = Idle] /\ UNCHANGED runs
        /\ UNCHANGED <<conf, clock, faults, stage, home, queue, known, keyFile, excused>>

CallRemembers(p) ==
    /\ call[p].pc = "remember"
    /\ Remember(p, call[p].key)
    /\ call' = [call EXCEPT ![p] = Idle]
    /\ UNCHANGED <<conf, clock, stage, home, queue, runs, confRuns>>

\* The process dies with its queue and comes back with the keys of the file.
Crash(p) ==
    LET mine == {i \in Intents : home[i] = p /\ stage[i] \in {"queued", "started", "ran"}}
    IN  /\ Fault
        /\ excused' = excused \cup (Keys \cap ({call[p].key} \cup
                                    {IntentKey[i] : i \in mine}))
        /\ stage' = [i \in Intents |-> IF i \in mine THEN "over" ELSE stage[i]]
        /\ queue' = [queue EXCEPT ![p] = <<>>]
        /\ call' = [call EXCEPT ![p] = Idle]
        /\ known' = [known EXCEPT ![p] = keyFile]
        /\ UNCHANGED <<conf, clock, home, keyFile, runs, confRuns>>

ActionStep ==
    \/ \E p \in Procs, i \in Intents :
         SubmitAsks(p, i) \/ SubmitAllowed(p, i)
    \/ \E p \in Procs : TickStarts(p) \/ ResumeClaims(p) \/ CallExecutes(p)
                        \/ CallRemembers(p) \/ Crash(p)
    \/ \E i \in Intents : BackendRuns(i) \/ Dispatched(i)
    \/ \E p \in Procs, c \in Confs, reply \in Replies : ResumeLooks(p, c, reply)

----------------------------------------------------------------------------
\* Properties.

\* An action whose idempotency key was executed is not executed again, except
\* where no process could have known: the replay was admitted while the first
\* execution was under way or in another process, or a crash or a failed write
\* lost the key (_remember_successful_idempotency, epic_motor.py "rule 12").
OncePerKey == \A k \in Keys : runs[k] > 1 => k \in excused

\* OncePerKey, and its converse: a key counts as executed, in memory or in the
\* file, only after the backend executed it, so that a failed or lost command
\* may be retried.
KeysAccurate ==
    /\ OncePerKey
    /\ \A k \in keyFile \cup UNION {known[p] : p \in Procs} : runs[k] > 0

\* A confirmation leads to at most one backend call, and only when the user
\* confirmed it once; two processes resuming it share one claim.
ConfirmationSpentOnce ==
    \A c \in Confs : /\ confRuns[c] <= 1
                     /\ confRuns[c] = 1 => conf[c].consumed /\ conf[c].said = "confirmed"

\* At most max_parallel_per_tick commands of a process are in their threads,
\* and at most one of them is serial.  That is all: requires_parallel=False does
\* not give a command "the tick to itself" (EpicMotorCommand), the parallel
\* commands behind it are dispatched beside it (dequeue_ready).
MotorBound ==
    \A p \in Procs : /\ Cardinality(InFlight(p)) <= MaxParallel
                     /\ Cardinality(InFlight(p) \ Parallel) <= 1
=============================================================================
