---------------------------- MODULE CronService ----------------------------
(***************************************************************************)
(* The scheduler of cron/service.py: jobs in memory and in jobs.json, the  *)
(* action log through which other processes (the CLI) change them, the     *)
(* timer task and the execution of due jobs.                               *)
(*                                                                         *)
(* Every call runs without an await except the execution of jobs, so that  *)
(* calls come between the steps of a timer tick.  Each call loads the      *)
(* store first: the file with the log merged in, or, while _timer_active   *)
(* is set, what is in memory.  Each change arms the timer anew, which      *)
(* cancels the timer task, the executing one included.                     *)
(*                                                                         *)
(* A cancelled tick goes on until the cancellation reaches the job's turn, *)
(* and for good if the audit of a tool call there takes it for a failure   *)
(* of the tool (agent/runner.py).  The new timer may fire beside it.       *)
(*                                                                         *)
(* Left out: run_job, which nothing in src/ calls, changes of a job's      *)
(* schedule, and jobs.json being corrupted from outside.                   *)
(***************************************************************************)
EXTENDS Naturals, Sequences, FiniteSets, SequencesExt

CONSTANTS
    Jobs,
    SystemJobs,  \* payload.kind = "system_event"
    At,          \* [Jobs -> Nat]: at_ms of a one-time job, 0 if recurring
    Period,      \* every_ms of the recurring jobs
    DeleteAfter, \* delete_after_run
    MaxSleep,    \* max_sleep_ms
    MaxTime,     \* bound: the clock
    MaxOps,      \* bound: calls and external actions
    MaxCrashes,  \* bound: crashes
    MaxTicks,    \* bound: ticks that execute jobs at one time
    MaxDeaf      \* bound: swallowed cancellations

ASSUME CronAssumption ==
    /\ SystemJobs \cup DeleteAfter \subseteq Jobs
    /\ At \in [Jobs -> Nat]
    /\ {Period, MaxSleep, MaxTime} \subseteq Nat \ {0}
    /\ {MaxOps, MaxCrashes, MaxTicks, MaxDeaf} \subseteq Nat

VARIABLES
    now,
    mem,        \* self._store: a function from the jobs that are there
    disk,       \* jobs.json
    log,        \* action.jsonl
    running,    \* self._running
    timer,      \* when the sleeping timer task wakes up, 0 if there is none
    has,        \* [Ticks -> the <<job, due time>> it has yet to complete]
    task,       \* the executing tick that is self._timer_task, if any
    cancelled,  \* the executing ticks whose cancellation is under way
    detached,   \* those whose store has been replaced by a later load
    active,     \* self._timer_active
    ext,        \* what another process has read and is about to append
    added, removed,  \* history: jobs that were added, removed by a call
    runs,       \* history: <<job, due time>> of the executions that completed
    again,      \* history: jobs that completed twice for one due time
    stale,      \* history: jobs changed without sight of another process's change
    beside,     \* history: jobs of ticks that executed beside another one
    torn,       \* history: a crash came while the log was merged
    ops, crashes, deaf

tick == <<has, task, cancelled, detached, active>>
history == <<added, removed, runs, again, stale, beside, torn>>
vars == <<now, mem, disk, log, running, timer, tick, ext, history, ops, crashes, deaf>>

Ticks == 1..MaxTicks

Times == Nat
Job == [enabled : BOOLEAN, next : Times]
IsStore(s) == DOMAIN s \subseteq Jobs /\ s \in [DOMAIN s -> Job]
Entry == [job : Jobs, rec : Job, del : BOOLEAN]

\* The ticks that are executing jobs, and the jobs they have.
Executing == {i \in Ticks : has[i] # {}}
JobsOf(i) == {r[1] : r \in has[i]}

TypeOK ==
    /\ now \in 1..MaxTime
    /\ IsStore(mem) /\ IsStore(disk)
    /\ log \in Seq(Entry)
    /\ running \in BOOLEAN
    /\ timer \in 0..MaxTime + MaxSleep
    /\ has \in [Ticks -> SUBSET (Jobs \X Times)]
    /\ task \cup cancelled \cup detached \subseteq Executing
    /\ task \cap cancelled = {} /\ Cardinality(task) <= 1
    /\ active \in BOOLEAN /\ (active => Executing # {})
    /\ ext \in Seq(Entry) /\ Len(ext) <= 1
    /\ {added, removed, again, stale, beside} \subseteq SUBSET Jobs
    /\ runs \subseteq Jobs \X Times
    /\ torn \in BOOLEAN
    /\ ops \in 0..MaxOps /\ crashes \in 0..MaxCrashes /\ deaf \in 0..MaxDeaf

Empty == [j \in {} |-> j]
Without(s, j) == [k \in DOMAIN s \ {j} |-> s[k]]
With(s, j, r) == [k \in DOMAIN s \cup {j} |-> IF k = j THEN r ELSE s[k]]

Init ==
    /\ now = 1
    /\ mem = Empty /\ disk = Empty /\ log = <<>>
    /\ running = FALSE /\ timer = 0
    /\ has = [i \in Ticks |-> {}]
    /\ task = {} /\ cancelled = {} /\ detached = {} /\ active = FALSE
    /\ ext = <<>>
    /\ added = {} /\ removed = {} /\ runs = {} /\ again = {} /\ stale = {}
    /\ beside = {} /\ torn = FALSE
    /\ ops = 0 /\ crashes = 0 /\ deaf = 0

-----------------------------------------------------------------------------
(* Schedules, loading, saving, the timer *)

\* _compute_next_run; 0 stands for None.
NextRun(j) ==
    IF At[j] = 0 THEN now + Period ELSE IF At[j] > now THEN At[j] ELSE 0

\* _merge_action: one line of the log.
Applied(s, a) == IF a.del THEN Without(s, a.job) ELSE With(s, a.job, a.rec)
Replay(s, es) ==
    LET merged[n \in 0..Len(es)] ==
          IF n = 0 THEN s ELSE Applied(merged[n - 1], es[n])
    IN  merged[Len(es)]
Loaded == Replay(disk, log)

\* Mutant: the store is loaded anew in the middle of a tick.
StoreReloaded == Loaded

\* Mutant: the store is loaded once.
StoreOfMemory == mem

\* _load_store as the calls see it.
Store == IF active THEN mem ELSE Loaded

\* A load outside _timer_active makes new objects of all jobs: whoever is
\* executing one has an object that is no longer in the store.
Loads == detached' = IF active THEN detached ELSE Executing

\* Mutant: the log is merged but never emptied.
LogAfterLoadNever == log

\* The removal of a job that is not there raises inside the merge and does not
\* count as a change.
Changes == \E i \in DOMAIN log :
    log[i].del => log[i].job \in DOMAIN Replay(disk, SubSeq(log, 1, i - 1))

\* What a running service leaves of the log when it loads: it writes the merged
\* store and empties the log, if anything changed.
MergedLog == IF Changes THEN <<>> ELSE log

\* _load_store does so unless _timer_active is set or the service is stopped.
LogAfterLoad == IF active \/ ~running THEN log ELSE MergedLog

\* _get_next_wake_ms and the delay of _arm_timer.
WakeAt(s) ==
    LET times == {s[j].next : j \in {k \in DOMAIN s : s[k].enabled /\ s[k].next > 0}}
        latest == now + MaxSleep
        first == CHOOSE t \in times \cup {latest} : \A u \in times \cup {latest} : t <= u
    IN  IF first < now THEN now ELSE first

\* The timer task is cancelled.  One that sleeps is gone; one that executes jobs
\* goes on until the cancellation is delivered.
CancelTimerTask == cancelled' = cancelled \cup task /\ task' = {}

\* Mutant: a job is cancelled, but no timer takes its place.
ArmUnlessExecuting(s) ==
    /\ timer' = IF task # {} THEN 0 ELSE WakeAt(s)
    /\ CancelTimerTask

\* _arm_timer, by anything but the timer task itself.
Arm(s) ==
    /\ timer' = WakeAt(s)
    /\ CancelTimerTask

-----------------------------------------------------------------------------
(* start, stop, crash *)

Recomputed(s) ==
    [j \in DOMAIN s |-> IF s[j].enabled THEN [s[j] EXCEPT !.next = NextRun(j)] ELSE s[j]]

\* start: load, recompute every next run, save, arm.
Start ==
    /\ ~running /\ Executing = {}
    /\ running' = TRUE
    /\ mem' = Recomputed(Loaded) /\ disk' = mem' /\ log' = MergedLog
    /\ timer' = WakeAt(mem')
    /\ UNCHANGED <<now, tick, ext, history, ops, crashes, deaf>>

\* stop: cancel the timer task.
Stop ==
    /\ running /\ ops < MaxOps
    /\ running' = FALSE
    /\ timer' = 0
    /\ CancelTimerTask
    /\ ops' = ops + 1
    /\ UNCHANGED <<now, mem, disk, log, has, detached, active, ext, history, crashes, deaf>>

\* The process dies, perhaps just after _merge_action has emptied the log and
\* before it saves the store.
Crash ==
    /\ crashes < MaxCrashes
    /\ crashes' = crashes + 1
    /\ mem' = Empty /\ running' = FALSE /\ timer' = 0
    /\ has' = [i \in Ticks |-> {}]
    /\ task' = {} /\ cancelled' = {} /\ detached' = {} /\ active' = FALSE
    /\ \/ UNCHANGED <<log, torn>>
       \/ /\ running /\ ~active /\ Changes
          /\ log' = <<>> /\ torn' = TRUE
    /\ UNCHANGED <<now, disk, ext, added, removed, runs, again, stale, beside, ops, deaf>>

-----------------------------------------------------------------------------
(* The calls *)

CountOp == ops < MaxOps /\ ops' = ops + 1

\* A job that was never there.
Fresh(j) ==
    /\ j \notin DOMAIN mem \cup DOMAIN disk \cup removed \cup SystemJobs
    /\ \A i \in DOMAIN log : log[i].job # j
    /\ \A i \in DOMAIN ext : ext[i].job # j
    /\ \A r \in runs : r[1] # j

\* A changed store is saved and the timer armed, or the change is logged.
Commit(s, entry) ==
    /\ mem' = s
    /\ IF running THEN /\ disk' = s /\ log' = LogAfterLoad /\ Arm(s)
                  ELSE /\ log' = Append(log, entry)
                       /\ UNCHANGED <<disk, timer, task, cancelled>>
    /\ UNCHANGED <<has, active>>

New(j) == [enabled |-> TRUE, next |-> NextRun(j)]
Removal(j) == [job |-> j, rec |-> [enabled |-> FALSE, next |-> 0], del |-> TRUE]
Change(j, r) == [job |-> j, rec |-> r, del |-> FALSE]

\* add_job.  A service that does not run does not even load its store.
AddJob(j) ==
    /\ CountOp
    /\ Fresh(j)
    /\ Commit(IF running THEN With(Store, j, New(j)) ELSE mem, Change(j, New(j)))
    /\ IF running THEN Loads ELSE UNCHANGED detached
    /\ added' = added \cup {j}
    /\ UNCHANGED <<now, running, ext, removed, runs, again, stale, beside, torn, crashes,
                   deaf>>

\* register_system_job: saved at once, whether or not the service runs; the
\* gateway does so before it starts the service.
RegisterSystemJob(j) ==
    /\ j \in SystemJobs
    /\ ~running /\ Executing = {}
    /\ mem' = With(Loaded, j, New(j)) /\ disk' = mem'
    /\ added' = added \cup {j}
    /\ UNCHANGED <<now, log, running, timer, tick, ext, removed, runs, again, stale,
                   beside, torn, ops, crashes, deaf>>

\* History: j changes here while a change made elsewhere is under way, or among
\* lines not yet merged, so that merging it will undo what is done now.
Overtaken(j, lines) ==
    IF \E a \in ToSet(ext) \cup ToSet(lines) : a.job = j /\ ~a.del
      THEN stale' = stale \cup {j}
      ELSE UNCHANGED stale

\* remove_job.
RemoveJob(j) ==
    /\ CountOp
    /\ j \in DOMAIN Store \ SystemJobs
    /\ Commit(Without(Store, j), Removal(j)) /\ Loads
    /\ removed' = removed \cup {j}
    /\ Overtaken(j, IF active THEN log ELSE <<>>)
    /\ UNCHANGED <<now, running, ext, added, runs, again, beside, torn, crashes, deaf>>

\* enable_job and update_job.
Revisions(j, r) ==
    {New(j), [enabled |-> FALSE, next |-> 0]} \cup IF r.enabled THEN {} ELSE {r}

ChangeJob(j) ==
    /\ CountOp
    /\ j \in DOMAIN Store
    /\ \E r \in Revisions(j, Store[j]) : Commit(With(Store, j, r), Change(j, r))
    /\ Loads
    /\ stale' = IF j \in removed THEN stale \cup {j} ELSE stale
    /\ UNCHANGED <<now, running, ext, added, removed, runs, again, beside, torn, crashes,
                   deaf>>

\* list_jobs, get_job, status: a load and nothing else.
ListJobs ==
    /\ mem' = Store
    /\ log' = LogAfterLoad
    /\ disk' = IF LogAfterLoad = log THEN disk ELSE mem'
    /\ Loads
    /\ UNCHANGED <<now, running, timer, has, task, cancelled, active, ext, history, ops,
                   crashes, deaf>>

-----------------------------------------------------------------------------
(* The timer task *)

\* The timer task wakes up as tick i: _on_timer up to the first job, or all of
\* it if no job is due.  (At the bound of the clock it wakes up all the same.)
TickFires(i) ==
    /\ timer > 0 /\ (now >= timer \/ now = MaxTime)
    /\ has[i] = {} /\ \A k \in 1..i - 1 : has[k] # {}
    /\ LET js == {j \in DOMAIN Store : Store[j].enabled /\ Store[j].next \in 1..now}
       IN  /\ mem' = Store
           /\ log' = LogAfterLoad
           /\ disk' = IF active /\ js # {} THEN disk ELSE Store
           /\ has' = [has EXCEPT ![i] = {<<j, Store[j].next>> : j \in js}]
           /\ Loads
           /\ active' = (js # {})
           /\ IF js = {} THEN timer' = WakeAt(Store) /\ UNCHANGED task
                         ELSE timer' = 0 /\ task' = {i}
           /\ beside' = IF Executing = {} THEN beside
                        ELSE beside \cup js \cup UNION {JobsOf(k) : k \in Executing}
    /\ UNCHANGED <<now, running, cancelled, ext, added, removed, runs, again, stale, torn,
                   ops, crashes, deaf>>

\* What _execute_job leaves of a job, whether on_job returned or raised.
Executed(s, j) ==
    IF j \notin DOMAIN s THEN s
    ELSE IF j \in DeleteAfter THEN Without(s, j)
    ELSE IF At[j] # 0 THEN With(s, j, [enabled |-> FALSE, next |-> 0])
    ELSE With(s, j, [s[j] EXCEPT !.next = NextRun(j)])

\* A job that is not in the store any more is only deleted there, by its id.
ExecutedApart(s, j) == IF j \in DeleteAfter THEN Without(s, j) ELSE s

\* on_job ends for one of the tick's jobs (their order is left open).  After the
\* last one the store is saved, _timer_active reset and the timer armed.
JobEnds(i, r) ==
    /\ r \in has[i] /\ i \notin cancelled
    /\ has' = [has EXCEPT ![i] = @ \ {r}]
    /\ mem' = IF i \in detached THEN ExecutedApart(mem, r[1]) ELSE Executed(mem, r[1])
    /\ IF has[i] # {r}
         THEN UNCHANGED <<disk, timer, task, cancelled, detached, active>>
         ELSE /\ disk' = mem' /\ timer' = IF running THEN WakeAt(mem') ELSE 0
              /\ cancelled' = cancelled \cup (task \ {i}) /\ task' = {}
              /\ detached' = detached \ {i} /\ active' = FALSE
    /\ runs' = runs \cup {r}
    /\ again' = IF r \in runs THEN again \cup {r[1]} ELSE again
    /\ Overtaken(r[1], log)
    /\ UNCHANGED <<now, log, running, ext, added, removed, beside, torn, ops, crashes, deaf>>

\* CancelledError in on_job is no Exception: nothing is recorded or saved, and
\* the jobs that were to follow are left for the next tick.
JobCancelled(i) ==
    /\ i \in cancelled
    /\ has' = [has EXCEPT ![i] = {}]
    /\ cancelled' = cancelled \ {i} /\ detached' = detached \ {i} /\ active' = FALSE
    /\ UNCHANGED <<now, mem, disk, log, running, timer, task, ext, history, ops, crashes,
                   deaf>>

\* The audit of a tool call in the job's turn takes it for its own failure.
CancelSwallowed(i) ==
    /\ i \in cancelled
    /\ deaf < MaxDeaf /\ deaf' = deaf + 1
    /\ cancelled' = cancelled \ {i}
    /\ UNCHANGED <<now, mem, disk, log, running, timer, has, task, detached, active, ext,
                   history, ops, crashes>>

-----------------------------------------------------------------------------
(* Another process with a CronService of its own, which it does not start *)

ExternalReads ==
    /\ CountOp
    /\ ext = <<>>
    /\ \E j \in Jobs :
         \/ Fresh(j) /\ ext' = <<Change(j, New(j))>>
         \/ j \in DOMAIN Loaded
              /\ \E r \in Revisions(j, Loaded[j]) : ext' = <<Change(j, r)>>
         \/ j \in DOMAIN Loaded \ SystemJobs /\ ext' = <<Removal(j)>>
    /\ UNCHANGED <<now, mem, disk, log, running, timer, tick, history, crashes, deaf>>

ExternalAppends ==
    /\ ext # <<>>
    /\ log' = log \o ext /\ ext' = <<>>
    /\ LET a == ext[1]
       IN  IF a.del THEN removed' = removed \cup {a.job} /\ UNCHANGED added
                    ELSE added' = added \cup {a.job} /\ UNCHANGED removed
    /\ UNCHANGED <<now, mem, disk, running, timer, tick, runs, again, stale, beside, torn,
                   ops, crashes, deaf>>

Clock ==
    /\ now < MaxTime
    /\ now' = now + 1
    /\ UNCHANGED <<mem, disk, log, running, timer, tick, ext, history, ops, crashes, deaf>>

-----------------------------------------------------------------------------
Next ==
    \/ Start \/ Stop \/ Crash
    \/ \E j \in Jobs : \/ AddJob(j) \/ RemoveJob(j) \/ ChangeJob(j)
                      \/ RegisterSystemJob(j)
    \/ ListJobs
    \/ \E i \in Ticks : \/ TickFires(i) \/ JobCancelled(i) \/ CancelSwallowed(i)
                       \/ \E r \in has[i] : JobEnds(i, r)
    \/ ExternalReads \/ ExternalAppends
    \/ Clock

Spec == Init /\ [][Next]_vars

\* Time passes, timers fire, a job ends (a turn has its timeouts) and a
\* cancellation is delivered.
Fairness ==
    /\ WF_vars(Clock)
    /\ \A i \in Ticks : /\ WF_vars(TickFires(i)) /\ WF_vars(JobCancelled(i))
                        /\ WF_vars(\E r \in has[i] : JobEnds(i, r))

FairSpec == Spec /\ Fairness

-----------------------------------------------------------------------------
(* Properties *)

\* No job completes twice for the same due time, whatever is listed, added,
\* stopped, restarted or cancelled while it runs; except for the jobs of ticks
\* that executed beside one another, and for a change made elsewhere without
\* sight of the run, which may bring the old due time back.
OncePerDue == again \subseteq stale \cup beside

\* What _load_store's comment says of itself: while _on_timer is executing (and
\* is not about to end by a cancellation), no load replaces the store.
StoreHeld == detached \subseteq cancelled

\* A job that was added is in the file or the log until it is removed or has
\* run its only time; it can be lost only by a crash in the middle of a merge.
JobKept ==
    \A j \in added \ removed :
      \/ j \in DOMAIN Loaded
      \/ j \in DeleteAfter /\ \E r \in runs : r[1] = j
      \/ torn

\* A removed job comes back only through a change that was made without sight of
\* the removal, in another process or during a tick (or through a crash in the
\* middle of a merge).
RemovedStays == \A j \in removed \ stale : j \in DOMAIN Loaded => torn

\* A due job of a running service is executed: the timer is armed again by
\* whatever cancels it.
Due(j) == running /\ j \in DOMAIN mem /\ mem[j].enabled /\ mem[j].next \in 1..now
DueJobRuns == \A j \in Jobs : Due(j) ~> ~Due(j)

=============================================================================
