--------------------------- MODULE Confirmations ---------------------------
(***************************************************************************)
(* OriginAgent/agent/confirmation.py: the questions put to the user before *)
(* an action is executed (kind "action") or a tool is used (kind "tool"),  *)
(* in one file that all processes of a workspace share under a file lock.  *)
(* An operation of the manager that holds the lock is one step.            *)
(*                                                                         *)
(* The notify_only kind is left out: the executor never asks for it.       *)
(***************************************************************************)
EXTENDS Naturals, FiniteSets, Sequences

CONSTANTS
    MaxConfs,    \* bound: confirmations created
    Subjects,    \* what is asked about: action intents and tool requests
    Keys,        \* idempotency keys
    NoKey,       \* idempotency_key = None
    Actors,      \* who may answer
    Nobody,      \* owner_id or caller_actor_id = None
    AskTTL,      \* time to live of a confirmation
    RetryLimit,  \* 3 in retry_confirmation
    MaxClock,    \* bound: the clock
    MaxFaults    \* bound: crashes and failed writes

ASSUME ConfirmationsAssumption ==
    /\ {MaxConfs, AskTTL, RetryLimit, MaxClock, MaxFaults} \subseteq Nat
    /\ Subjects # {}
    /\ NoKey \notin Keys
    /\ Nobody \notin Actors

VARIABLES
    conf,   \* [Confs -> Confirmation]: pending_confirmations.json
    clock,
    faults

confVars == <<conf, clock, faults>>

\* Identifiers in the order of created_at.
Confs    == 1..MaxConfs
Statuses == {"none", "pending", "confirmed_once", "confirmed_persistent",
             "rejected", "expired"}
Replies  == {"confirmed", "rejected", "persistent", "unclear"}

\* said is history: how the question was answered.
Confirmation ==
    [status : Statuses, kind : {"action", "tool"}, subject : Subjects,
     key : Keys \cup {NoKey}, owner : Actors \cup {Nobody}, expires : Nat,
     consumed : BOOLEAN, retries : Nat, said : Replies \cup {"nothing"}]

Blank == [status |-> "none", kind |-> "action",
          subject |-> CHOOSE s \in Subjects : TRUE, key |-> NoKey,
          owner |-> Nobody, expires |-> 0, consumed |-> FALSE, retries |-> 0,
          said |-> "nothing"]

ConfInit ==
    /\ conf = [c \in Confs |-> Blank]
    /\ clock = 0
    /\ faults = 0

ConfTypeOK ==
    /\ conf \in [Confs -> Confirmation]
    /\ clock \in 0..MaxClock
    /\ faults \in 0..MaxFaults

Expired(c, now) == conf[c].expires <= now
Pending(c)      == conf[c].status = "pending" /\ ~Expired(c, clock)

\* A new question: upsert under a fresh identifier.
Unused == {c \in Confs : conf[c].status = "none"}
NewConf == CHOOSE c \in Unused : \A d \in Unused : c <= d
Question(kind, subject, key, owner) ==
    [Blank EXCEPT !.status = "pending", !.kind = kind, !.subject = subject,
                  !.key = key, !.owner = owner, !.expires = clock + AskTTL]
Asked(q) == Unused # {} /\ conf' = [conf EXCEPT ![NewConf] = q]

\* resolve_user_reply: what it returns ...
Decision(c, reply, caller) ==
    IF conf[c].status = "none" THEN "unclear"
    ELSE IF Expired(c, clock) THEN "expired"
    ELSE IF conf[c].status # "pending" THEN "unclear"
    ELSE IF Nobody \notin {conf[c].owner, caller} /\ caller # conf[c].owner
           THEN "mismatch"
    ELSE reply

\* ... and what it leaves in the file.
Resolved(c, reply, caller) ==
    LET d == Decision(c, reply, caller)
    IN  CASE d = "expired"    -> [conf EXCEPT ![c].status = "expired"]
          [] d = "confirmed"  -> [conf EXCEPT ![c].status = "confirmed_once",
                                              ![c].said = d]
          [] d = "persistent" -> [conf EXCEPT ![c].status = "confirmed_persistent",
                                              ![c].said = d]
          [] d = "rejected"   -> [conf EXCEPT ![c].status = "rejected",
                                              ![c].said = d]
          [] OTHER            -> conf

\* Mutant: the claim does not look at consumed_at.
ClaimableTwice(c, now) ==
    conf[c].kind = "action" /\ conf[c].said = "confirmed" /\ ~Expired(c, now)

\* claim_consumption, at the time its caller gives.
Claimable(c, now) ==
    /\ conf[c].kind = "action"
    /\ conf[c].status = "confirmed_once"
    /\ ~conf[c].consumed
    /\ ~Expired(c, now)

Claimed(c, now) ==
    IF Expired(c, now) THEN [conf EXCEPT ![c].status = "expired"]
    ELSE IF Claimable(c, now) THEN [conf EXCEPT ![c].consumed = TRUE]
    ELSE conf

\* expire_confirmation_if_needed: whatever its status was.
ExpireOne(c) ==
    IF conf[c].status # "none" /\ Expired(c, clock)
      THEN [conf EXCEPT ![c].status = "expired"]
      ELSE conf

\* expire_old, called by every listing of pending confirmations.
WithoutOld ==
    [c \in Confs |-> IF conf[c].status = "pending" /\ Expired(c, clock)
                       THEN [conf[c] EXCEPT !.status = "expired"]
                       ELSE conf[c]]

ListPending ==
    /\ WithoutOld # conf
    /\ conf' = WithoutOld
    /\ UNCHANGED <<clock, faults>>

\* retry_confirmation: the new question has no owner and no idempotency key.
RetryConfirmation(c) ==
    /\ conf[c].status = "expired"
    /\ ~conf[c].consumed
    /\ conf[c].retries < RetryLimit
    /\ Asked([Question(conf[c].kind, conf[c].subject, NoKey, Nobody)
                EXCEPT !.retries = conf[c].retries + 1])
    /\ UNCHANGED <<clock, faults>>

Fault == faults < MaxFaults /\ faults' = faults + 1

Elapse ==
    /\ clock < MaxClock
    /\ clock' = clock + 1
    /\ UNCHANGED <<conf, faults>>

ConfStep == ListPending \/ Elapse \/ \E c \in Confs : RetryConfirmation(c)
=============================================================================
