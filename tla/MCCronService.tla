--------------------------- MODULE MCCronService ---------------------------
(***************************************************************************)
(* CronService with a one-time job that is deleted after its run, a        *)
(* one-time job that is kept, and a recurring system job.                  *)
(***************************************************************************)
EXTENDS CronService

CONSTANTS once, kept, dream

MCJobs == {once, kept, dream}
MCAt == [j \in MCJobs |-> IF j = dream THEN 0 ELSE 2]
=============================================================================
