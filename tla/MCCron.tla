------------------------------- MODULE MCCron --------------------------------
(***************************************************************************)
(* Small instances of the cron service: a recurring and a one-shot job.    *)
(***************************************************************************)
EXTENDS CronService

TwoJobs == {"sweep", "remind"}
Kinds == [sweep |-> "every", remind |-> "at"]
OneOrBoth == {{"sweep"}, TwoJobs}

\* A larger instance, four minutes: a job with a cron expression, and one of a fixed
\* period that may be added.
ThreeJobs == {"sweep", "digest", "remind"}
ThreeKinds == [sweep |-> "every", digest |-> "cron", remind |-> "at"]
CronAndOneShot == {{"digest", "remind"}}
===============================================================================
