---------------------------- MODULE MCScheduler ----------------------------
(* Small instances of Scheduler: a "day" of three minutes, a "week" of six.  *)
EXTENDS SchedulerInv

MCCadences == {"daily", "weekly"}
MCPeriodLen == [c \in MCCadences |-> IF c = "daily" THEN 3 ELSE 6]

Draft(c, o, k, e) == [cadence |-> c, offset |-> o, kind |-> k, enabled |-> e]

(* Two minutes of the same day, for either kind, and a weekly basis that is    *)
(* switched off.                                                              *)
MCDrafts == {Draft("daily", 1, "log_digest", TRUE), Draft("daily", 2, "energy_report", TRUE),
             Draft("weekly", 1, "log_digest", FALSE)}

(* One schedule value, for the run that stops the scheduler.                   *)
OneDraft == {Draft("daily", 1, "log_digest", TRUE)}
=============================================================================
