-------------------------- MODULE MCSchedulerTiming --------------------------
(* Two tasks of one period, longer than a tick: the second starts late when *)
(* the callback of the first takes long.                                    *)
EXTENDS SchedulerTiming

SlowPriority == <<0, 1>>
SlowPeriod   == <<2, 2>>
SlowEnabled  == <<TRUE, TRUE>>
=============================================================================
