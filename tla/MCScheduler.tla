----------------------------- MODULE MCScheduler -----------------------------
(* Task tables for Scheduler: one main-loop pass and the hooks above it.   *)
EXTENDS Scheduler

\* Two hooks, one urgent task each and one for the main loop: the urgent tasks
\* have different priorities, so the second hook can interrupt the first.
NestedPriority == <<1, 0, 2>>
NestedPeriod   == <<1, 1, 1>>
NestedEnabled  == <<TRUE, TRUE, TRUE>>

\* One hook with one urgent task above the two tasks of the display, one
\* periodic and one that runs in every pass.
OneHookPriority == <<0, 1, 2>>
OneHookPeriod   == <<1, 1, 0>>
OneHookEnabled  == <<TRUE, TRUE, TRUE>>
=============================================================================
