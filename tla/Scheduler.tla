------------------------------ MODULE Scheduler ------------------------------
(***************************************************************************)
(* The cooperative task scheduler shared by the firmware roles:            *)
(* core/runtime/runtime_scheduler.c.  The main loop runs passes over a     *)
(* fixed task table; when preemptive dispatch is enabled, timer or         *)
(* interrupt hooks run passes of their own over the urgent tasks, at any   *)
(* instruction of the pass they interrupt.                                 *)
(*                                                                         *)
(* Level 0 is the main loop and level l > 0 a hook that only a higher      *)
(* level can interrupt.  Every level that is in a pass has a program       *)
(* counter and the locals of that pass; only the highest such level runs.  *)
(* One action is one access to memory that another level reads or writes.  *)
(***************************************************************************)
EXTENDS Integers

CONSTANTS
  TaskCount,          \* records in the task table
  HookLevels,         \* interrupt levels that run preemptive passes
  Priority,           \* of each task, lower is more urgent
  Period,             \* of each task, in milliseconds
  Enabled,            \* the enabled field of each task, never written
  PreemptiveEnabled,  \* preemptive_dispatch_enabled
  Ceiling,            \* preemptive_priority_ceiling
  LowestPriority,     \* 255 in the code
  Half,               \* half the range of the millisecond counter, 2^31
  MaxPass,            \* bound: milliseconds from the sample of a pass to its end
  MaxLate             \* bound: milliseconds a task waits, once due, for a pass

Task   == 1..TaskCount
Level  == 0..HookLevels
Clock  == 0..(2 * Half - 1)
Prio   == 0..LowestPriority

ASSUME TaskCountAssumption == TaskCount \in Nat \ {0}
ASSUME HookLevelsAssumption == HookLevels \in Nat
ASSUME PriorityAssumption ==
  LowestPriority \in Nat /\ Priority \in [Task -> Prio] /\ Ceiling \in Prio
ASSUME FlagAssumption == Enabled \in [Task -> BOOLEAN] /\ PreemptiveEnabled \in BOOLEAN
\* Wrap-safe comparison needs a period and the wait for a pass to come to less
\* than half the range of the counter: 24 days.
ASSUME TimeAssumption ==
  /\ Half \in Nat \ {0} /\ MaxLate \in Nat
  /\ Period \in [Task -> Nat]
  /\ \A t \in Task : MaxLate + Period[t] < Half
  /\ MaxPass \in 0..MaxLate

VARIABLES
  now,             \* get_monotonic_milliseconds()
  nextRun,         \* next_run_milliseconds of each task
  running,         \* running flag of each task
  active,          \* active_callback
  activePriority,  \* active_priority
  pc,              \* where each level is in its pass
  sample,          \* now_milliseconds, the clock as the pass began
  pri,             \* the outer loop variable, priority
  idx,             \* the inner loop variable, task_index
  savedActive,     \* previous_active_callback
  savedPriority    \* previous_active_priority

scheduler == <<running, active, activePriority>>
loop      == <<sample, pri, idx>>
saved     == <<savedActive, savedPriority>>
vars      == <<now, nextRun, scheduler, pc, loop, saved>>

-----------------------------------------------------------------------------
(* The predicates of the scheduler.  An operator whose name tells of a slip *)
(* (Unsigned, Forgotten, ...) is a wrong variant of the definition after it, *)
(* kept to show which property that slip would break.                       *)

Since(t1, t2) == (t1 - t2) % (2 * Half)

TimeHasArrivedUnsigned(t, scheduled) == t >= scheduled
TimeHasArrived(t, scheduled) == Since(t, scheduled) < Half

TaskIsPreemptive(t) == PreemptiveEnabled /\ Priority[t] <= Ceiling

PriorityCanRunNow(p) == ~active \/ p < activePriority

\* The conditions under which a pass of level l does not skip task t.
ReadyIgnoringContext(l, t) ==
  /\ Enabled[t] /\ ~running[t] /\ Priority[t] = pri[l]
  /\ TimeHasArrived(sample[l], nextRun[t])
Ready(l, t) ==
  /\ TaskIsPreemptive(t) = (l # 0)
  /\ ReadyIgnoringContext(l, t)

-----------------------------------------------------------------------------
(* Steps.  A level runs while it is in a pass and no higher level is.      *)

Top(l) == pc[l] # "idle" /\ \A k \in Level : k > l => pc[k] = "idle"

Goto(l, from, to) == Top(l) /\ pc[l] = from /\ pc' = [pc EXCEPT ![l] = to]

\* The main loop calls a pass, or a hook fires.  A hook whose scheduler has
\* preemptive dispatch disabled returns at once.
BeginPass(l) ==
  /\ \A k \in Level : k >= l => pc[k] = "idle"
  /\ l # 0 => PreemptiveEnabled
  /\ pc' = [pc EXCEPT ![l] = "priority"]
  /\ sample' = [sample EXCEPT ![l] = now]
  /\ UNCHANGED <<now, nextRun, scheduler, pri, idx, saved>>

EnterPriority(l) ==
  /\ Goto(l, "priority", "task")
  /\ pri[l] <= LowestPriority /\ PriorityCanRunNow(pri[l])
  /\ idx' = [idx EXCEPT ![l] = 1]
  /\ UNCHANGED <<now, nextRun, scheduler, sample, pri, saved>>

SkipPriority(l) ==
  /\ Goto(l, "priority", "priority")
  /\ pri[l] <= LowestPriority /\ ~PriorityCanRunNow(pri[l])
  /\ pri' = [pri EXCEPT ![l] = @ + 1]
  /\ UNCHANGED <<now, nextRun, scheduler, sample, idx, saved>>

EndPass(l) ==
  /\ Goto(l, "priority", "idle")
  /\ pri[l] > LowestPriority
  /\ sample' = [sample EXCEPT ![l] = 0]
  /\ pri' = [pri EXCEPT ![l] = 0]
  /\ UNCHANGED <<now, nextRun, scheduler, idx, saved>>

\* The checks of one task read its flags and its next run time.  A hook that
\* came between these reads has finished, so it might as well have come before
\* them: they are one step.
SkipTask(l) ==
  /\ Goto(l, "task", "task")
  /\ idx[l] <= TaskCount /\ ~Ready(l, idx[l])
  /\ idx' = [idx EXCEPT ![l] = @ + 1]
  /\ UNCHANGED <<now, nextRun, scheduler, sample, pri, saved>>

SelectTask(l) ==
  /\ Goto(l, "task", "reschedule")
  /\ idx[l] <= TaskCount /\ Ready(l, idx[l])
  /\ UNCHANGED <<now, nextRun, scheduler, loop, saved>>

EndTasks(l) ==
  /\ Goto(l, "task", "priority")
  /\ idx[l] > TaskCount
  /\ pri' = [pri EXCEPT ![l] = @ + 1]
  /\ idx' = [idx EXCEPT ![l] = 1]
  /\ UNCHANGED <<now, nextRun, scheduler, sample, saved>>

RescheduleUnwrapped(l) ==
  /\ Goto(l, "reschedule", "activate")
  /\ nextRun' = [nextRun EXCEPT ![idx[l]] = sample[l] + Period[idx[l]]]
  /\ UNCHANGED <<now, scheduler, loop, saved>>
Reschedule(l) ==
  /\ Goto(l, "reschedule", "activate")
  /\ nextRun' = [nextRun EXCEPT ![idx[l]] = (sample[l] + Period[idx[l]]) % (2 * Half)]
  /\ UNCHANGED <<now, scheduler, loop, saved>>

(* runtime_scheduler_run_task: its stores, in order, around the callback.  *)

Activate(l) ==
  /\ Goto(l, "activate", "prioritise")
  /\ savedActive' = [savedActive EXCEPT ![l] = active]
  /\ savedPriority' = [savedPriority EXCEPT ![l] = activePriority]
  /\ active' = TRUE
  /\ UNCHANGED <<now, nextRun, running, activePriority, loop>>

PrioritiseForgotten(l) ==
  /\ Goto(l, "prioritise", "mark")
  /\ UNCHANGED <<now, nextRun, scheduler, loop, saved>>
Prioritise(l) ==
  /\ Goto(l, "prioritise", "mark")
  /\ activePriority' = Priority[idx[l]]
  /\ UNCHANGED <<now, nextRun, running, active, loop, saved>>

StartCallback(l) ==
  /\ Goto(l, "mark", "callback")
  /\ running' = [running EXCEPT ![idx[l]] = TRUE]
  /\ UNCHANGED <<now, nextRun, active, activePriority, loop, saved>>

EndCallbackStillRunning(l) ==
  /\ Goto(l, "callback", "deprioritise")
  /\ UNCHANGED <<now, nextRun, scheduler, loop, saved>>
EndCallback(l) ==
  /\ Goto(l, "callback", "deprioritise")
  /\ running' = [running EXCEPT ![idx[l]] = FALSE]
  /\ UNCHANGED <<now, nextRun, active, activePriority, loop, saved>>

DeprioritiseToLowest(l) ==
  /\ Goto(l, "deprioritise", "deactivate")
  /\ activePriority' = LowestPriority
  /\ UNCHANGED <<now, nextRun, running, active, loop, saved>>
Deprioritise(l) ==
  /\ Goto(l, "deprioritise", "deactivate")
  /\ activePriority' = savedPriority[l]
  /\ UNCHANGED <<now, nextRun, running, active, loop, saved>>

Deactivate(l) ==
  /\ Goto(l, "deactivate", "task")
  /\ active' = savedActive[l]
  /\ idx' = [idx EXCEPT ![l] = @ + 1]
  /\ savedActive' = [savedActive EXCEPT ![l] = FALSE]
  /\ savedPriority' = [savedPriority EXCEPT ![l] = 0]
  /\ UNCHANGED <<now, nextRun, running, activePriority, sample, pri>>

\* The millisecond counter advances, inside callbacks and between passes.  The
\* code relies on passes, and the waits for them, being short beside the range
\* of the counter: MaxPass and MaxLate bound them here.
Tick ==
  /\ \A l \in Level : pc[l] # "idle" => Since(now, sample[l]) < MaxPass
  /\ \A t \in Task : Enabled[t] => Since(now, nextRun[t]) \notin MaxLate..(Half - 1)
  /\ now' = (now + 1) % (2 * Half)
  /\ UNCHANGED <<nextRun, scheduler, pc, loop, saved>>

-----------------------------------------------------------------------------
\* runtime_scheduler_initialize; a local out of scope has the value given here.
Init ==
  /\ now \in Clock
  /\ nextRun = [t \in Task |-> now]
  /\ running = [t \in Task |-> FALSE]
  /\ active = FALSE
  /\ activePriority = LowestPriority
  /\ pc = [l \in Level |-> "idle"]
  /\ sample = [l \in Level |-> 0]
  /\ pri = [l \in Level |-> 0]
  /\ idx = [l \in Level |-> 1]
  /\ savedActive = [l \in Level |-> FALSE]
  /\ savedPriority = [l \in Level |-> 0]

LevelStep(l) ==
  \/ BeginPass(l) \/ EndPass(l)
  \/ EnterPriority(l) \/ SkipPriority(l)
  \/ SkipTask(l) \/ SelectTask(l) \/ EndTasks(l)
  \/ Reschedule(l)
  \/ Activate(l) \/ Prioritise(l) \/ StartCallback(l)
  \/ EndCallback(l) \/ Deprioritise(l) \/ Deactivate(l)

Next == Tick \/ \E l \in Level : LevelStep(l)

Spec == Init /\ [][Next]_vars

\* The counter keeps counting, hooks keep firing and finish, and they leave the
\* main loop time to make progress.
FairSpec ==
  /\ Spec
  /\ WF_vars(Tick)
  /\ \A l \in Level : SF_vars(LevelStep(l))

-----------------------------------------------------------------------------
(* Properties.                                                             *)

Steps == {"idle", "priority", "task", "reschedule", "activate", "prioritise",
          "mark", "callback", "deprioritise", "deactivate"}

\* Every variable keeps its type: no level loses its place in the bookkeeping of
\* runtime_scheduler_run_task and a next run time wraps with the counter.
TypeOK ==
  /\ now \in Clock
  /\ nextRun \in [Task -> Clock]
  /\ running \in [Task -> BOOLEAN]
  /\ active \in BOOLEAN
  /\ activePriority \in Prio
  /\ pc \in [Level -> Steps]
  /\ sample \in [Level -> Clock]
  /\ pri \in [Level -> 0..(LowestPriority + 1)]
  /\ idx \in [Level -> 1..(TaskCount + 1)]
  /\ savedActive \in [Level -> BOOLEAN]
  /\ savedPriority \in [Level -> Prio]

InCallback(l) == pc[l] = "callback"

\* A hook "will not interrupt an equal or higher-priority callback that is
\* already active": of two callbacks in progress the interrupting one is
\* strictly more urgent, whatever the number of hooks and wherever they land in
\* the bookkeeping around a callback.
StrictPreemption ==
  \A k, l \in Level :
    k < l /\ InCallback(k) /\ InCallback(l) => Priority[idx[l]] < Priority[idx[k]]

\* "This prevents a periodic task from re-entering itself": a task is in
\* progress at one level at most, and its running flag says exactly that.
NoReentry ==
  /\ \A k, l \in Level : InCallback(k) /\ InCallback(l) /\ idx[k] = idx[l] => k = l
  /\ \A t \in Task : running[t] <=> \E l \in Level : InCallback(l) /\ idx[l] = t

Deciding(l) == Top(l) /\ pc[l] \in {"priority", "task", "reschedule", "activate"}

\* The scheduler's record of the active callback is no less urgent than any callback
\* that is interrupted: at every scheduling decision a hook or the main loop sees a
\* priority that keeps each of them from being overtaken, or no callback at all.
ActiveMatchesInterrupted ==
  \A l \in Level : Deciding(l) =>
    \/ /\ ~active /\ activePriority = LowestPriority
       /\ \A k \in Level : ~InCallback(k)
    \/ /\ active
       /\ \A k \in Level : InCallback(k) => activePriority <= Priority[idx[k]]

Due(l, t) == Since(sample[l], nextRun[t]) < Half

\* Ready tasks are searched by priority: when a pass has come to a priority, no
\* periodic task of its context that is more urgent, may run now and is not
\* running was due when the pass began, also across a wrap of the counter.  At
\* the end of the pass this is every task of the context.
ServedInPriorityOrder ==
  \A l \in Level : Top(l) /\ pc[l] = "priority" =>
    \A t \in Task :
      /\ Enabled[t] /\ ~running[t] /\ TaskIsPreemptive(t) = (l # 0)
      /\ Priority[t] < pri[l] /\ PriorityCanRunNow(Priority[t]) /\ Period[t] > 0
      => ~Due(l, t)

\* The check that a task is due and the store that reschedules it are two steps.
\* Preemptive tasks run in hooks alone and the others in the main loop alone, so
\* with one hook nothing comes between them that runs the task: it is still due
\* when it is rescheduled, and is not run twice for one due time.
StillDue == \A l \in Level : pc[l] = "reschedule" => Due(l, idx[l])

InProgress(t) == \E l \in Level : InCallback(l) /\ idx[l] = t

\* Every enabled task keeps being run, however often hooks interrupt the main
\* loop and wherever the counter wraps.
EveryTaskRuns == \A t \in Task : Enabled[t] => []<>InProgress(t)
=============================================================================
