------------------------------ MODULE Scheduler ------------------------------
(***************************************************************************)
(* Scheduled jobs: App.scheduler_processor, which lists the due jobs,      *)
(* leases and runs them one after another; the same run started by hand    *)
(* (trigger_scheduled_job), which takes no lease; the ScheduledJob rows    *)
(* that operators and the assistant's tools change meanwhile; and the Run  *)
(* and ScheduledJobRun rows a run keeps.                                   *)
(*                                                                         *)
(* Time is abstract: next_fire_at is absent, in the future or due, a lease *)
(* is free, held or expired, and the clock moves one of them at a time.    *)
(* due lists the due jobs by next_fire_at.  A trigger is "recurring"       *)
(* (interval, daily, cron), or a one_shot whose run_at lies "ahead" or has *)
(* "passed".  A run is the code between two awaits at a time.              *)
(***************************************************************************)
EXTENDS Lists, Naturals, Sequences

CONSTANTS
  Jobs,
  Executors,    \* the scheduler, and the callers of trigger_scheduled_job
  OneShots,     \* jobs created as one_shot; an update may change that
  Heartbeat,    \* the job system.heartbeat, or a value outside Jobs
  Unroutable,   \* jobs whose run finds no workspace
  MaxUpdates,   \* bound: updates of the trigger of a job
  MaxRaises,    \* bound: runs that raise at an await
  MaxCrashes    \* bound: how often Core dies

ASSUME SchedulerAssumption ==
  /\ "scheduler" \in Executors
  /\ OneShots \subseteq Jobs
  /\ Unroutable \subseteq Jobs
  /\ Heartbeat \notin OneShots \cup Unroutable
  /\ MaxUpdates \in Nat /\ MaxRaises \in Nat /\ MaxCrashes \in Nat

VARIABLES
  rows,         \* jobs that have a ScheduledJob row
  enabled,      \* enabled[j]
  trigger,      \* trigger[j]
  next,         \* next[j]: where next_fire_at is
  due,          \* the due jobs, earliest next_fire_at first
  lease,        \* lease[j]
  tick,         \* jobs of list_due the tick has still to look at
  job,          \* job[e]: {j} while executor e runs j, else {}
  at,           \* at[e]: the await the run of e is in
  run,          \* run[e]: status of its Run
  jobRun,       \* jobRun[e]: status of its ScheduledJobRun
  message,      \* message[e]: its assistant Message: "none", "ok", "failed"
  version,      \* version[j]: updates of the trigger (history)
  claimed,      \* claimed[j]: version at the last claim (history)
  fired,        \* fired[j]: versions that were marked fired (history)
  left,         \* jobs whose run returned and left a row running (history)
  dropped,      \* one_shots that an update left without a time (history)
  raises,
  crashes

jobVars  == <<rows, enabled, trigger, next, due, lease>>
runVars  == <<job, at, run, jobRun, message>>
histVars == <<version, claimed, fired, left, dropped, raises, crashes>>
vars     == <<jobVars, tick, runVars, histVars>>

Manual    == Executors \ {"scheduler"}
Triggers  == {"recurring", "ahead", "passed"}
Awaits    == {"none", "started", "turn", "told", "delivering", "closing",
              "heartbeat"}

Without(s, j) == Within(s, Jobs \ {j})
Idle(e)       == job[e] = {}
Runs(e, j)    == job[e] = {j}

-----------------------------------------------------------------------------
(* The clock.                                                              *)

\* next_fire_at comes; so does run_at, of a one_shot.
ComesDue(j) ==
  /\ j \in rows
  /\ next[j] = "future"
  /\ next' = [next EXCEPT ![j] = "due"]
  /\ due' = Append(due, j)
  /\ trigger' = [trigger EXCEPT ![j] = IF @ = "ahead" THEN "passed" ELSE @]
  /\ UNCHANGED <<rows, enabled, lease, tick, runVars, histVars>>

LeaseExpires(j) ==
  /\ lease[j] = "held"
  /\ lease' = [lease EXCEPT ![j] = "expired"]
  /\ UNCHANGED <<rows, enabled, trigger, next, due, tick, runVars, histVars>>

-----------------------------------------------------------------------------
(* ScheduledJob rows.                                                      *)

\* Mutant of ComputeNextFireAt: a run_at that has passed comes again.
ComputeNextFireAgain(t) == "future"

\* compute_next_fire_at: a one_shot has none once its run_at has passed.
ComputeNextFireAt(t) == IF t = "passed" THEN "none" ELSE "future"

\* next_fire_at is recomputed.
SetNext(j, t) ==
  /\ next' = [next EXCEPT ![j] = ComputeNextFireAt(t)]
  /\ due' = Without(due, j)

SetEnabled(j) ==
  /\ j \in rows
  /\ enabled' = [enabled EXCEPT ![j] = ~@]
  /\ UNCHANGED <<rows, trigger, next, due, lease, tick, runVars, histVars>>

\* update_job with trigger_type, trigger_config or timezone, which may leave
\* the trigger what it was; update_interval of the heartbeat.  A run_at that
\* has passed leaves the one_shot without a next_fire_at, fired or not.
UpdateJob(j, t) ==
  /\ j \in rows
  /\ t \in IF j = Heartbeat THEN {"recurring"} ELSE Triggers
  /\ version[j] < MaxUpdates
  /\ version' = [version EXCEPT ![j] = @ + 1]
  /\ trigger' = [trigger EXCEPT ![j] = t]
  /\ SetNext(j, t)
  /\ dropped' = IF t = "passed" THEN dropped \cup {j} ELSE dropped \ {j}
  /\ UNCHANGED <<rows, enabled, lease, tick, runVars, claimed, fired, left, raises, crashes>>

\* delete; the heartbeat is not deletable.
DeleteJob(j) ==
  /\ j \in rows \ {Heartbeat}
  /\ rows' = rows \ {j}
  /\ next' = [next EXCEPT ![j] = "none"]
  /\ due' = Without(due, j)
  /\ lease' = [lease EXCEPT ![j] = "free"]
  /\ UNCHANGED <<enabled, trigger, tick, runVars, histVars>>

-----------------------------------------------------------------------------
(* A run, by the scheduler or by hand.                                     *)

\* The run ends.  Of its rows the model remembers whether one is left
\* running by a run that returned.
EndRun(e) ==
  /\ job' = [job EXCEPT ![e] = {}]
  /\ at' = [at EXCEPT ![e] = "none"]
  /\ run' = [run EXCEPT ![e] = "none"]
  /\ jobRun' = [jobRun EXCEPT ![e] = "none"]
  /\ message' = [message EXCEPT ![e] = "none"]

LeftRunning(e) == IF "running" \in {run[e], jobRun[e]} THEN job[e] ELSE {}

\* Runs that start: HeartbeatWorkflow.run_once, which completes its Run at
\* once and never its JobRun, and makes neither when disabled; or Run and
\* JobRun rows and run.started.
StartRun(e, j) ==
  /\ job' = [job EXCEPT ![e] = {j}]
  /\ message' = [message EXCEPT ![e] = "none"]
  /\ IF j = Heartbeat
     THEN /\ at' = [at EXCEPT ![e] = "heartbeat"]
          /\ run' = [run EXCEPT ![e] = IF enabled[j] THEN "succeeded" ELSE "none"]
          /\ jobRun' = [jobRun EXCEPT ![e] = IF enabled[j] THEN "running"
                                                          ELSE "none"]
     ELSE /\ at' = [at EXCEPT ![e] = "started"]
          /\ run' = [run EXCEPT ![e] = "running"]
          /\ jobRun' = [jobRun EXCEPT ![e] = "running"]

RunTurn(e) ==
  /\ at[e] = "started"
  /\ at' = [at EXCEPT ![e] = "turn"]
  /\ UNCHANGED <<jobVars, tick, job, run, jobRun, message, histVars>>

\* run_background_turn returned content, or failed, which makes the content
\* an error text: the Message is kept and message.completed published.
KeepMessage(e) ==
  /\ at[e] = "turn"
  /\ at' = [at EXCEPT ![e] = "told"]
  /\ \E outcome \in {"ok", "failed"} :
       message' = [message EXCEPT ![e] = outcome]
  /\ UNCHANGED <<jobVars, tick, job, run, jobRun, histVars>>

\* It returned no content: there is no Message, and the targets come at once.
NoMessage(e) ==
  /\ at[e] = "turn"
  /\ at' = [at EXCEPT ![e] = "delivering"]
  /\ UNCHANGED <<jobVars, tick, job, run, jobRun, message, histVars>>

\* delivery_policy.targets.
DeliverTargets(e) ==
  /\ at[e] = "told"
  /\ at' = [at EXCEPT ![e] = "delivering"]
  /\ UNCHANGED <<jobVars, tick, job, run, jobRun, message, histVars>>

\* Mutant of CloseRows: the JobRun is forgotten.
CloseRunRow(e) ==
  /\ at[e] = "delivering"
  /\ at' = [at EXCEPT ![e] = "closing"]
  /\ \E status \in IF message[e] = "failed" THEN {"failed"}
                   ELSE {"succeeded", "failed"} :
       run' = [run EXCEPT ![e] = status]
  /\ UNCHANGED <<jobVars, tick, job, jobRun, message, histVars>>

\* run.completed, Run and JobRun; without content the status of the turn
\* decides alone.
CloseRows(e) ==
  /\ at[e] = "delivering"
  /\ at' = [at EXCEPT ![e] = "closing"]
  /\ \E status \in CASE message[e] = "ok" -> {"succeeded"}
                     [] message[e] = "failed" -> {"failed"}
                     [] OTHER -> {"succeeded", "failed"} :
       /\ run' = [run EXCEPT ![e] = status]
       /\ jobRun' = [jobRun EXCEPT ![e] = status]
  /\ UNCHANGED <<jobVars, tick, job, message, histVars>>

Finished(e) == at[e] \in {"closing", "heartbeat"}

-----------------------------------------------------------------------------
(* scheduler_processor.                                                    *)

\* A tick: missing next_fire_at are computed, the due jobs listed.
Tick ==
  /\ Idle("scheduler")
  /\ tick = <<>>
  /\ next' = [j \in Jobs |->
                IF j \in rows /\ enabled[j] /\ next[j] = "none"
                THEN ComputeNextFireAt(trigger[j]) ELSE next[j]]
  /\ tick' = Within(due, {j \in Jobs : enabled[j]})
  /\ tick' # <<>> \/ next' # next
  /\ UNCHANGED <<rows, enabled, trigger, due, lease, runVars, histVars>>

\* Mutant of Claimable: an expired lease is not taken over.
ClaimableIfFree(j) ==
  j \in rows /\ enabled[j] /\ next[j] = "due" /\ lease[j] = "free"

\* acquire_due_lease reads the row again.
Claimable(j) ==
  j \in rows /\ enabled[j] /\ next[j] = "due" /\ lease[j] # "held"

PassOver ==
  /\ Idle("scheduler")
  /\ tick # <<>>
  /\ ~Claimable(Head(tick))
  /\ tick' = Tail(tick)
  /\ UNCHANGED <<jobVars, runVars, histVars>>

\* Lease the job and start its run, which raises when there is no workspace:
\* the lease is released and the tick given up.
Claim ==
  /\ Idle("scheduler")
  /\ tick # <<>>
  /\ Claimable(Head(tick))
  /\ LET j == Head(tick) IN
     /\ claimed' = [claimed EXCEPT ![j] = version[j]]
     /\ IF j \in Unroutable
        THEN /\ tick' = <<>>
             /\ lease' = [lease EXCEPT ![j] = "free"]
             /\ UNCHANGED runVars
        ELSE /\ tick' = Tail(tick)
             /\ lease' = [lease EXCEPT ![j] = "held"]
             /\ StartRun("scheduler", j)
  /\ UNCHANGED <<rows, enabled, trigger, next, due, version, fired, left, dropped,
                 raises, crashes>>

\* Mutant of MarkFired: the lease stays.
MarkFiredKeepsLease(j) ==
  /\ fired' = [fired EXCEPT ![j] = @ \cup {claimed[j]}]
  /\ SetNext(j, trigger[j])
  /\ UNCHANGED lease

\* mark_fired: last_fire_at, the next time after now, no lease.
MarkFired(j) ==
  /\ fired' = [fired EXCEPT ![j] = @ \cup {claimed[j]}]
  /\ SetNext(j, trigger[j])
  /\ lease' = [lease EXCEPT ![j] = "free"]

FinishScheduled ==
  /\ Finished("scheduler")
  /\ EndRun("scheduler")
  /\ left' = left \cup LeftRunning("scheduler")
  /\ \A j \in job["scheduler"] :
       IF j \in rows THEN MarkFired(j)
       ELSE UNCHANGED <<fired, next, due, lease>>
  /\ UNCHANGED <<rows, enabled, trigger, tick, version, claimed, dropped,
                 raises, crashes>>

\* Mutant of RaiseScheduled: a run that raises has fired.
RaiseFires ==
  /\ ~Idle("scheduler")
  /\ raises < MaxRaises
  /\ raises' = raises + 1
  /\ EndRun("scheduler")
  /\ tick' = <<>>
  /\ \A j \in job["scheduler"] :
       /\ SetNext(j, trigger[j])
       /\ lease' = [lease EXCEPT ![j] = "free"]
  /\ UNCHANGED <<rows, enabled, trigger, version, claimed, fired, left,
                 dropped, crashes>>

\* An await raises: release_lease, and the tick is given up.
RaiseScheduled ==
  /\ ~Idle("scheduler")
  /\ raises < MaxRaises
  /\ raises' = raises + 1
  /\ EndRun("scheduler")
  /\ tick' = <<>>
  /\ lease' = [j \in Jobs |-> IF Runs("scheduler", j) THEN "free" ELSE lease[j]]
  /\ UNCHANGED <<rows, enabled, trigger, next, due, version, claimed, fired,
                 left, dropped, crashes>>

-----------------------------------------------------------------------------
(* trigger_scheduled_job; Core dies.                                       *)

\* The call may name the workspace the job lacks.
Trigger(e, j) ==
  /\ Idle(e)
  /\ j \in rows
  /\ StartRun(e, j)
  /\ UNCHANGED <<jobVars, tick, histVars>>

FinishManual(e) ==
  /\ Finished(e)
  /\ EndRun(e)
  /\ left' = left \cup LeftRunning(e)
  /\ UNCHANGED <<jobVars, tick, version, claimed, fired, dropped, raises, crashes>>

RaiseManual(e) ==
  /\ ~Idle(e)
  /\ raises < MaxRaises
  /\ raises' = raises + 1
  /\ EndRun(e)
  /\ UNCHANGED <<jobVars, tick, version, claimed, fired, left, dropped, crashes>>

\* Core dies and starts again: runs are gone, leases stay.
Crash ==
  /\ crashes < MaxCrashes
  /\ crashes' = crashes + 1
  /\ job' = [e \in Executors |-> {}]
  /\ at' = [e \in Executors |-> "none"]
  /\ run' = [e \in Executors |-> "none"]
  /\ jobRun' = [e \in Executors |-> "none"]
  /\ message' = [e \in Executors |-> "none"]
  /\ tick' = <<>>
  /\ UNCHANGED <<jobVars, version, claimed, fired, left, dropped, raises>>

-----------------------------------------------------------------------------
Init ==
  /\ rows = Jobs
  /\ enabled = [j \in Jobs |-> TRUE]
  /\ trigger = [j \in Jobs |-> IF j \in OneShots THEN "ahead" ELSE "recurring"]
  /\ next = [j \in Jobs |-> "future"]
  /\ due = <<>>
  /\ lease = [j \in Jobs |-> "free"]
  /\ tick = <<>>
  /\ job = [e \in Executors |-> {}]
  /\ at = [e \in Executors |-> "none"]
  /\ run = [e \in Executors |-> "none"]
  /\ jobRun = [e \in Executors |-> "none"]
  /\ message = [e \in Executors |-> "none"]
  /\ version = [j \in Jobs |-> 0]
  /\ claimed = [j \in Jobs |-> 0]
  /\ fired = [j \in Jobs |-> {}]
  /\ left = {}
  /\ dropped = {}
  /\ raises = 0 /\ crashes = 0

RunStep(e) ==
  RunTurn(e) \/ KeepMessage(e) \/ NoMessage(e) \/ DeliverTargets(e)
             \/ CloseRows(e)

ProcessorStep == Tick \/ PassOver \/ Claim \/ FinishScheduled

Next ==
  \/ \E j \in Jobs : \/ ComesDue(j) \/ LeaseExpires(j) \/ SetEnabled(j)
                     \/ DeleteJob(j)
                     \/ \E t \in Triggers : UpdateJob(j, t)
  \/ \E e \in Executors : RunStep(e)
  \/ ProcessorStep \/ RaiseScheduled
  \/ \E e \in Manual : \/ FinishManual(e) \/ RaiseManual(e)
                       \/ \E j \in Jobs : Trigger(e, j)
  \/ Crash

Spec == Init /\ [][Next]_vars

\* The processor's loop and its runs go on, and leases run out.
FairSpec ==
  /\ Spec
  /\ WF_vars(ProcessorStep)
  /\ WF_vars(RunStep("scheduler"))
  /\ \A j \in Jobs : WF_vars(LeaseExpires(j))
-----------------------------------------------------------------------------
(* Properties.                                                             *)

RunStatus == {"none", "running", "succeeded", "failed"}

\* Types; the due jobs are those whose next_fire_at has come, each once.
TypeOK ==
  /\ rows \subseteq Jobs
  /\ enabled \in [Jobs -> BOOLEAN]
  /\ trigger \in [Jobs -> Triggers]
  /\ next \in [Jobs -> {"none", "future", "due"}]
  /\ due \in Seq(Jobs)
  /\ \A j \in Jobs : next[j] = "due" <=> \E i \in DOMAIN due : due[i] = j
  /\ \A i, k \in DOMAIN due : due[i] = due[k] => i = k
  /\ lease \in [Jobs -> {"free", "held", "expired"}]
  /\ tick \in Seq(Jobs)
  /\ job \in [Executors -> SUBSET Jobs]
  /\ at \in [Executors -> Awaits]
  /\ \A e \in Executors : at[e] = "none" <=> job[e] = {}
  /\ run \in [Executors -> RunStatus]
  /\ jobRun \in [Executors -> RunStatus]
  /\ message \in [Executors -> {"none", "ok", "failed"}]
  /\ version \in [Jobs -> 0 .. MaxUpdates]
  /\ claimed \in [Jobs -> 0 .. MaxUpdates]
  /\ fired \in [Jobs -> SUBSET (0 .. MaxUpdates)]
  /\ left \subseteq Jobs /\ dropped \subseteq Jobs
  /\ raises \in 0 .. MaxRaises /\ crashes \in 0 .. MaxCrashes

\* A one_shot is given up (run_at has passed and there is no next_fire_at)
\* only after the run that claimed it last has ended without raising, or by
\* an update of its trigger or timezone that came when run_at had passed,
\* after which it has no time although it may never have run: not by a run
\* that raised, a crash, a lost lease, disabling or enabling.
OneShotKept ==
  \A j \in rows : trigger[j] = "passed" /\ next[j] = "none" =>
                   claimed[j] \in fired[j] \/ j \in dropped

\* The scheduler never claims a one_shot again for a run_at whose run has
\* ended: neither a missing next_fire_at nor a stale list brings it back.
OneShotOnce ==
  [][\A j \in Jobs : ~Runs("scheduler", j) /\ job'["scheduler"] = {j}
                     /\ trigger[j] = "passed" => version[j] \notin fired[j]]_vars

\* A lease is held only while the scheduler runs the job, or after a crash;
\* no end of a run leaves the job locked for the rest of its lease.
LeaseHeldByRun ==
  \A j \in Jobs : lease[j] = "held" => Runs("scheduler", j) \/ crashes > 0

\* Run and JobRun of a run that ended by itself are both closed, whether the
\* turn succeeded, failed or said nothing, and whatever became of the job.
\* The heartbeat is the exception.
RowsClosed == left \subseteq {Heartbeat}

\* An enabled job that is due, and that can run, is served, whatever other
\* jobs are due and even after a crash left its lease behind.
DueIsServed ==
  \A j \in Jobs \ Unroutable :
    (next[j] = "due" /\ enabled[j]) ~>
      (Runs("scheduler", j) \/ next[j] # "due" \/ ~enabled[j])
=============================================================================
