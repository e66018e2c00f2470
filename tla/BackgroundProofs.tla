-------------------------- MODULE BackgroundProofs --------------------------
(***************************************************************************)
(* Theorems about what runs in the background: about Scheduler, for every  *)
(* set of jobs and executors and any number of updates, raising runs and   *)
(* crashes, and about Research, for every set of worker threads and any    *)
(* number of runs and restarts.                                            *)
(***************************************************************************)
EXTENDS Scheduler, Research, ListProofs

-----------------------------------------------------------------------------
(* Scheduler.                                                              *)

(* Types of everything but the two lists; an executor runs one job. *)
Types ==
  /\ rows \subseteq Jobs
  /\ enabled \in [Jobs -> BOOLEAN]
  /\ trigger \in [Jobs -> Triggers]
  /\ next \in [Jobs -> {"none", "future", "due"}]
  /\ lease \in [Jobs -> {"free", "held", "expired"}]
  /\ job \in [Executors -> SUBSET Jobs]
  /\ at \in [Executors -> Awaits]
  /\ run \in [Executors -> RunStatus]
  /\ jobRun \in [Executors -> RunStatus]
  /\ message \in [Executors -> {"none", "ok", "failed"}]
  /\ version \in [Jobs -> Nat]
  /\ claimed \in [Jobs -> Nat]
  /\ fired \in [Jobs -> SUBSET Nat]
  /\ left \subseteq Jobs /\ dropped \subseteq Jobs
  /\ crashes \in Nat
  /\ \A e \in Executors : at[e] = "none" <=> job[e] = {}
  /\ \A e \in Executors : \A j, k \in job[e] : j = k

(* A lease is held by a run or after a crash, and goes with the row. *)
Leases ==
  /\ LeaseHeldByRun
  /\ \A j \in Jobs \ rows : lease[j] = "free"

(* A run about to return has closed its rows, unless it is the heartbeat's. *)
Closing ==
  /\ \A e \in Executors : at[e] = "closing" => run[e] # "running" /\ jobRun[e] # "running"
  /\ \A e \in Executors : at[e] = "heartbeat" => job[e] = {Heartbeat}
  /\ RowsClosed

(* next_fire_at agrees with the trigger: a job that is due has no run_at    *)
(* ahead, and one that waits has none behind it.                            *)
InTime ==
  \A j \in Jobs : /\ next[j] = "due" => trigger[j] # "ahead"
                  /\ next[j] = "future" => trigger[j] # "passed"

(* Versions that fired were claimed, and claimed versions existed; a run of *)
(* the current version, like a fired current version, has no run_at ahead;  *)
(* once it fired, a run_at that has passed has no next_fire_at.             *)
Fires ==
  \A j \in Jobs :
     /\ claimed[j] <= version[j]
     /\ \A v \in fired[j] : v <= claimed[j]
     /\ Runs("scheduler", j) /\ claimed[j] = version[j] => trigger[j] # "ahead"
     /\ version[j] \in fired[j] => trigger[j] # "ahead"
     /\ version[j] \in fired[j] /\ trigger[j] = "passed" => next[j] = "none"

IInv == Types /\ Leases /\ Closing /\ InTime /\ OneShotKept /\ Fires

-----------------------------------------------------------------------------
(* A step is one of the actions. *)
LEMMA StepCases ==
  ASSUME Next
  PROVE  \/ \E j \in Jobs : ComesDue(j)
         \/ \E j \in Jobs : LeaseExpires(j)
         \/ \E j \in Jobs : SetEnabled(j)
         \/ \E j \in Jobs : DeleteJob(j)
         \/ \E j \in Jobs, t \in Triggers : UpdateJob(j, t)
         \/ \E e \in Executors : RunTurn(e)
         \/ \E e \in Executors : KeepMessage(e)
         \/ \E e \in Executors : NoMessage(e)
         \/ \E e \in Executors : DeliverTargets(e)
         \/ \E e \in Executors : CloseRows(e)
         \/ \E e \in Manual : FinishManual(e)
         \/ \E e \in Manual : RaiseManual(e)
         \/ \E e \in Manual, j \in Jobs : Trigger(e, j)
         \/ Tick
         \/ PassOver
         \/ Claim
         \/ FinishScheduled
         \/ RaiseScheduled
         \/ Crash
BY DEF Next, RunStep, ProcessorStep

(* The run an executor starts has one job and well-typed rows. *)
LEMMA StartRunTypes ==
  ASSUME Types, NEW e \in Executors, NEW j \in Jobs, StartRun(e, j)
  PROVE  /\ job' \in [Executors -> SUBSET Jobs]
         /\ at' \in [Executors -> Awaits]
         /\ run' \in [Executors -> RunStatus]
         /\ jobRun' \in [Executors -> RunStatus]
         /\ message' \in [Executors -> {"none", "ok", "failed"}]
         /\ \A f \in Executors : at'[f] = "none" <=> job'[f] = {}
         /\ \A f \in Executors : \A k, l \in job'[f] : k = l
<1> USE DEF Types, StartRun, Awaits, RunStatus
<1>1. /\ job' = [job EXCEPT ![e] = {j}]
      /\ message' \in [Executors -> {"none", "ok", "failed"}]
  OBVIOUS
<1>2. CASE j = Heartbeat
  <2>1. at' = [at EXCEPT ![e] = "heartbeat"]
    BY <1>2
  <2>2. run' \in [Executors -> RunStatus] /\ jobRun' \in [Executors -> RunStatus]
    BY <1>2
  <2> QED
    BY <1>1, <2>1, <2>2
<1>3. CASE j # Heartbeat
  <2>1. at' = [at EXCEPT ![e] = "started"]
    BY <1>3
  <2>2. run' \in [Executors -> RunStatus] /\ jobRun' \in [Executors -> RunStatus]
    BY <1>3
  <2> QED
    BY <1>1, <2>1, <2>2
<1> QED
  BY <1>2, <1>3

(* The job claimed has a row and is due; it is leased and run, or, without  *)
(* a workspace, given back at once.                                         *)
LEMMA ClaimOne ==
  ASSUME Types, Claim
  PROVE  \E j \in Jobs :
           /\ j \in rows /\ next[j] = "due" /\ job["scheduler"] = {}
           /\ claimed' = [claimed EXCEPT ![j] = version[j]]
           /\ \/ /\ lease' = [lease EXCEPT ![j] = "free"]
                 /\ UNCHANGED runVars
              \/ /\ lease' = [lease EXCEPT ![j] = "held"]
                 /\ StartRun("scheduler", j)
<1> DEFINE h == Head(tick)
<1>1. h \in rows /\ next[h] = "due" /\ job["scheduler"] = {}
  BY DEF Claim, Claimable, Idle
<1>2. h \in Jobs
  BY <1>1 DEF Types
<1>3. claimed' = [claimed EXCEPT ![h] = version[h]]
  BY DEF Claim
<1>4. CASE h \in Unroutable
  BY <1>1, <1>2, <1>3, <1>4 DEF Claim
<1>5. CASE h \notin Unroutable
  BY <1>1, <1>2, <1>3, <1>5 DEF Claim
<1> QED
  BY <1>4, <1>5

(* A run of the scheduler that returns has one job, which is marked fired   *)
(* if its row is still there.                                               *)
LEMMA FinishOne ==
  ASSUME Types, FinishScheduled
  PROVE  \E j \in Jobs :
           /\ job["scheduler"] = {j}
           /\ \/ j \in rows /\ MarkFired(j)
              \/ j \notin rows /\ UNCHANGED <<fired, next, due, lease>>
<1>1. job["scheduler"] # {} /\ job["scheduler"] \subseteq Jobs
  BY SchedulerAssumption DEF Types, FinishScheduled, Finished
<1>2. PICK j \in Jobs : j \in job["scheduler"]
  BY <1>1
<1>3. job["scheduler"] = {j}
  BY <1>2, SchedulerAssumption DEF Types
<1>4. IF j \in rows THEN MarkFired(j) ELSE UNCHANGED <<fired, next, due, lease>>
  BY <1>2 DEF FinishScheduled
<1> QED
  BY <1>3, <1>4

(* Every action keeps the types. *)
LEMMA TypesStep ==
  ASSUME Types, [Next]_vars
  PROVE  Types'
<1> USE SchedulerAssumption DEF Types, Awaits, RunStatus, Triggers, jobVars, runVars, histVars
<1>1. ASSUME NEW j \in Jobs, ComesDue(j)
       PROVE  Types'
  BY <1>1 DEF ComesDue
<1>2. ASSUME NEW j \in Jobs, LeaseExpires(j)
       PROVE  Types'
  BY <1>2 DEF LeaseExpires
<1>3. ASSUME NEW j \in Jobs, SetEnabled(j)
       PROVE  Types'
  BY <1>3 DEF SetEnabled
<1>4. ASSUME NEW j \in Jobs, DeleteJob(j)
       PROVE  Types'
  BY <1>4 DEF DeleteJob
<1>5. ASSUME NEW j \in Jobs, NEW t \in Triggers, UpdateJob(j, t)
       PROVE  Types'
  BY <1>5 DEF UpdateJob, SetNext, ComputeNextFireAt
<1>6. ASSUME NEW e \in Executors, RunTurn(e)
       PROVE  Types'
  BY <1>6 DEF RunTurn
<1>7. ASSUME NEW e \in Executors, KeepMessage(e)
       PROVE  Types'
  BY <1>7 DEF KeepMessage
<1>8. ASSUME NEW e \in Executors, NoMessage(e)
       PROVE  Types'
  BY <1>8 DEF NoMessage
<1>9. ASSUME NEW e \in Executors, DeliverTargets(e)
       PROVE  Types'
  BY <1>9 DEF DeliverTargets
<1>10. ASSUME NEW e \in Executors, CloseRows(e)
       PROVE  Types'
  BY <1>10 DEF CloseRows
<1>11. ASSUME NEW e \in Manual, FinishManual(e)
       PROVE  Types'
  BY <1>11 DEF FinishManual, EndRun, LeftRunning, Manual
<1>12. ASSUME NEW e \in Manual, RaiseManual(e)
       PROVE  Types'
  BY <1>12 DEF RaiseManual, EndRun, Manual
<1>13. ASSUME NEW e \in Manual, NEW j \in Jobs, Trigger(e, j)
       PROVE  Types'
  <2>1. e \in Executors /\ StartRun(e, j)
    BY <1>13 DEF Trigger, Manual
  <2>2. UNCHANGED <<jobVars, histVars>>
    BY <1>13 DEF Trigger
  <2> QED
    BY <2>1, <2>2, StartRunTypes
<1>14. CASE Tick
  BY <1>14 DEF Tick, ComputeNextFireAt
<1>15. CASE PassOver
  BY <1>15 DEF PassOver
<1>16. CASE Claim
  <2>1. PICK j \in Jobs :
           /\ claimed' = [claimed EXCEPT ![j] = version[j]]
           /\ \/ lease' = [lease EXCEPT ![j] = "free"] /\ UNCHANGED runVars
              \/ lease' = [lease EXCEPT ![j] = "held"] /\ StartRun("scheduler", j)
    BY <1>16, ClaimOne
  <2>2. UNCHANGED <<rows, enabled, trigger, next, version, fired, left, dropped, crashes>>
    BY <1>16 DEF Claim
  <2>3. CASE UNCHANGED runVars
    <3>1. lease' \in [Jobs -> {"free", "held", "expired"}] /\ claimed' \in [Jobs -> Nat]
      BY <2>1
    <3> QED
      BY <2>2, <2>3, <3>1
  <2>4. CASE StartRun("scheduler", j)
    <3>1. lease' \in [Jobs -> {"free", "held", "expired"}] /\ claimed' \in [Jobs -> Nat]
      BY <2>1
    <3> QED
      BY <2>2, <2>4, <3>1, StartRunTypes
  <2> QED
    BY <2>1, <2>3, <2>4
<1>17. CASE FinishScheduled
  BY <1>17 DEF FinishScheduled, EndRun, LeftRunning, Finished, MarkFired, SetNext, ComputeNextFireAt
<1>18. CASE RaiseScheduled
  BY <1>18 DEF RaiseScheduled, EndRun
<1>19. CASE Crash
  BY <1>19 DEF Crash
<1>20. CASE UNCHANGED vars
  BY <1>20 DEF vars
<1> QED
  BY SMTT(30), StepCases, <1>1, <1>2, <1>3, <1>4, <1>5, <1>6, <1>7, <1>8, <1>9, <1>10,
     <1>11, <1>12, <1>13, <1>14, <1>15, <1>16, <1>17, <1>18, <1>19, <1>20

(* A lease is taken with a run and given back with its end. *)
LEMMA LeaseStep ==
  ASSUME Types, Leases, [Next]_vars
  PROVE  Leases'
<1> USE SchedulerAssumption DEF Types, Leases, LeaseHeldByRun, Runs, jobVars, runVars, histVars
<1>1. ASSUME NEW j \in Jobs, ComesDue(j)
       PROVE  Leases'
  BY <1>1 DEF ComesDue
<1>2. ASSUME NEW j \in Jobs, LeaseExpires(j)
       PROVE  Leases'
  BY <1>2 DEF LeaseExpires
<1>3. ASSUME NEW j \in Jobs, SetEnabled(j)
       PROVE  Leases'
  BY <1>3 DEF SetEnabled
<1>4. ASSUME NEW j \in Jobs, DeleteJob(j)
       PROVE  Leases'
  BY <1>4 DEF DeleteJob
<1>5. ASSUME NEW j \in Jobs, NEW t \in Triggers, UpdateJob(j, t)
       PROVE  Leases'
  BY <1>5 DEF UpdateJob
<1>6. ASSUME NEW e \in Executors, RunStep(e)
       PROVE  Leases'
  BY <1>6 DEF RunStep, RunTurn, KeepMessage, NoMessage, DeliverTargets, CloseRows
<1>7. ASSUME NEW e \in Manual, FinishManual(e)
       PROVE  Leases'
  BY <1>7 DEF FinishManual, EndRun, Manual
<1>8. ASSUME NEW e \in Manual, RaiseManual(e)
       PROVE  Leases'
  BY <1>8 DEF RaiseManual, EndRun, Manual
<1>9. ASSUME NEW e \in Manual, NEW j \in Jobs, Trigger(e, j)
       PROVE  Leases'
  BY <1>9 DEF Trigger, StartRun, Manual
<1>10. CASE Tick
  BY <1>10 DEF Tick
<1>11. CASE PassOver
  BY <1>11 DEF PassOver
<1>12. CASE Claim
  BY <1>12 DEF Claim, StartRun, Claimable, Idle
<1>13. CASE FinishScheduled
  <2>1. PICK j \in Jobs : /\ job["scheduler"] = {j}
                          /\ \/ j \in rows /\ MarkFired(j)
                             \/ j \notin rows /\ UNCHANGED <<fired, next, due, lease>>
    BY <1>13, FinishOne
  <2>2. CASE j \in rows
    <3>1. lease' = [lease EXCEPT ![j] = "free"] /\ UNCHANGED <<rows, crashes>>
      BY <1>13, <2>1, <2>2 DEF FinishScheduled, MarkFired
    <3>2. ASSUME NEW k \in Jobs, lease'[k] = "held" PROVE crashes' > 0
      <4>1. k # j /\ lease[k] = "held"
        BY <3>1, <3>2
      <4>2. ~Runs("scheduler", k)
        BY <2>1, <4>1
      <4> QED
        BY <3>1, <4>1, <4>2
    <3>3. \A k \in Jobs \ rows' : lease'[k] = "free"
      BY <3>1
    <3> QED
      BY <3>2, <3>3
  <2>3. CASE j \notin rows
    BY <1>13, <2>1, <2>3 DEF FinishScheduled, EndRun
  <2> QED
    BY <2>2, <2>3
<1>14. CASE RaiseScheduled
  BY <1>14 DEF RaiseScheduled
<1>15. CASE Crash
  BY <1>15 DEF Crash
<1>16. CASE UNCHANGED vars
  BY <1>16 DEF vars
<1> QED
  BY StepCases, <1>1, <1>2, <1>3, <1>4, <1>5, <1>6, <1>7, <1>8, <1>9, <1>10, <1>11, <1>12, <1>13, <1>14, <1>15, <1>16 DEF RunStep

(* The rows are closed before the run returns. *)
LEMMA ClosingStep ==
  ASSUME Types, Closing, [Next]_vars
  PROVE  Closing'
<1> USE SchedulerAssumption DEF Types, Closing, RowsClosed, jobVars, runVars, histVars
<1>1. ASSUME NEW j \in Jobs, ComesDue(j)
       PROVE  Closing'
  BY <1>1 DEF ComesDue
<1>2. ASSUME NEW j \in Jobs, LeaseExpires(j)
       PROVE  Closing'
  BY <1>2 DEF LeaseExpires
<1>3. ASSUME NEW j \in Jobs, SetEnabled(j)
       PROVE  Closing'
  BY <1>3 DEF SetEnabled
<1>4. ASSUME NEW j \in Jobs, DeleteJob(j)
       PROVE  Closing'
  BY <1>4 DEF DeleteJob
<1>5. ASSUME NEW j \in Jobs, NEW t \in Triggers, UpdateJob(j, t)
       PROVE  Closing'
  BY <1>5 DEF UpdateJob
<1>6. ASSUME NEW e \in Executors, RunTurn(e)
       PROVE  Closing'
  BY <1>6 DEF RunTurn
<1>7. ASSUME NEW e \in Executors, KeepMessage(e)
       PROVE  Closing'
  BY <1>7 DEF KeepMessage
<1>8. ASSUME NEW e \in Executors, NoMessage(e)
       PROVE  Closing'
  BY <1>8 DEF NoMessage
<1>9. ASSUME NEW e \in Executors, DeliverTargets(e)
       PROVE  Closing'
  BY <1>9 DEF DeliverTargets
<1>10. ASSUME NEW e \in Executors, CloseRows(e)
       PROVE  Closing'
  BY <1>10 DEF CloseRows
<1>11. ASSUME NEW e \in Manual, FinishManual(e)
       PROVE  Closing'
  BY <1>11 DEF FinishManual, EndRun, LeftRunning, Finished, Manual
<1>12. ASSUME NEW e \in Manual, RaiseManual(e)
       PROVE  Closing'
  BY <1>12 DEF RaiseManual, EndRun
<1>13. ASSUME NEW e \in Manual, NEW j \in Jobs, Trigger(e, j)
       PROVE  Closing'
  BY <1>13 DEF Trigger, StartRun
<1>14. CASE Tick
  BY <1>14 DEF Tick
<1>15. CASE PassOver
  BY <1>15 DEF PassOver
<1>16. CASE Claim
  <2>1. PICK j \in Jobs : UNCHANGED runVars \/ StartRun("scheduler", j)
    BY <1>16, ClaimOne
  <2>2. UNCHANGED left
    BY <1>16 DEF Claim
  <2>3. CASE UNCHANGED runVars
    BY <2>2, <2>3
  <2>4. CASE StartRun("scheduler", j)
    BY <2>2, <2>4 DEF StartRun
  <2> QED
    BY <2>1, <2>3, <2>4
<1>17. CASE FinishScheduled
  BY <1>17 DEF FinishScheduled, EndRun, LeftRunning, Finished
<1>18. CASE RaiseScheduled
  BY <1>18 DEF RaiseScheduled, EndRun
<1>19. CASE Crash
  BY <1>19 DEF Crash
<1>20. CASE UNCHANGED vars
  BY <1>20 DEF vars
<1> QED
  BY StepCases, <1>1, <1>2, <1>3, <1>4, <1>5, <1>6, <1>7, <1>8, <1>9, <1>10, <1>11, <1>12, <1>13, <1>14, <1>15, <1>16, <1>17, <1>18, <1>19, <1>20

(* next_fire_at is recomputed whenever the trigger changes. *)
LEMMA InTimeStep ==
  ASSUME Types, InTime, [Next]_vars
  PROVE  InTime'
<1> USE SchedulerAssumption DEF Types, InTime, jobVars, runVars, histVars
<1>1. ASSUME NEW j \in Jobs, ComesDue(j)
       PROVE  InTime'
  BY <1>1 DEF ComesDue
<1>2. ASSUME NEW j \in Jobs, LeaseExpires(j)
       PROVE  InTime'
  BY <1>2 DEF LeaseExpires
<1>3. ASSUME NEW j \in Jobs, SetEnabled(j)
       PROVE  InTime'
  BY <1>3 DEF SetEnabled
<1>4. ASSUME NEW j \in Jobs, DeleteJob(j)
       PROVE  InTime'
  BY <1>4 DEF DeleteJob
<1>5. ASSUME NEW j \in Jobs, NEW t \in Triggers, UpdateJob(j, t)
       PROVE  InTime'
  BY <1>5 DEF UpdateJob, SetNext, ComputeNextFireAt
<1>6. ASSUME NEW e \in Executors, RunStep(e)
       PROVE  InTime'
  BY <1>6 DEF RunStep, RunTurn, KeepMessage, NoMessage, DeliverTargets, CloseRows
<1>7. ASSUME NEW e \in Manual, FinishManual(e)
       PROVE  InTime'
  BY <1>7 DEF FinishManual
<1>8. ASSUME NEW e \in Manual, RaiseManual(e)
       PROVE  InTime'
  BY <1>8 DEF RaiseManual
<1>9. ASSUME NEW e \in Manual, NEW j \in Jobs, Trigger(e, j)
       PROVE  InTime'
  BY <1>9 DEF Trigger
<1>10. CASE Tick
  BY <1>10 DEF Tick, ComputeNextFireAt
<1>11. CASE PassOver
  BY <1>11 DEF PassOver
<1>12. CASE Claim
  BY <1>12 DEF Claim
<1>13. CASE FinishScheduled
  BY <1>13 DEF FinishScheduled, Finished, MarkFired, SetNext, ComputeNextFireAt
<1>14. CASE RaiseScheduled
  BY <1>14 DEF RaiseScheduled
<1>15. CASE Crash
  BY <1>15 DEF Crash
<1>16. CASE UNCHANGED vars
  BY <1>16 DEF vars
<1> QED
  BY StepCases, <1>1, <1>2, <1>3, <1>4, <1>5, <1>6, <1>7, <1>8, <1>9, <1>10, <1>11, <1>12, <1>13, <1>14, <1>15, <1>16 DEF RunStep

(* Only mark_fired and update_job give up a run_at that has passed. *)
LEMMA KeptStep ==
  ASSUME Types, InTime, OneShotKept, [Next]_vars
  PROVE  OneShotKept'
<1> USE SchedulerAssumption DEF Types, InTime, OneShotKept, jobVars, runVars, histVars
<1>1. ASSUME NEW j \in Jobs, ComesDue(j)
       PROVE  OneShotKept'
  BY <1>1 DEF ComesDue
<1>2. ASSUME NEW j \in Jobs, LeaseExpires(j)
       PROVE  OneShotKept'
  BY <1>2 DEF LeaseExpires
<1>3. ASSUME NEW j \in Jobs, SetEnabled(j)
       PROVE  OneShotKept'
  BY <1>3 DEF SetEnabled
<1>4. ASSUME NEW j \in Jobs, DeleteJob(j)
       PROVE  OneShotKept'
  BY <1>4 DEF DeleteJob
<1>5. ASSUME NEW j \in Jobs, NEW t \in Triggers, UpdateJob(j, t)
       PROVE  OneShotKept'
  BY <1>5 DEF UpdateJob, SetNext
<1>6. ASSUME NEW e \in Executors, RunStep(e)
       PROVE  OneShotKept'
  BY <1>6 DEF RunStep, RunTurn, KeepMessage, NoMessage, DeliverTargets, CloseRows
<1>7. ASSUME NEW e \in Manual, FinishManual(e)
       PROVE  OneShotKept'
  BY <1>7 DEF FinishManual
<1>8. ASSUME NEW e \in Manual, RaiseManual(e)
       PROVE  OneShotKept'
  BY <1>8 DEF RaiseManual
<1>9. ASSUME NEW e \in Manual, NEW j \in Jobs, Trigger(e, j)
       PROVE  OneShotKept'
  BY <1>9 DEF Trigger
<1>10. CASE Tick
  BY <1>10 DEF Tick
<1>11. CASE PassOver
  BY <1>11 DEF PassOver
<1>12. CASE Claim
  BY <1>12 DEF Claim, Claimable
<1>13. CASE FinishScheduled
  BY <1>13 DEF FinishScheduled, Finished, MarkFired, SetNext
<1>14. CASE RaiseScheduled
  BY <1>14 DEF RaiseScheduled
<1>15. CASE Crash
  BY <1>15 DEF Crash
<1>16. CASE UNCHANGED vars
  BY <1>16 DEF vars
<1> QED
  BY StepCases, <1>1, <1>2, <1>3, <1>4, <1>5, <1>6, <1>7, <1>8, <1>9, <1>10, <1>11, <1>12, <1>13, <1>14, <1>15, <1>16 DEF RunStep

(* Versions fire in order, and a fired run_at does not come back. *)
LEMMA FiresStep ==
  ASSUME Types, InTime, Fires, [Next]_vars
  PROVE  Fires'
<1> USE SchedulerAssumption DEF Types, InTime, Fires, Runs, jobVars, runVars, histVars
<1>1. ASSUME NEW j \in Jobs, ComesDue(j)
       PROVE  Fires'
  BY <1>1 DEF ComesDue
<1>2. ASSUME NEW j \in Jobs, LeaseExpires(j)
       PROVE  Fires'
  BY <1>2 DEF LeaseExpires
<1>3. ASSUME NEW j \in Jobs, SetEnabled(j)
       PROVE  Fires'
  BY <1>3 DEF SetEnabled
<1>4. ASSUME NEW j \in Jobs, DeleteJob(j)
       PROVE  Fires'
  BY <1>4 DEF DeleteJob
<1>5. ASSUME NEW j \in Jobs, NEW t \in Triggers, UpdateJob(j, t)
       PROVE  Fires'
  BY <1>5 DEF UpdateJob, SetNext
<1>6. ASSUME NEW e \in Executors, RunStep(e)
       PROVE  Fires'
  BY <1>6 DEF RunStep, RunTurn, KeepMessage, NoMessage, DeliverTargets, CloseRows
<1>7. ASSUME NEW e \in Manual, FinishManual(e)
       PROVE  Fires'
  BY <1>7 DEF FinishManual, EndRun
<1>8. ASSUME NEW e \in Manual, RaiseManual(e)
       PROVE  Fires'
  BY <1>8 DEF RaiseManual, EndRun
<1>9. ASSUME NEW e \in Manual, NEW j \in Jobs, Trigger(e, j)
       PROVE  Fires'
  BY <1>9 DEF Trigger, StartRun, Manual
<1>10. CASE Tick
  BY <1>10 DEF Tick, ComputeNextFireAt
<1>11. CASE PassOver
  BY <1>11 DEF PassOver
<1>12. CASE Claim
  <2>1. PICK j \in Jobs :
           /\ next[j] = "due" /\ job["scheduler"] = {}
           /\ claimed' = [claimed EXCEPT ![j] = version[j]]
           /\ UNCHANGED job \/ job' = [job EXCEPT !["scheduler"] = {j}]
    BY <1>12, ClaimOne DEF StartRun
  <2>2. UNCHANGED <<trigger, next, version, fired>>
    BY <1>12 DEF Claim
  <2>3. ASSUME NEW k \in Jobs, Runs("scheduler", k)' PROVE k = j
    <3>1. job'["scheduler"] \subseteq {j}
      BY <2>1
    <3>2. k \in job'["scheduler"]
      BY <2>3
    <3> QED
      BY <3>1, <3>2
  <2> QED
    BY <2>1, <2>2, <2>3
<1>13. CASE FinishScheduled
  <2>1. PICK j \in Jobs : /\ job["scheduler"] = {j}
                          /\ \/ j \in rows /\ MarkFired(j)
                             \/ j \notin rows /\ UNCHANGED <<fired, next, due, lease>>
    BY <1>13, FinishOne
  <2>2. job' = [job EXCEPT !["scheduler"] = {}] /\ UNCHANGED <<trigger, version, claimed>>
    BY <1>13 DEF FinishScheduled, EndRun
  <2>3. CASE j \in rows
    <3>1. /\ fired' = [fired EXCEPT ![j] = @ \cup {claimed[j]}]
          /\ next' = [next EXCEPT ![j] = ComputeNextFireAt(trigger[j])]
      BY <2>1, <2>3 DEF MarkFired, SetNext
    <3>2. claimed[j] = version[j] => trigger[j] # "ahead"
      BY <2>1
    <3> QED
      BY <2>2, <3>1, <3>2 DEF ComputeNextFireAt
  <2>4. CASE j \notin rows
    BY <2>1, <2>2, <2>4
  <2> QED
    BY <2>3, <2>4
<1>14. CASE RaiseScheduled
  BY <1>14 DEF RaiseScheduled, EndRun
<1>15. CASE Crash
  BY <1>15 DEF Crash
<1>16. CASE UNCHANGED vars
  BY <1>16 DEF vars
<1> QED
  BY StepCases, <1>1, <1>2, <1>3, <1>4, <1>5, <1>6, <1>7, <1>8, <1>9, <1>10, <1>11, <1>12, <1>13, <1>14, <1>15, <1>16 DEF RunStep

(* Only Claim starts a run of the scheduler: every other step leaves its    *)
(* run alone or ends it.                                                    *)
LEMMA OnlyClaimStarts ==
  ASSUME Types, Next, ~Claim
  PROVE  job'["scheduler"] = job["scheduler"] \/ job'["scheduler"] = {}
<1> USE SchedulerAssumption DEF Types, jobVars, runVars, histVars
<1>1. ASSUME NEW j \in Jobs,
             \/ ComesDue(j) \/ LeaseExpires(j) \/ SetEnabled(j) \/ DeleteJob(j)
             \/ \E t \in Triggers : UpdateJob(j, t)
      PROVE  UNCHANGED job
  BY <1>1 DEF ComesDue, LeaseExpires, SetEnabled, DeleteJob, UpdateJob
<1>2. ASSUME NEW e \in Executors, RunStep(e)
      PROVE  UNCHANGED job
  BY <1>2 DEF RunStep, RunTurn, KeepMessage, NoMessage, DeliverTargets, CloseRows
<1>3. ASSUME NEW e \in Manual,
             FinishManual(e) \/ RaiseManual(e) \/ \E j \in Jobs : Trigger(e, j)
      PROVE  job'["scheduler"] = job["scheduler"]
  BY <1>3 DEF FinishManual, RaiseManual, EndRun, Trigger, StartRun, Manual
<1>4. CASE Tick \/ PassOver
  BY <1>4 DEF Tick, PassOver
<1>5. CASE FinishScheduled \/ RaiseScheduled
  BY <1>5 DEF FinishScheduled, RaiseScheduled, EndRun
<1>6. CASE Crash
  BY <1>6 DEF Crash
<1> QED
  BY <1>1, <1>2, <1>3, <1>4, <1>5, <1>6 DEF Next, ProcessorStep

(* A job the scheduler starts is due, so its run_at has not fired. *)
LEMMA OnceStep ==
  ASSUME IInv, Next,
         NEW j \in Jobs, ~Runs("scheduler", j), job'["scheduler"] = {j},
         trigger[j] = "passed"
  PROVE  version[j] \notin fired[j]
<1>1. Types /\ Fires
  BY DEF IInv
<1>2. Claim
  BY <1>1, OnlyClaimStarts DEF Runs
<1>3. PICK k \in Jobs :
         /\ next[k] = "due" /\ job["scheduler"] = {}
         /\ UNCHANGED runVars \/ StartRun("scheduler", k)
  BY <1>1, <1>2, ClaimOne
<1>4. k = j
  <2>1. job' # job
    BY <1>3
  <2>2. job' = [job EXCEPT !["scheduler"] = {k}]
    BY <1>3, <2>1 DEF runVars, StartRun
  <2>3. job'["scheduler"] = {k}
    BY <1>1, <2>2, SchedulerAssumption DEF Types
  <2> QED
    BY <2>3
<1> QED
  BY <1>1, <1>3, <1>4 DEF Fires

-----------------------------------------------------------------------------
(* The invariant is inductive. *)
THEOREM InductiveInvariant == Spec => []IInv
<1>1. Init => IInv
  BY SchedulerAssumption DEF Init, IInv, Types, Leases, LeaseHeldByRun, Closing,
     RowsClosed, InTime, OneShotKept, Fires, Runs, Awaits, RunStatus, Triggers
<1>2. IInv /\ [Next]_vars => IInv'
  BY TypesStep, LeaseStep, ClosingStep, InTimeStep, KeptStep, FiresStep DEF IInv
<1> QED
  BY <1>1, <1>2, PTL DEF Spec

(* However many jobs, executors, raising runs and deletions: the scheduler   *)
(* never ends a run and keeps the job's lease (mark_fired, release_lease).   *)
THEOREM LeaseFollowsRun == Spec => []LeaseHeldByRun
<1>1. IInv => LeaseHeldByRun
  BY DEF IInv, Leases
<1> QED
  BY <1>1, InductiveInvariant, PTL

(* A run that returned left no Run or ScheduledJobRun running, but the       *)
(* heartbeat's.                                                              *)
THEOREM RunsCloseRows == Spec => []RowsClosed
<1>1. IInv => RowsClosed
  BY DEF IInv, Closing
<1> QED
  BY <1>1, InductiveInvariant, PTL

(* A one_shot that is past its run_at loses its next_fire_at only to         *)
(* mark_fired at the end of the run that claimed it last, or to an update    *)
(* (update_job recomputes it after now, whether or not the one_shot ever     *)
(* ran): no raising run, crash, lease or toggle takes it away.               *)
THEOREM OneShotsAreKept == Spec => []OneShotKept
<1>1. IInv => OneShotKept
  BY DEF IInv
<1> QED
  BY <1>1, InductiveInvariant, PTL

(* A run_at that fired is not claimed again: no stale list of due jobs and   *)
(* no recomputed next_fire_at brings it back.                                *)
THEOREM OneShotsRunOnce == Spec => OneShotOnce
<1> DEFINE Once(j) == ~Runs("scheduler", j) /\ job'["scheduler"] = {j}
                      /\ trigger[j] = "passed" => version[j] \notin fired[j]
<1>1. IInv /\ [Next]_vars => [\A j \in Jobs : Once(j)]_vars
  BY OnceStep
<1> QED
  BY <1>1, InductiveInvariant, PTL DEF Spec, OneShotOnce

-----------------------------------------------------------------------------
(* The lists of the scheduler and the bounds.                              *)

(* The list of the due jobs: those whose next_fire_at has come, each once. *)
DueListed ==
  /\ due \in Seq(Jobs)
  /\ NoRepeats(due)
  /\ Members(due) = {j \in Jobs : next[j] = "due"}

TickListed == tick \in Seq(Jobs)

Bounded ==
  /\ version \in [Jobs -> 0 .. MaxUpdates]
  /\ raises \in 0 .. MaxRaises
  /\ crashes \in 0 .. MaxCrashes

(* A job whose next_fire_at is recomputed leaves the list of due jobs.     *)
LEMMA Removed ==
  ASSUME Types, DueListed, NEW j \in Jobs, due' = Without(due, j),
         NEW x \in {"none", "future"}, next' = [next EXCEPT ![j] = x]
  PROVE  DueListed'
<1>1. /\ due' \in Seq(Jobs)
      /\ Members(due') = Members(due) \cap (Jobs \ {j})
      /\ NoRepeats(due) => NoRepeats(due')
  BY WithinMembers DEF DueListed, Without
<1>2. {k \in Jobs : next'[k] = "due"} = {k \in Jobs : next[k] = "due"} \cap (Jobs \ {j})
  BY DEF Types
<1> QED
  BY <1>1, <1>2 DEF DueListed

(* The list of due jobs stays the list of the jobs that are due.           *)
LEMMA DueStep ==
  ASSUME Types, DueListed, [Next]_vars
  PROVE  DueListed'
<1> USE DEF jobVars
<1>1. ASSUME UNCHANGED <<due, next>>
      PROVE  DueListed'
  BY <1>1 DEF DueListed
<1>2. ASSUME NEW j \in Jobs, ComesDue(j)
      PROVE  DueListed'
  <2>1. j \notin Members(due)
    BY <1>2 DEF ComesDue, DueListed
  <2>2. due' = Append(due, j) /\ next' = [next EXCEPT ![j] = "due"]
    BY <1>2 DEF ComesDue
  <2>3. /\ due' \in Seq(Jobs)
        /\ Members(due') = Members(due) \cup {j}
        /\ NoRepeats(due')
    BY <2>1, <2>2, Appended DEF DueListed
  <2>4. {k \in Jobs : next'[k] = "due"} = {k \in Jobs : next[k] = "due"} \cup {j}
    BY <2>2 DEF Types
  <2> QED
    BY <2>3, <2>4 DEF DueListed
<1>3. ASSUME NEW j \in Jobs, DeleteJob(j)
      PROVE  DueListed'
  BY <1>3, Removed DEF DeleteJob
<1>4. ASSUME NEW j \in Jobs, NEW t, SetNext(j, t)
      PROVE  DueListed'
  <2>1. ComputeNextFireAt(t) \in {"none", "future"}
    BY DEF ComputeNextFireAt
  <2> QED
    BY <1>4, <2>1, Removed DEF SetNext
<1>5. CASE Tick
  <2>1. \A j \in Jobs : next'[j] = "due" <=> next[j] = "due"
    BY <1>5 DEF Tick, ComputeNextFireAt
  <2>2. due' = due
    BY <1>5 DEF Tick
  <2> QED
    BY <2>1, <2>2 DEF DueListed
<1>6. CASE FinishScheduled
  <2>1. PICK j \in Jobs : \/ MarkFired(j)
                          \/ UNCHANGED <<fired, next, due, lease>>
    BY <1>6, FinishOne
  <2> QED
    BY <1>1, <1>4, <2>1 DEF MarkFired
<1>7. ASSUME NEW j \in Jobs, NEW t \in Triggers, UpdateJob(j, t)
      PROVE  DueListed'
  BY <1>4, <1>7 DEF UpdateJob
<1>8. ASSUME NEW j \in Jobs, LeaseExpires(j) \/ SetEnabled(j)
      PROVE  DueListed'
  BY <1>1, <1>8 DEF LeaseExpires, SetEnabled
<1>9. ASSUME NEW e \in Executors, RunStep(e)
      PROVE  DueListed'
  BY <1>1, <1>9 DEF RunStep, RunTurn, KeepMessage, NoMessage, DeliverTargets, CloseRows
<1>10. ASSUME NEW e \in Manual, FinishManual(e) \/ RaiseManual(e)
       PROVE  DueListed'
  BY <1>1, <1>10 DEF FinishManual, RaiseManual
<1>11. ASSUME NEW e \in Manual, NEW j \in Jobs, Trigger(e, j)
       PROVE  DueListed'
  BY <1>1, <1>11 DEF Trigger
<1>12. CASE PassOver \/ Claim \/ RaiseScheduled \/ Crash
  BY <1>1, <1>12 DEF PassOver, Claim, RaiseScheduled, Crash
<1>13. CASE UNCHANGED vars
  BY <1>1, <1>13 DEF vars
<1> QED
  BY StepCases, <1>2, <1>3, <1>5, <1>6, <1>7, <1>8, <1>9, <1>10, <1>11, <1>12, <1>13
     DEF RunStep

(* A tick looks at jobs, whatever becomes of their rows meanwhile.         *)
LEMMA TickStep ==
  ASSUME DueListed, TickListed, [Next]_vars
  PROVE  TickListed'
<1> USE DEF TickListed
<1>1. ASSUME tick' \in {tick, << >>}
      PROVE  TickListed'
  <2>1. << >> \in Seq(Jobs)
    OBVIOUS
  <2> QED
    BY <1>1, <2>1
<1>2. ASSUME tick # << >>, tick' = Tail(tick)
      PROVE  TickListed'
  BY <1>2
<1>3. CASE Tick
  BY <1>3, WithinMembers DEF Tick, DueListed
<1>4. CASE PassOver
  BY <1>2, <1>4 DEF PassOver
<1>5. CASE Claim
  BY <1>1, <1>2, <1>5 DEF Claim
<1>6. ASSUME NEW j \in Jobs,
             \/ ComesDue(j) \/ LeaseExpires(j) \/ SetEnabled(j) \/ DeleteJob(j)
             \/ \E t \in Triggers : UpdateJob(j, t)
      PROVE  TickListed'
  BY <1>1, <1>6 DEF ComesDue, LeaseExpires, SetEnabled, DeleteJob, UpdateJob
<1>7. ASSUME NEW e \in Executors, RunStep(e)
      PROVE  TickListed'
  BY <1>1, <1>7 DEF RunStep, RunTurn, KeepMessage, NoMessage, DeliverTargets, CloseRows
<1>8. ASSUME NEW e \in Manual, FinishManual(e) \/ RaiseManual(e)
      PROVE  TickListed'
  BY <1>1, <1>8 DEF FinishManual, RaiseManual
<1>9. ASSUME NEW e \in Manual, NEW j \in Jobs, Trigger(e, j)
      PROVE  TickListed'
  BY <1>1, <1>9 DEF Trigger
<1>10. CASE FinishScheduled \/ RaiseScheduled \/ Crash
  BY <1>1, <1>10 DEF FinishScheduled, RaiseScheduled, Crash
<1>11. CASE UNCHANGED vars
  BY <1>1, <1>11 DEF vars
<1> QED
  BY StepCases, <1>3, <1>4, <1>5, <1>6, <1>7, <1>8, <1>9, <1>10, <1>11 DEF RunStep

(* No action goes past a bound.                                            *)
LEMMA BoundedStep ==
  ASSUME Types, Bounded, [Next]_vars
  PROVE  Bounded'
<1> USE SchedulerAssumption DEF Bounded, histVars
<1>1. ASSUME UNCHANGED <<version, raises, crashes>>
      PROVE  Bounded'
  BY <1>1
<1>2. ASSUME raises < MaxRaises, raises' = raises + 1, UNCHANGED <<version, crashes>>
      PROVE  Bounded'
  BY <1>2
<1>3. ASSUME NEW j \in Jobs, NEW t \in Triggers, UpdateJob(j, t)
      PROVE  Bounded'
  <2>1. version[j] < MaxUpdates /\ version' = [version EXCEPT ![j] = @ + 1]
    BY <1>3 DEF UpdateJob
  <2>2. UNCHANGED <<raises, crashes>>
    BY <1>3 DEF UpdateJob
  <2> QED
    BY <2>1, <2>2
<1>4. CASE RaiseScheduled
  BY <1>2, <1>4 DEF RaiseScheduled
<1>5. ASSUME NEW e \in Manual, RaiseManual(e)
      PROVE  Bounded'
  BY <1>2, <1>5 DEF RaiseManual
<1>6. CASE Crash
  BY <1>6 DEF Crash
<1>7. ASSUME NEW j \in Jobs,
             ComesDue(j) \/ LeaseExpires(j) \/ SetEnabled(j) \/ DeleteJob(j)
      PROVE  Bounded'
  BY <1>1, <1>7 DEF ComesDue, LeaseExpires, SetEnabled, DeleteJob
<1>8. ASSUME NEW e \in Executors, RunStep(e)
      PROVE  Bounded'
  BY <1>1, <1>8 DEF RunStep, RunTurn, KeepMessage, NoMessage, DeliverTargets, CloseRows
<1>9. ASSUME NEW e \in Manual, FinishManual(e) \/ \E j \in Jobs : Trigger(e, j)
      PROVE  Bounded'
  BY <1>1, <1>9 DEF FinishManual, Trigger
<1>10. CASE Tick \/ PassOver \/ Claim \/ FinishScheduled
  BY <1>1, <1>10 DEF Tick, PassOver, Claim, FinishScheduled
<1>11. CASE UNCHANGED vars
  BY <1>1, <1>11 DEF vars
<1> QED
  BY StepCases, <1>3, <1>4, <1>5, <1>6, <1>7, <1>8, <1>9, <1>10, <1>11 DEF RunStep

(* Types, and the list of due jobs: it has the jobs whose next_fire_at has *)
(* come, each once, however updates, deletes, runs and the clock change    *)
(* the rows it is read from.                                               *)
THEOREM SchedulerTypes == Spec => []TypeOK
<1>1. Init => DueListed /\ TickListed /\ Bounded
  <2> SUFFICES ASSUME Init
               PROVE  DueListed /\ TickListed /\ Bounded
    OBVIOUS
  <2> USE SchedulerAssumption DEF Init
  <2>1. Len(due) = 0 /\ 1 .. 0 = {} /\ due \in Seq(Jobs)
    OBVIOUS
  <2>2. Members(due) = {} /\ NoRepeats(due)
    BY <2>1 DEF Members, NoRepeats
  <2>3. {j \in Jobs : next[j] = "due"} = {}
    OBVIOUS
  <2>4. TickListed
    BY DEF TickListed
  <2>5. Bounded
    BY DEF Bounded
  <2> QED
    BY <2>1, <2>2, <2>3, <2>4, <2>5 DEF DueListed
<1>2. IInv /\ DueListed /\ TickListed /\ Bounded /\ [Next]_vars
        => DueListed' /\ TickListed' /\ Bounded'
  BY DueStep, TickStep, BoundedStep DEF IInv
<1>3. ASSUME IInv, DueListed, TickListed, Bounded
      PROVE  TypeOK
  <2> USE <1>3, SchedulerAssumption DEF IInv
  <2>1. \A j \in Jobs : next[j] = "due" <=> \E i \in DOMAIN due : due[i] = j
    BY DEF DueListed, Members
  <2>2. \A i, k \in DOMAIN due : due[i] = due[k] => i = k
    BY DEF DueListed, NoRepeats
  <2>3. claimed \in [Jobs -> 0 .. MaxUpdates]
    BY DEF Types, Fires, Bounded
  <2>4. fired \in [Jobs -> SUBSET (0 .. MaxUpdates)]
    <3>1. ASSUME NEW j \in Jobs, NEW v \in fired[j]
          PROVE  v \in 0 .. MaxUpdates
      <4>1. v \in Nat /\ claimed[j] \in 0 .. MaxUpdates /\ v <= claimed[j]
        BY <2>3 DEF Types, Fires
      <4> QED
        BY <4>1
    <3> QED
      BY <3>1 DEF Types
  <2> QED
    BY <2>1, <2>2, <2>3, <2>4 DEF TypeOK, Types, DueListed, TickListed, Bounded
<1> QED
  BY <1>1, <1>2, <1>3, InductiveInvariant, PTL DEF Spec

-----------------------------------------------------------------------------
(* Research: one report, and a Run that agrees with the task.              *)


Places == {"idle", "begin", "poll", "report", "artifact", "stop", "rescue",
           "read", "commit", "after", "deliver", "mark"}

(* A transition about to be committed was one the status it read permits.  *)
Guarded ==
    \A a \in Actors : place[a] = "commit" => Permits(step[a], step[a].seen)

(* A runner completes the task with its own report; only a runner follows  *)
(* its transition with a message or the end of the Run, and only a request *)
(* follows a cancellation with the end of the Run.                         *)
Authored ==
    \A a \in Actors :
       /\ place[a] \in {"read", "commit", "after"} /\ step[a].by \in {"patch", "chat"}
             => step[a].target \in {"approved", "running", "cancelled", "completed", "failed"}
       /\ step[a].by = "runner" /\ step[a].target = "completed" => step[a].author = a
       /\ place[a] \in {"deliver", "mark"} => step[a].by = "runner"
       /\ place[a] = "deliver" => step[a].target = "completed"
       /\ place[a] = "mark" => step[a].target \in {"completed", "failed"}
       /\ place[a] = "after" => /\ step[a].by \in {"patch", "chat"}
                                /\ step[a].target \in {"running", "cancelled", "completed", "failed"}

(* A request that starts the task leaves room for its background run.      *)
Room ==
    /\ place[loop] \in {"read", "commit", "after"}
    /\ step[loop].by \in {"patch", "chat"} /\ step[loop].target = "running"
    => runs < MaxRuns

(* Whoever is about to deliver the report or to end the Run does so for    *)
(* what the task has become; the report is not delivered yet.              *)
Pending ==
    \A a \in Actors :
       /\ place[a] = "deliver" => /\ status = "completed" /\ report = a
                                  /\ \A b \in Actors : messages[b] = 0
       /\ place[a] = "mark" => status = step[a].target
       /\ place[a] = "after" /\ step[a].target # "running" => status = step[a].target

(* What holds unless transitions overlapped.                               *)
Agrees == ~overlapped => Pending /\ OneReport /\ RunAgrees

ResearchIInv == ResearchTypeOK /\ Guarded /\ Authored /\ Room /\ Agrees

-----------------------------------------------------------------------------
(* What a step can be. *)
LEMMA ResearchCases ==
  ASSUME ResearchNext
  PROVE
    \/ \E action \in Actions, by \in {"patch", "tool"} : Request(by, action)
    \/ \E s \in Statuses : SetStatus(s)
    \/ \E action \in {"cancel", "start"} : Chat(action)
    \/ EnsureRun
    \/ Finish
    \/ Restart
    \/ \E a \in Actors :
          \/ StartRunner(a) \/ Begin(a) \/ SeesCancellation(a) \/ Gather(a)
          \/ CheckReport(a) \/ CreateArtifact(a) \/ Deliver(a) \/ MarkRun(a) \/ Raise(a)
          \/ Read(a) \/ Refused(a) \/ Commit(a) \/ Rescue(a)
BY DEF ResearchNext, ActorStep

(* A transition as it begins. *)
Fresh(by, target, author) ==
    [NoStep EXCEPT !.by = by, !.target = target, !.author = author]

LEMMA Constants ==
  /\ loop \in Actors /\ Actors \subseteq Authors
  /\ user \in Authors /\ user \notin Actors
  /\ none \notin Authors
  /\ NoStep \in Step
  /\ NoStep.by = "status" /\ NoStep.target = "planned"
  /\ Terminal \subseteq Statuses
  /\ \A action \in Actions : Target(action) \in Statuses \ {"planned"}
BY ResearchAssumption
   DEF Actors, Authors, NoStep, Step, Statuses, Terminal, Actions, Target

LEMMA FreshStep ==
  ASSUME NEW by \in {"patch", "chat", "tool", "runner", "rescue", "status"},
         NEW target \in Statuses, NEW author \in Authors \cup {none}
  PROVE  /\ Fresh(by, target, author) \in Step
         /\ Fresh(by, target, author).by = by
         /\ Fresh(by, target, author).target = target
         /\ Fresh(by, target, author).author = author
BY DEF Fresh, NoStep, Step, Statuses, Terminal

LEMMA RescueStep ==
  ASSUME NEW t, t = [NoStep EXCEPT !.by = "rescue", !.target = "failed"]
  PROVE  t \in Step /\ t.by = "rescue" /\ t.target = "failed"
BY DEF NoStep, Step, Statuses, Terminal

(* The kinds of step.  Moves: actor a goes to p, its transition stays.     *)
(* Asks: it begins a transition.  Ends: it is idle again.                  *)
Others(a) == \A b \in Actors \ {a} : place'[b] = place[b] /\ step'[b] = step[b]
Typed     == place' \in [Actors -> Places] /\ step' \in [Actors -> Step]

Moves(a, p) == Typed /\ Others(a) /\ place'[a] = p /\ step'[a] = step[a]

Asks(a, by, target, author) ==
    /\ Typed /\ Others(a)
    /\ place'[a] = "read"
    /\ step'[a].by = by /\ step'[a].target = target /\ step'[a].author = author

Ends(a) == Typed /\ Others(a) /\ place'[a] = "idle" /\ step'[a] = NoStep

LEMMA GotoMoves ==
  ASSUME ResearchTypeOK, NEW a \in Actors, NEW p \in Places, Goto(a, p), UNCHANGED step
  PROVE  Moves(a, p)
BY DEF ResearchTypeOK, Goto, Places, Moves, Others, Typed

LEMMA BeginsAsks ==
  ASSUME ResearchTypeOK, NEW a \in Actors,
         NEW by \in {"patch", "chat", "tool", "runner", "rescue", "status"},
         NEW target \in Statuses, NEW author \in Authors \cup {none},
         Begins(a, by, target, author)
  PROVE  Asks(a, by, target, author)
<1>1. step' = [step EXCEPT ![a] = Fresh(by, target, author)] /\ Goto(a, "read")
  BY DEF Begins, Fresh
<1>2. /\ step' \in [Actors -> Step] /\ step'[a] = Fresh(by, target, author)
      /\ \A b \in Actors \ {a} : step'[b] = step[b]
  BY <1>1, FreshStep DEF ResearchTypeOK
<1>3. /\ place' \in [Actors -> Places] /\ place'[a] = "read"
      /\ \A b \in Actors \ {a} : place'[b] = place[b]
  BY <1>1 DEF ResearchTypeOK, Goto, Places
<1> QED
  BY <1>2, <1>3, FreshStep DEF Asks, Others, Typed

LEMMA ReturnsEnds ==
  ASSUME ResearchTypeOK, NEW a \in Actors, Returns(a)
  PROVE  Ends(a)
BY Constants DEF ResearchTypeOK, Goto, Places, Returns, Ends, Others, Typed

-----------------------------------------------------------------------------
(* The places and transitions, which most steps change in one of the three *)
(* ways without touching the task, the Run or the messages.                *)
Calm == UNCHANGED <<task, taskRun, messages>>

(* Every kind keeps the bookkeeping of an actor that does not commit.      *)
Kept == Guarded' /\ Authored'

LEMMA EndsKeeps ==
  ASSUME Guarded, Authored, NEW a \in Actors, Ends(a)
  PROVE  Kept
BY Constants DEF Guarded, Authored, Ends, Others, Kept

LEMMA AsksKeeps ==
  ASSUME Guarded, Authored, NEW a \in Actors, NEW by, NEW target, NEW author,
         Asks(a, by, target, author),
         by \in {"patch", "chat"} =>
            target \in {"approved", "running", "cancelled", "completed", "failed"},
         by = "runner" /\ target = "completed" => author = a
  PROVE  Kept
BY DEF Guarded, Authored, Asks, Others, Kept

LEMMA MovesKeeps ==
  ASSUME Guarded, Authored, NEW a \in Actors,
         NEW p \in Places \ {"read", "commit", "after", "deliver", "mark"}, Moves(a, p)
  PROVE  Kept
BY DEF Guarded, Authored, Moves, Others, Kept, Places

(* And what is promised of the outcome, while nothing is delivered.        *)
LEMMA CalmKeeps ==
  ASSUME ResearchTypeOK, Agrees, Calm, NEW a \in Actors, Others(a),
         place'[a] \notin {"deliver", "mark", "after"}
  PROVE  Agrees'
BY DEF Agrees, Calm, task, Pending, OneReport, RunAgrees, Others

(* A step of one actor that leaves the task, the Run and the messages.     *)
Budgeted ==
    /\ scheduled' \in Nat /\ runs' \in 0..MaxRuns /\ restarts' \in 0..MaxRestarts
    /\ runs' = runs \/ place'[loop] \in {"idle", "begin"}

LEMMA Quiet ==
  ASSUME ResearchIInv, Calm, Budgeted, NEW a \in Actors
  PROVE  /\ Ends(a) => ResearchIInv'
         /\ \A p \in Places \ {"read", "commit", "after", "deliver", "mark"} :
               Moves(a, p) => ResearchIInv'
         /\ \A by, target, author :
               /\ Asks(a, by, target, author)
               /\ by \in {"patch", "chat"} =>
                     target \in {"approved", "running", "cancelled", "completed", "failed"}
               /\ by = "runner" /\ target = "completed" => author = a
               /\ by \in {"patch", "chat"} /\ target = "running" => runs < MaxRuns
               => ResearchIInv'
<1>1. Typed => ResearchTypeOK'
  BY DEF ResearchIInv, ResearchTypeOK, Calm, task, Budgeted, Typed, Places
<1>2. Ends(a) => ResearchIInv'
  <2> SUFFICES ASSUME Ends(a) PROVE ResearchIInv'
    OBVIOUS
  <2>1. Kept
    BY EndsKeeps DEF ResearchIInv
  <2>2. Agrees'
    BY CalmKeeps DEF ResearchIInv, Ends
  <2>3. Room'
    BY Constants DEF ResearchIInv, Room, Ends, Others, Budgeted
  <2> QED
    BY <1>1, <2>1, <2>2, <2>3 DEF ResearchIInv, Kept, Ends
<1>3. ASSUME NEW p \in Places \ {"read", "commit", "after", "deliver", "mark"}, Moves(a, p)
      PROVE  ResearchIInv'
  <2>1. Kept
    BY <1>3, MovesKeeps DEF ResearchIInv
  <2>2. Agrees'
    BY <1>3, CalmKeeps DEF ResearchIInv, Moves
  <2>3. Room'
    BY <1>3, Constants DEF ResearchIInv, Room, Moves, Others, Budgeted
  <2> QED
    BY <1>1, <1>3, <2>1, <2>2, <2>3 DEF ResearchIInv, Kept, Moves
<1>4. ASSUME NEW by, NEW target, NEW author, Asks(a, by, target, author),
             by \in {"patch", "chat"} =>
                target \in {"approved", "running", "cancelled", "completed", "failed"},
             by = "runner" /\ target = "completed" => author = a,
             by \in {"patch", "chat"} /\ target = "running" => runs < MaxRuns
      PROVE  ResearchIInv'
  <2>1. Kept
    BY <1>4, AsksKeeps DEF ResearchIInv
  <2>2. Agrees'
    BY <1>4, CalmKeeps DEF ResearchIInv, Asks
  <2>3. Room'
    BY <1>4, Constants DEF ResearchIInv, Room, Asks, Others, Budgeted
  <2> QED
    BY <1>1, <1>4, <2>1, <2>2, <2>3 DEF ResearchIInv, Kept, Asks
<1> QED
  BY <1>2, <1>3, <1>4

-----------------------------------------------------------------------------
(* The actions. *)

LEMMA FailsQuietly ==
  ASSUME ResearchIInv, NEW a \in Actors, Fails(a), Calm, Budgeted
  PROVE  ResearchIInv'
<1>1. Asks(a, "runner", "failed", none)
  BY BeginsAsks DEF Fails, ResearchIInv, Statuses, Terminal
<1> QED
  BY <1>1, Quiet

LEMMA RequestStep ==
  ASSUME ResearchIInv, NEW action \in Actions, NEW by \in {"patch", "tool"}, Request(by, action)
  PROVE  ResearchIInv'
<1>1. Calm /\ Budgeted
  BY DEF Request, Calm, Budgeted, budget, task, ResearchIInv, ResearchTypeOK
<1>2. PICK author \in {none, user} : Begins(loop, by, Target(action), author)
  BY DEF Request
<1>3. Target(action) \in {"approved", "running", "cancelled", "completed", "failed"}
  BY DEF Target, Actions
<1>4. Asks(loop, by, Target(action), author)
  BY <1>2, <1>3, BeginsAsks, Constants DEF ResearchIInv, Statuses, Terminal
<1>5. Target(action) = "running" => runs < MaxRuns
  BY DEF Request, Target, Actions
<1> QED
  BY <1>1, <1>3, <1>4, <1>5, Constants, Quiet

LEMMA SetStatusStep ==
  ASSUME ResearchIInv, NEW s \in Statuses, SetStatus(s)
  PROVE  ResearchIInv'
<1>1. Calm /\ Budgeted
  BY DEF SetStatus, Calm, Budgeted, budget, task, ResearchIInv, ResearchTypeOK
<1>2. Asks(loop, "status", s, none)
  BY BeginsAsks, Constants DEF SetStatus, ResearchIInv
<1> QED
  BY <1>1, <1>2, Constants, Quiet

LEMMA ChatStep ==
  ASSUME ResearchIInv, NEW action \in {"cancel", "start"}, Chat(action)
  PROVE  ResearchIInv'
<1>1. Calm /\ Budgeted
  BY DEF Chat, Calm, Budgeted, budget, task, ResearchIInv, ResearchTypeOK
<1>2. Target(action) \in {"running", "cancelled"}
  BY DEF Target
<1>3. Asks(loop, "chat", Target(action), none)
  BY <1>2, BeginsAsks, Constants DEF Chat, ResearchIInv, Statuses, Terminal
<1>4. Target(action) = "running" => runs < MaxRuns
  BY DEF Chat, Target
<1> QED
  BY <1>1, <1>2, <1>3, <1>4, Constants, Quiet

(* The runner's steps that leave the task and the Run.                     *)
LEMMA RunnerStep ==
  ASSUME ResearchIInv, NEW a \in Actors,
         \/ StartRunner(a) \/ Begin(a) \/ SeesCancellation(a) \/ Gather(a)
         \/ CheckReport(a) \/ CreateArtifact(a) \/ Raise(a) \/ Refused(a)
  PROVE  ResearchIInv'
<1>1. CASE StartRunner(a)
  <2>1. Calm /\ Budgeted
    BY <1>1, ResearchAssumption, Constants
       DEF StartRunner, Goto, Calm, Budgeted, budget, task, ResearchIInv, ResearchTypeOK
  <2>2. Moves(a, "begin")
    BY <1>1, GotoMoves DEF StartRunner, ResearchIInv, Places
  <2> QED
    BY <2>1, <2>2, Quiet DEF Places
<1>2. CASE Begin(a)
  <2>1. Calm /\ Budgeted
    BY <1>2 DEF Begin, Calm, Budgeted, budget, task, ResearchIInv, ResearchTypeOK
  <2>2. Ends(a) \/ Moves(a, "poll") \/ Asks(a, "runner", "running", none)
    BY <1>2, GotoMoves, ReturnsEnds, BeginsAsks DEF Begin, ResearchIInv, Places, Statuses
  <2> QED
    BY <2>1, <2>2, Quiet DEF Places
<1>3. CASE SeesCancellation(a)
  <2>1. Calm /\ Budgeted
    BY <1>3 DEF SeesCancellation, Calm, Budgeted, budget, task, ResearchIInv, ResearchTypeOK
  <2>2. Moves(a, "stop")
    BY <1>3, GotoMoves DEF SeesCancellation, ResearchIInv, Places
  <2> QED
    BY <2>1, <2>2, Quiet DEF Places
<1>4. CASE Gather(a)
  <2>1. Calm /\ Budgeted
    BY <1>4 DEF Gather, Calm, Budgeted, budget, task, ResearchIInv, ResearchTypeOK
  <2>2. Moves(a, "report") \/ Moves(a, "stop") \/ Fails(a)
    BY <1>4, GotoMoves DEF Gather, ResearchIInv, Places
  <2> QED
    BY <2>1, <2>2, Quiet, FailsQuietly DEF Places
<1>5. CASE CheckReport(a)
  <2>1. Calm /\ Budgeted
    BY <1>5 DEF CheckReport, Calm, Budgeted, budget, task, ResearchIInv, ResearchTypeOK
  <2>2. Moves(a, "artifact") \/ Moves(a, "stop") \/ Fails(a)
    BY <1>5, GotoMoves DEF CheckReport, ResearchIInv, Places
  <2> QED
    BY <2>1, <2>2, Quiet, FailsQuietly DEF Places
<1>6. CASE CreateArtifact(a)
  <2>1. Calm /\ Budgeted
    BY <1>6 DEF CreateArtifact, Calm, Budgeted, budget, task, ResearchIInv, ResearchTypeOK
  <2>2. Asks(a, "runner", "completed", a) \/ Fails(a)
    BY <1>6, BeginsAsks, Constants DEF CreateArtifact, ResearchIInv, Statuses, Terminal
  <2> QED
    BY <2>1, <2>2, Quiet, FailsQuietly
<1>7. CASE Raise(a)
  <2>1. Calm /\ Budgeted
    BY <1>7 DEF Raise, Calm, Budgeted, budget, task, ResearchIInv, ResearchTypeOK
  <2>2. Ends(a) \/ Moves(a, "rescue")
    BY <1>7, GotoMoves, ReturnsEnds DEF Raise, ResearchIInv, Places
  <2> QED
    BY <2>1, <2>2, Quiet DEF Places
<1>8. CASE Refused(a)
  <2>1. Calm /\ Budgeted
    BY <1>8 DEF Refused, Calm, Budgeted, budget, task, ResearchIInv, ResearchTypeOK
  <2>2. Ends(a) \/ Moves(a, "rescue")
    BY <1>8, GotoMoves, ReturnsEnds DEF Refused, ResearchIInv, Places
  <2> QED
    BY <2>1, <2>2, Quiet DEF Places
<1> QED
  BY <1>1, <1>2, <1>3, <1>4, <1>5, <1>6, <1>7, <1>8

(* transition_task reads the row: from here on the transition is permitted. *)
LEMMA ReadStep ==
  ASSUME ResearchIInv, NEW a \in Actors, Read(a)
  PROVE  ResearchIInv'
<1> USE DEF ResearchIInv
<1>1. /\ Calm /\ Budgeted
      /\ place[a] = "read" /\ Permits(step[a], status)
      /\ step' = [step EXCEPT ![a].seen = status]
  BY DEF Read, Calm, Budgeted, budget, task, ResearchTypeOK
<1>2. /\ place' \in [Actors -> Places] /\ place'[a] = "commit"
      /\ \A b \in Actors \ {a} : place'[b] = place[b]
  BY DEF Read, Goto, ResearchTypeOK, Places
<1>3. /\ step'[a] \in Step /\ step'[a].seen = status
      /\ step'[a].by = step[a].by /\ step'[a].target = step[a].target
      /\ step'[a].author = step[a].author
      /\ \A b \in Actors \ {a} : step'[b] = step[b]
  BY <1>1 DEF ResearchTypeOK, Step
<1>4. step' \in [Actors -> Step]
  BY <1>1, <1>3 DEF ResearchTypeOK
<1>5. ResearchTypeOK'
  BY <1>1, <1>2, <1>4 DEF ResearchTypeOK, Calm, task, Budgeted, Places
<1>6. Guarded'
  <2>1. Permits(step'[a], step'[a].seen)
    BY <1>1, <1>3 DEF Permits
  <2> QED
    BY <1>2, <1>3, <2>1 DEF Guarded
<1>7. Authored'
  BY <1>1, <1>2, <1>3 DEF Authored
<1>8. Agrees'
  BY <1>1, <1>2, <1>3, CalmKeeps DEF Others
<1>9. Room'
  BY <1>1, <1>2, <1>3, Constants DEF Room, Budgeted, Read, budget
<1> QED
  BY <1>5, <1>6, <1>7, <1>8, <1>9

(* A task that ended is left only by a commit that overlapped another.     *)
LEMMA EndIsFinal ==
  ASSUME ResearchIInv, NEW a \in Actors, Commit(a), ~overlapped'
  PROVE  status \notin Terminal /\ ~overlapped
BY DEF ResearchIInv, Guarded, Commit, Permits, Allowed, Terminal, ResearchTypeOK, Step, Statuses

LEMMA CommitStep ==
  ASSUME ResearchIInv, NEW a \in Actors, Commit(a)
  PROVE  ResearchIInv'
<1> USE DEF ResearchIInv
<1> DEFINE t == step[a]
<1>1. /\ place[a] = "commit" /\ t \in Step
      /\ status' = t.target
      /\ report' = IF t.author # none THEN t.author ELSE report
      /\ overlapped' = (overlapped \/ status # t.seen)
      /\ UNCHANGED <<taskRun, messages>> /\ Budgeted
  BY DEF Commit, budget, ResearchTypeOK, Budgeted
<1>2. \/ Afterwards(t) = "idle" /\ Ends(a)
      \/ Afterwards(t) # "idle" /\ Moves(a, Afterwards(t))
  <2>1. Afterwards(t) \in Places
    BY DEF Afterwards, Places
  <2> QED
    BY <2>1, GotoMoves, ReturnsEnds DEF Commit
<1>3. ResearchTypeOK'
  BY <1>1, <1>2 DEF ResearchTypeOK, Ends, Moves, Typed, Places, Step, Budgeted
<1>4. Kept
  <2>1. CASE Ends(a)
    BY <2>1, EndsKeeps
  <2>2. CASE Afterwards(t) # "idle" /\ Moves(a, Afterwards(t))
    <3>1. Guarded'
      BY <2>2 DEF Guarded, Moves, Others, Afterwards
    <3>2. /\ Afterwards(t) \in {"poll", "deliver", "mark", "after"}
          /\ Afterwards(t) = "deliver" => t.by = "runner" /\ t.target = "completed"
          /\ Afterwards(t) = "mark" => t.by = "runner" /\ t.target = "failed"
          /\ Afterwards(t) = "after" => t.by \in {"patch", "chat"} /\ t.target # "approved"
      BY <2>2 DEF Afterwards
    <3>3. Authored'
      BY <1>1, <2>2, <3>2 DEF Authored, Moves, Others
    <3> QED
      BY <3>1, <3>3 DEF Kept
  <2> QED
    BY <1>2, <2>1, <2>2
<1>5. Agrees'
  <2> SUFFICES ASSUME ~overlapped' PROVE Pending' /\ OneReport' /\ RunAgrees'
    BY DEF Agrees
  <2>1. status \notin Terminal /\ ~overlapped
    BY EndIsFinal
  <2>2. Pending /\ OneReport /\ RunAgrees
    BY <2>1 DEF Agrees
  <2>3. messages' = [b \in Actors |-> 0]
    BY <1>1, <2>1, <2>2 DEF OneReport, Terminal, ResearchTypeOK
  <2>4. taskRun' \notin {"succeeded", "failed"}
    BY <1>1, <2>1, <2>2 DEF RunAgrees, Terminal
  <2>5. \A b \in Actors : /\ place[b] \notin {"deliver", "mark"}
                          /\ place[b] = "after" => step[b].target = "running"
    BY <2>1, <2>2 DEF Pending, Authored, Terminal
  <2>6. ASSUME NEW b \in Actors
        PROVE  /\ place'[b] = "deliver" => /\ status' = "completed" /\ report' = b
                                           /\ \A d \in Actors : messages'[d] = 0
               /\ place'[b] = "mark" => status' = step'[b].target
               /\ place'[b] = "after" /\ step'[b].target # "running"
                     => status' = step'[b].target
    <3>1. CASE b # a
      BY <1>2, <2>5, <3>1 DEF Ends, Moves, Others
    <3>2. CASE b = a /\ Ends(a)
      BY <3>2 DEF Ends
    <3>3. CASE b = a /\ Moves(a, Afterwards(t))
      <4>1. place'[b] = "deliver" => t.by = "runner" /\ t.target = "completed"
        BY <3>3 DEF Moves, Afterwards
      <4>2. place'[b] = "deliver" => t.author = a
        BY <1>1, <4>1 DEF Authored
      <4> QED
        BY <1>1, <2>3, <3>3, <4>1, <4>2, Constants DEF Moves
    <3> QED
      BY <1>2, <3>1, <3>2, <3>3
  <2> QED
    BY <2>3, <2>4, <2>6 DEF Pending, OneReport, RunAgrees
<1>6. Room'
  BY <1>1, <1>2, Constants DEF Room, Ends, Moves, Others, Commit, budget
<1> QED
  BY <1>3, <1>4, <1>5, <1>6 DEF Kept

(* The Run begins. *)
LEMMA EnsureRunStep ==
  ASSUME ResearchIInv, EnsureRun
  PROVE  ResearchIInv'
<1> USE DEF ResearchIInv
<1>1. Ends(loop)
  BY Constants, ReturnsEnds DEF EnsureRun
<1>2. /\ UNCHANGED <<task, messages>> /\ Budgeted
      /\ taskRun' = taskRun \/ (taskRun = "none" /\ taskRun' = "running")
  <2>1. runs < MaxRuns
    BY Constants DEF EnsureRun, Room, Authored
  <2>2. scheduled' \in Nat /\ runs' \in 0..MaxRuns /\ restarts' = restarts
    BY <2>1, ResearchAssumption DEF EnsureRun, ResearchTypeOK
  <2> QED
    BY <1>1, <2>2 DEF EnsureRun, task, Budgeted, ResearchTypeOK, Ends
<1>3. ResearchTypeOK'
  BY <1>1, <1>2 DEF ResearchTypeOK, Ends, Typed, Places, task, Budgeted
<1>4. Kept
  BY <1>1, Constants, EndsKeeps
<1>5. Agrees'
  BY <1>1, <1>2, Constants DEF Agrees, Pending, OneReport, RunAgrees, Ends, Others, task
<1>6. Room'
  BY <1>1, Constants DEF Room, Ends
<1> QED
  BY <1>3, <1>4, <1>5, <1>6 DEF Kept

(* The Run ends as the task did, or as a cancelled one.                    *)
LEMMA MarkStep ==
  ASSUME ResearchIInv, NEW a \in Actors, NEW s \in {"cancelled", "completed", "failed"},
         Mark(s), Returns(a), UNCHANGED <<task, messages, scheduled, budget>>,
         ~overlapped /\ s # "cancelled" => status = s
  PROVE  ResearchIInv'
<1> USE DEF ResearchIInv
<1>1. taskRun' = "none" \/ taskRun' = TaskRunStatus(s)
  BY DEF Mark
<1>2. Ends(a)
  BY ReturnsEnds
<1>3. ResearchTypeOK'
  BY <1>1, <1>2 DEF ResearchTypeOK, Ends, Typed, Places, task, budget, TaskRunStatus
<1>4. Kept
  BY <1>2, EndsKeeps
<1>5. Agrees'
  <2> SUFFICES ASSUME ~overlapped' PROVE Pending' /\ OneReport' /\ RunAgrees'
    BY DEF Agrees
  <2>1. ~overlapped /\ Pending /\ OneReport /\ RunAgrees
    BY DEF Agrees, task
  <2>2. Pending'
    BY <1>2, <2>1 DEF Pending, Ends, Others, task
  <2>3. OneReport'
    BY <2>1 DEF OneReport, task
  <2>4. RunAgrees'
    BY <1>1, <2>1 DEF RunAgrees, task, TaskRunStatus
  <2> QED
    BY <2>2, <2>3, <2>4
<1>6. Room'
  BY <1>2, Constants DEF Room, Ends, Others, budget
<1> QED
  BY <1>3, <1>4, <1>5, <1>6 DEF Kept

LEMMA FinishStep ==
  ASSUME ResearchIInv, Finish
  PROVE  ResearchIInv'
<1>1. place[loop] = "after" /\ step[loop].target # "running"
  BY DEF Finish
<1>2. step[loop].target \in {"cancelled", "completed", "failed"}
  BY <1>1, Constants DEF ResearchIInv, Authored
<1>3. ~overlapped => status = step[loop].target
  BY <1>1, Constants DEF ResearchIInv, Agrees, Pending
<1>4. /\ Mark(step[loop].target) /\ Returns(loop)
      /\ UNCHANGED <<task, messages, scheduled, budget>>
  BY DEF Finish
<1> QED
  BY <1>2, <1>3, <1>4, Constants, MarkStep

LEMMA MarkRunStep ==
  ASSUME ResearchIInv, NEW a \in Actors, MarkRun(a)
  PROVE  ResearchIInv'
<1>1. Returns(a) /\ UNCHANGED <<task, messages, scheduled, budget>>
  BY DEF MarkRun
<1>2. CASE place[a] = "mark" /\ Mark(step[a].target)
  <2>1. step[a].target \in {"cancelled", "completed", "failed"}
    BY <1>2 DEF ResearchIInv, Authored
  <2>2. ~overlapped => status = step[a].target
    BY <1>2 DEF ResearchIInv, Agrees, Pending
  <2> QED
    BY <1>1, <1>2, <2>1, <2>2, MarkStep
<1>3. CASE place[a] = "stop" /\ Mark("cancelled")
  BY <1>1, <1>3, MarkStep
<1> QED
  BY <1>2, <1>3 DEF MarkRun

(* The report message is stored. *)
LEMMA DeliverStep ==
  ASSUME ResearchIInv, NEW a \in Actors, Deliver(a)
  PROVE  ResearchIInv'
<1> USE DEF ResearchIInv
<1>1. /\ place[a] = "deliver" /\ UNCHANGED <<task, taskRun>> /\ Budgeted
      /\ messages' = [messages EXCEPT ![a] = @ + 1]
  BY DEF Deliver, budget, task, Budgeted, ResearchTypeOK
<1>2. Moves(a, "mark")
  BY GotoMoves DEF Deliver, Places
<1>3. messages' \in [Actors -> Nat]
  BY <1>1 DEF ResearchTypeOK
<1>4. ResearchTypeOK'
  BY <1>1, <1>2, <1>3 DEF ResearchTypeOK, Moves, Typed, Places, task, Budgeted
<1>5. Kept
  BY <1>1, <1>2 DEF Guarded, Authored, Moves, Others, Kept
<1>6. Agrees'
  <2> SUFFICES ASSUME ~overlapped' PROVE Pending' /\ OneReport' /\ RunAgrees'
    BY DEF Agrees
  <2>1. ~overlapped /\ Pending /\ OneReport /\ RunAgrees
    BY <1>1 DEF Agrees, task
  <2>2. status = "completed" /\ report = a /\ \A b \in Actors : messages[b] = 0
    BY <1>1, <2>1 DEF Pending
  <2>3. \A b \in Actors \ {a} : place[b] # "deliver"
    BY <2>1, <2>2 DEF Pending
  <2>4. messages'[a] = 1 /\ \A b \in Actors \ {a} : messages'[b] = 0
    BY <1>1, <2>2 DEF ResearchTypeOK
  <2>5. Pending'
    BY <1>1, <1>2, <2>1, <2>2, <2>3 DEF Pending, Moves, Others, task, Authored
  <2> QED
    BY <1>1, <2>1, <2>2, <2>4, <2>5 DEF OneReport, RunAgrees, task
<1>7. Room'
  BY <1>1, <1>2, Constants DEF Room, Moves, Others, Deliver, budget
<1> QED
  BY <1>4, <1>5, <1>6, <1>7 DEF Kept

(* The loop takes over from a background run that raised.                  *)
LEMMA RescueKeeps ==
  ASSUME ResearchIInv, NEW a \in Actors, Rescue(a)
  PROVE  ResearchIInv'
<1> USE DEF ResearchIInv
<1> DEFINE t == [NoStep EXCEPT !.by = "rescue", !.target = "failed"]
<1>1. \A x : x = t => x \in Step /\ x.by = "rescue" /\ x.target = "failed"
  BY RescueStep
<1>2. t \in Step /\ t.by = "rescue" /\ t.target = "failed"
  BY <1>1
<1>3. /\ place[a] = "rescue" /\ place[loop] = "idle" /\ Calm /\ Budgeted
      /\ place' = [place EXCEPT ![a] = "idle", ![loop] = "read"]
      /\ step' = [step EXCEPT ![a] = NoStep, ![loop] = t]
  BY DEF Rescue, budget, Calm, Budgeted, ResearchTypeOK
<1> HIDE DEF t
<1>4. a # loop
  BY <1>3
<1>5. /\ place' \in [Actors -> Places] /\ place'[a] = "idle" /\ place'[loop] = "read"
      /\ \A b \in Actors \ {a, loop} : place'[b] = place[b]
  BY <1>3, <1>4, Constants DEF ResearchTypeOK, Places
<1>6. /\ step' \in [Actors -> Step] /\ step'[a] = NoStep /\ step'[loop] = t
      /\ \A b \in Actors \ {a, loop} : step'[b] = step[b]
  BY <1>2, <1>3, <1>4, Constants DEF ResearchTypeOK
<1>7. ResearchTypeOK'
  BY <1>3, <1>5, <1>6 DEF ResearchTypeOK, Places, Calm, task, Budgeted
<1>8. Guarded'
  BY <1>5, <1>6 DEF Guarded
<1>9. Authored'
  BY <1>2, <1>5, <1>6, Constants DEF Authored
<1>10. Agrees'
  BY <1>3, <1>5, <1>6 DEF Agrees, Pending, OneReport, RunAgrees, Calm, task
<1>11. Room'
  BY <1>2, <1>6 DEF Room
<1> QED
  BY <1>7, <1>8, <1>9, <1>10, <1>11

(* Core dies: every actor is gone. *)
LEMMA RestartStep ==
  ASSUME ResearchIInv, Restart
  PROVE  ResearchIInv'
<1> USE DEF ResearchIInv
<1>1. ResearchTypeOK'
  BY Constants, ResearchAssumption DEF Restart, ResearchTypeOK, task
<1>2. Guarded' /\ Authored'
  BY Constants DEF Restart, Guarded, Authored
<1>3. Agrees'
  BY DEF Restart, Agrees, Pending, OneReport, RunAgrees, task
<1>4. Room'
  BY Constants DEF Restart, Room
<1> QED
  BY <1>1, <1>2, <1>3, <1>4

-----------------------------------------------------------------------------
(* The theorems. *)

(* ResearchIInv holds in every reachable state, for any threads, runs and restarts. *)
THEOREM ResearchInvariant == ResearchSpec => []ResearchIInv
<1>1. ResearchInit => ResearchIInv
  <2> SUFFICES ASSUME ResearchInit PROVE ResearchIInv
    OBVIOUS
  <2>1. ResearchTypeOK
    <3>1. 0 \in 0..MaxRuns /\ 0 \in 0..MaxRestarts
      BY ResearchAssumption
    <3> QED
      BY <3>1, Constants DEF ResearchInit, ResearchTypeOK, Statuses
  <2>2. Guarded /\ Authored /\ Room /\ Agrees
    BY Constants DEF ResearchInit, Guarded, Authored, Room, Agrees, Pending, OneReport, RunAgrees
  <2> QED
    BY <2>1, <2>2 DEF ResearchIInv
<1>2. ResearchIInv /\ [ResearchNext]_researchVars => ResearchIInv'
  <2> SUFFICES ASSUME ResearchIInv, [ResearchNext]_researchVars PROVE ResearchIInv'
    OBVIOUS
  <2>1. CASE ResearchNext
    BY <2>1, ResearchCases, RequestStep, SetStatusStep, ChatStep, EnsureRunStep, FinishStep,
       RestartStep, RunnerStep, DeliverStep, MarkRunStep, ReadStep, CommitStep, RescueKeeps
  <2>2. CASE UNCHANGED researchVars
    BY <2>2 DEF researchVars, ResearchIInv, ResearchTypeOK, Guarded, Authored, Agrees, Pending,
                OneReport, RunAgrees, Room
  <2> QED
    BY <2>1, <2>2
<1> QED
  BY <1>1, <1>2, PTL DEF ResearchSpec

(* A task's thread gets one report message, that of the completed task, and *)
(* its Run says what became of it, whatever runners, requests and restarts *)
(* meet, unless transitions overlapped (transition_task, v5_service.py).   *)
THEOREM OneOutcome == ResearchSpec => []OutcomeIsOne
<1>1. ResearchIInv => OutcomeIsOne
  BY DEF ResearchIInv, Agrees, OutcomeIsOne, OneReport, RunAgrees
<1> QED
  BY <1>1, ResearchInvariant, PTL
=============================================================================
