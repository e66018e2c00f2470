------------------------------ MODULE Research ------------------------------
(***************************************************************************)
(* One research task bound to a thread: the guarded transitions of         *)
(* core/services/v5_service.py, the runner of                              *)
(* core/services/research_execution_service.py, and those who move a task: *)
(* the PATCH route, research-mode chat and the tool manage_research_tasks. *)
(*                                                                         *)
(* Routes, chat and tools run on the event loop, one at a time and without *)
(* an await.  A started task is run in a worker thread; the tool's "run"   *)
(* runs it on the loop.  A transition reads the row, checks it and commits *)
(* with no lock and at read committed: another actor's transition may come *)
(* in between, and the later commit wins.                                  *)
(***************************************************************************)
EXTENDS Naturals

CONSTANTS
    Workers,        \* threads for background runs
    loop,           \* the event loop
    user,           \* stands for the author of a report that was submitted
    none,
    MaxRuns,        \* bound on executions of run_task
    MaxRestarts     \* bound on restarts of the core

ASSUME ResearchAssumption ==
    /\ loop \notin Workers
    /\ user \notin Workers \cup {loop}
    /\ none \notin Workers \cup {loop, user}
    /\ MaxRuns \in Nat /\ MaxRestarts \in Nat

VARIABLES
    status,         \* ResearchTask.status
    report,         \* ResearchTask.artifact_id: whose report, or none
    taskRun,        \* status of the task's Run, or "none"
    messages,       \* report messages of the thread, by their author
    scheduled,      \* background runs that have not begun
    place,          \* place[a]: where actor a is
    step,           \* step[a]: the transition it makes, and the status that read
    overlapped,     \* history: a transition committed over one it had not seen
    runs, restarts  \* counters for the bounds

researchVars == <<status, report, taskRun, messages, scheduled, place, step,
                  overlapped, runs, restarts>>
task    == <<status, report, overlapped>>
budget  == <<runs, restarts>>

Actors   == Workers \cup {loop}
Authors  == Actors \cup {user}
Terminal == {"cancelled", "completed", "failed"}
Statuses == {"planned", "approved", "running"} \cup Terminal
Actions  == {"approve", "start", "cancel", "complete", "fail"}

\* by: who asks for the transition.  A "status" step sets the status outright.
Step == [by : {"patch", "chat", "tool", "runner", "rescue", "status"},
         target : Statuses, author : Authors \cup {none}, seen : Statuses]
NoStep == [by |-> "status", target |-> "planned", author |-> none, seen |-> "planned"]

ResearchTypeOK ==
    /\ status \in Statuses
    /\ report \in Authors \cup {none}
    /\ taskRun \in {"none", "running", "succeeded", "failed", "cancelled"}
    /\ messages \in [Actors -> Nat]
    /\ scheduled \in Nat
    /\ place \in [Actors -> {"idle", "begin", "poll", "report", "artifact", "stop", "rescue",
                             "read", "commit", "after", "deliver", "mark"}]
    /\ step \in [Actors -> Step]
    /\ overlapped \in BOOLEAN
    /\ runs \in 0..MaxRuns /\ restarts \in 0..MaxRestarts

\* create_task: planned, waiting for the user.
ResearchInit ==
    /\ status = "planned" /\ report = none /\ taskRun = "none"
    /\ messages = [a \in Actors |-> 0]
    /\ scheduled = 0
    /\ place = [a \in Actors |-> "idle"]
    /\ step = [a \in Actors |-> NoStep]
    /\ overlapped = FALSE
    /\ runs = 0 /\ restarts = 0

-----------------------------------------------------------------------------
(* Transitions.                                                            *)

\* Bug: a finished task may be completed.
AllowedToComplete(target, s) ==
    CASE target = "approved" -> s = "planned"
      [] target = "running" -> s \in {"planned", "approved"}
      [] target = "completed" -> TRUE
      [] OTHER -> s \notin Terminal

\* _normalized_transition_fields, for the action that leads to target.
Allowed(target, s) ==
    CASE target = "approved" -> s = "planned"
      [] target = "running" -> s \in {"planned", "approved"}
      [] OTHER -> s \notin Terminal

Target(action) ==
    CASE action = "approve" -> "approved" [] action = "start" -> "running"
      [] action = "cancel" -> "cancelled" [] action = "complete" -> "completed"
      [] OTHER -> "failed"

\* Without an action, any status may follow one that is not terminal.
Permits(t, s) == IF t.by = "status" THEN s \notin Terminal ELSE Allowed(t.target, s)

Goto(a, where) == place' = [place EXCEPT ![a] = where]
Begins(a, by, target, author) ==
    /\ Goto(a, "read")
    /\ step' = [step EXCEPT ![a] = [NoStep EXCEPT !.by = by, !.target = target,
                                                  !.author = author]]
Returns(a) == Goto(a, "idle") /\ step' = [step EXCEPT ![a] = NoStep]

\* transition_task reads the row and checks it.
Read(a) ==
    /\ place[a] = "read" /\ Permits(step[a], status)
    /\ step' = [step EXCEPT ![a].seen = status]
    /\ Goto(a, "commit")
    /\ UNCHANGED <<task, taskRun, messages, scheduled, budget>>

\* ResearchTaskStateError.  A request gets an error; a runner that cannot start
\* returns; otherwise the exception ends it, and a background run is rescued.
Refused(a) ==
    /\ place[a] = "read" /\ ~Permits(step[a], status)
    /\ IF step[a].by = "runner" /\ step[a].target # "running" /\ a # loop
       THEN Goto(a, "rescue") /\ UNCHANGED step
       ELSE Returns(a)
    /\ UNCHANGED <<task, taskRun, messages, scheduled, budget>>

\* Where an actor goes once its transition is committed.
Afterwards(t) ==
    CASE t.by = "runner" /\ t.target = "running" -> "poll"
      [] t.by = "runner" /\ t.target = "completed" -> "deliver"
      [] t.by = "runner" /\ t.target = "failed" -> "mark"
      [] t.by = "patch" /\ t.target # "approved" -> "after"
      [] t.by = "chat" /\ t.target = "running" -> "after"
      [] OTHER -> "idle"

\* The row is written whatever it holds by now.
Commit(a) ==
    LET t == step[a]
    IN  /\ place[a] = "commit"
        /\ status' = t.target
        /\ report' = IF t.author # none THEN t.author ELSE report
        /\ overlapped' = (overlapped \/ status # t.seen)
        /\ IF Afterwards(t) = "idle" THEN Returns(a)
           ELSE Goto(a, Afterwards(t)) /\ UNCHANGED step
        /\ UNCHANGED <<taskRun, messages, scheduled, budget>>

-----------------------------------------------------------------------------
(* Requests, on the event loop.                                            *)

\* PATCH with an action, and the tool's actions.  The status is checked once
\* before a submitted report is stored, which the route takes with any action.
Request(by, action) ==
    /\ place[loop] = "idle"
    /\ Allowed(Target(action), status)
    /\ action = "start" => runs < MaxRuns
    /\ \/ Begins(loop, by, Target(action), none)
       \/ (by = "patch" \/ action = "complete") /\ Begins(loop, by, Target(action), user)
    /\ UNCHANGED <<task, taskRun, messages, scheduled, budget>>

\* PATCH or the tool with a status and no action.
SetStatus(target) ==
    /\ place[loop] = "idle"
    /\ status \notin Terminal
    /\ Begins(loop, "status", target, none)
    /\ UNCHANGED <<task, taskRun, messages, scheduled, budget>>

\* _handle_research_mode_chat_message: a cancellation or a confirmation.
Chat(action) ==
    /\ place[loop] = "idle"
    /\ \/ action = "cancel" /\ status \notin Terminal
       \/ action = "start" /\ status \in {"planned", "approved"} /\ runs < MaxRuns
    /\ Begins(loop, "chat", Target(action), none)
    /\ UNCHANGED <<task, taskRun, messages, scheduled, budget>>

\* _ensure_research_task_run and the background task, unless the task is one
\* that is not executed by itself; or the workspace is gone.
EnsureRun ==
    /\ place[loop] = "after" /\ step[loop].target = "running"
    /\ \/ /\ taskRun' = IF taskRun = "none" THEN "running" ELSE taskRun
          /\ \/ scheduled' = scheduled + 1 /\ runs' = runs + 1
             \/ step[loop].by = "patch" /\ UNCHANGED <<scheduled, runs>>
       \/ taskRun = "none" /\ UNCHANGED <<taskRun, scheduled, runs>>
    /\ Returns(loop)
    /\ UNCHANGED <<task, messages, restarts>>

TaskRunStatus(s) == IF s = "completed" THEN "succeeded" ELSE s
Mark(s) == taskRun' = IF taskRun = "none" THEN "none" ELSE TaskRunStatus(s)

\* _finish_research_task_run
Finish ==
    /\ place[loop] = "after" /\ step[loop].target # "running"
    /\ Mark(step[loop].target)
    /\ Returns(loop)
    /\ UNCHANGED <<task, messages, scheduled, budget>>

-----------------------------------------------------------------------------
(* The runner: run_task.                                                   *)

\* _run_research_task_background, and the tool's "run".
StartRunner(a) ==
    /\ place[a] = "idle"
    /\ IF a = loop
       THEN runs < MaxRuns /\ runs' = runs + 1 /\ UNCHANGED scheduled
       ELSE scheduled > 0 /\ scheduled' = scheduled - 1 /\ UNCHANGED runs
    /\ Goto(a, "begin")
    /\ UNCHANGED <<task, taskRun, messages, step, restarts>>

\* A finished task is left alone, a task that is not running is started.
Begin(a) ==
    /\ place[a] = "begin"
    /\ IF status \in Terminal THEN Returns(a)
       ELSE IF status = "running" THEN Goto(a, "poll") /\ UNCHANGED step
       ELSE Begins(a, "runner", "running", none)
    /\ UNCHANGED <<task, taskRun, messages, scheduled, budget>>

Fails(a) == Begins(a, "runner", "failed", none)

\* Bug: the status is looked at only before the artifact is stored.
SeesCancellationLate(a) == FALSE

\* The look at the status before the next poll.
SeesCancellation(a) ==
    /\ place[a] = "poll" /\ status = "cancelled"
    /\ Goto(a, "stop")
    /\ UNCHANGED <<task, taskRun, messages, scheduled, step, budget>>

\* The end of the adapter's poll loop, or of gathering: the adapter reports a
\* report, a cancellation or a failure, and may have done so before the task was
\* cancelled; a failure may also be one of the policy or the configuration.
Gather(a) ==
    /\ place[a] = "poll"
    /\ \/ Goto(a, "report") /\ UNCHANGED step
       \/ Goto(a, "stop") /\ UNCHANGED step
       \/ Fails(a)
    /\ UNCHANGED <<task, taskRun, messages, scheduled, budget>>

\* The last look at the status; a report without sources or with wrong
\* citations fails.
CheckReport(a) ==
    /\ place[a] = "report"
    /\ \/ status = "cancelled" /\ Goto(a, "stop") /\ UNCHANGED step
       \/ status # "cancelled" /\ Goto(a, "artifact") /\ UNCHANGED step
       \/ Fails(a)
    /\ UNCHANGED <<task, taskRun, messages, scheduled, budget>>

\* create_text_artifact and the derived formats, which may fail and leave an
\* artifact that no task refers to.
CreateArtifact(a) ==
    /\ place[a] = "artifact"
    /\ Begins(a, "runner", "completed", a) \/ Fails(a)
    /\ UNCHANGED <<task, taskRun, messages, scheduled, budget>>

\* _deliver_report_message
Deliver(a) ==
    /\ place[a] = "deliver"
    /\ messages' = [messages EXCEPT ![a] = @ + 1]
    /\ Goto(a, "mark")
    /\ UNCHANGED <<task, taskRun, scheduled, step, budget>>

\* _mark_run_status at the end, and _cancelled_result, which leaves the task.
MarkRun(a) ==
    /\ \/ place[a] = "mark" /\ Mark(step[a].target)
       \/ place[a] = "stop" /\ Mark("cancelled")
    /\ Returns(a)
    /\ UNCHANGED <<task, messages, scheduled, budget>>

\* Any other exception of the runner.
Raise(a) ==
    /\ place[a] \in {"poll", "report", "artifact", "deliver"}
    /\ IF a = loop THEN Returns(a)
       ELSE Goto(a, "rescue") /\ UNCHANGED step
    /\ UNCHANGED <<task, taskRun, messages, scheduled, budget>>

\* The event loop gets the exception of a background run and fails the task.
Rescue(a) ==
    /\ place[a] = "rescue" /\ place[loop] = "idle"
    /\ place' = [place EXCEPT ![a] = "idle", ![loop] = "read"]
    /\ step' = [step EXCEPT ![a] = NoStep,
                            ![loop] = [NoStep EXCEPT !.by = "rescue", !.target = "failed"]]
    /\ UNCHANGED <<task, taskRun, messages, scheduled, budget>>

\* Nothing resumes a task after a restart, except the tool's "run".
Restart ==
    /\ restarts < MaxRestarts /\ restarts' = restarts + 1
    /\ place' = [a \in Actors |-> "idle"] /\ step' = [a \in Actors |-> NoStep]
    /\ scheduled' = 0
    /\ UNCHANGED <<task, taskRun, messages, runs>>

-----------------------------------------------------------------------------
\* A step of whatever actor a is in the middle of, except what it waits for.
ActorStep(a) ==
    \/ a = loop /\ (EnsureRun \/ Finish)
    \/ Begin(a) \/ SeesCancellation(a) \/ CheckReport(a) \/ CreateArtifact(a) \/ Deliver(a)
    \/ MarkRun(a) \/ Read(a) \/ Refused(a) \/ Commit(a) \/ Rescue(a)

ResearchNext ==
    \/ \E action \in Actions, by \in {"patch", "tool"} : Request(by, action)
    \/ \E s \in Statuses : SetStatus(s)
    \/ \E action \in {"cancel", "start"} : Chat(action)
    \/ \E a \in Actors : StartRunner(a) \/ ActorStep(a) \/ Gather(a) \/ Raise(a)
    \/ Restart

ResearchSpec == ResearchInit /\ [][ResearchNext]_researchVars

\* Threads and the loop run, and the poll loop comes back to its look at the
\* status; the adapter may never report.
ResearchFairSpec == ResearchSpec /\ \A a \in Actors : WF_researchVars(ActorStep(a))

-----------------------------------------------------------------------------
(* Properties.                                                             *)

\* However many runners and requests work on a task, its thread gets one report
\* message, and that is the report of the completed task.  (Transitions that
\* overlap are excepted: see CancelIsDurable.)
OneReport ==
    ~overlapped => \A a \in Actors : messages[a] > 0 =>
        /\ messages[a] = 1 /\ report = a /\ status = "completed"
        /\ \A b \in Actors \ {a} : messages[b] = 0

\* A Run that succeeded or failed is the Run of a task that did, although the
\* transition and the Run's status are two transactions and other requests and
\* runners come in between.
RunAgrees ==
    ~overlapped => /\ taskRun = "succeeded" => status = "completed"
                   /\ taskRun = "failed" => status = "failed"

\* Both, and the type: what the thread and the Run show is what became of the task.
OutcomeIsOne == ResearchTypeOK /\ OneReport /\ RunAgrees

\* The runners of a cancelled task stop, however long the adapter takes.
CancelStopsRunner ==
    status = "cancelled" ~>
        (status # "cancelled" \/ \A a \in Actors : place[a] \in {"idle", "rescue"})

\* The research document: "Cancellation is cooperative and durable."
CancelIsDurable == [][status = "cancelled" => status' = "cancelled"]_researchVars
=============================================================================
