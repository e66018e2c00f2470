---------------------------- MODULE MCScheduler ----------------------------
(***************************************************************************)
(* Safety of what works in the background, in one run: scheduled jobs and  *)
(* a research task.  part names what a behaviour is about, the other stays *)
(* in its initial state.                                                   *)
(***************************************************************************)
EXTENDS Scheduler, Research

VARIABLES part

jobs     == vars
research == researchVars

\* Jobs: updates.  Faults: a run that raises and a crash, and no update.
\* Research: a background run and a second one, of either kind.  Restart: a run
\* and a restart of the core.
BackgroundInit == /\ part \in {"Jobs", "Faults", "Research", "Restart"}
                  /\ Init /\ ResearchInit

BackgroundNext ==
    \/ /\ \/ part = "Jobs" /\ Next /\ raises' = 0 /\ crashes' = 0
          \/ part = "Faults" /\ Next /\ version' = version
       /\ UNCHANGED <<part, research>>
    \/ /\ \/ part = "Research" /\ ResearchNext /\ restarts' = 0
          \/ part = "Restart" /\ ResearchNext /\ runs' \in {0, 1}
       /\ UNCHANGED <<part, jobs>>

BackgroundSpec == BackgroundInit /\ [][BackgroundNext]_<<part, jobs, research>>
=============================================================================
