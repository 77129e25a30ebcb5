-------------------------------- MODULE MCJobs --------------------------------
(* The background jobs for TLC: room reminders, new episodes, the release   *)
(* schedule and the devices pushes go to.  They share no state, so each is  *)
(* explored by itself.                                                      *)
EXTENDS Reminders, NewEpisodes, Schedule, PushDevices

VARIABLE side

mcVars == <<reminderVars, newEpisodesVars, scheduleVars, pushVars, side>>

MCInit ==
    /\ side \in {"reminders", "episodes", "schedule", "push"}
    /\ RemindersInit /\ NewEpisodesInit /\ ScheduleInit /\ PushInit

MCNext ==
    \/ /\ side = "reminders" /\ RemindersNext
       /\ UNCHANGED <<newEpisodesVars, scheduleVars, pushVars, side>>
    \/ /\ side = "episodes" /\ NewEpisodesNext
       /\ UNCHANGED <<reminderVars, scheduleVars, pushVars, side>>
    \/ /\ side = "schedule" /\ ScheduleNext
       /\ UNCHANGED <<reminderVars, newEpisodesVars, pushVars, side>>
    \/ /\ side = "push" /\ PushNext
       /\ UNCHANGED <<reminderVars, newEpisodesVars, scheduleVars, side>>

MCSpec == MCInit /\ [][MCNext]_mcVars

\* Types of all four.
JobsTypeOK == RemindersTypeOK /\ NewEpisodesTypeOK /\ PushTypeOK
=============================================================================
