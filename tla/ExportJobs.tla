----------------------------- MODULE ExportJobs -----------------------------
(***************************************************************************)
(* What the server promises of exports, whoever works on them: a job that  *)
(* is accepted is worked on once, by one worker; it ends as made, and then *)
(* its file is whole, or as refused, or it is abandoned where it was; and  *)
(* what has ended, or was made by the client, does not change again.  The  *)
(* file of a client is whatever the client says.                           *)
(***************************************************************************)
CONSTANT Jobs   \* the exports, those not asked for yet included

VARIABLES
  stage,  \* how far each job has come
  file    \* how much of its file is on disk

jobVars == <<stage, file>>

JobsInit ==
  /\ stage = [j \in Jobs |-> "absent"]
  /\ file = [j \in Jobs |-> "none"]

Moves(j, from, to) ==
  /\ stage[j] = from
  /\ stage' = [stage EXCEPT ![j] = to]
  /\ UNCHANGED file

Accept(j) == Moves(j, "absent", "queued")

Work(j) == Moves(j, "queued", "running")

Fill(j) ==
  /\ stage[j] = "running"
  /\ file' = [file EXCEPT ![j] = IF file[j] = "none" THEN "partial" ELSE "whole"]
  /\ UNCHANGED stage

Make(j) == file[j] = "whole" /\ Moves(j, "running", "made")

Refuse(j) == Moves(j, "running", "refused")

Abandon(j) == \E from \in {"queued", "running"} : Moves(j, from, "abandoned")

\* The client made the file, or says why not
Settle(j) ==
  /\ stage[j] = "absent"
  /\ \E to \in {"made", "refused"} : stage' = [stage EXCEPT ![j] = to]
  /\ \E what \in {"none", "partial", "whole"} : file' = [file EXCEPT ![j] = what]

JobsNext ==
  \E j \in Jobs :
    /\ stage'[j] # stage[j] \/ file'[j] # file[j]
    /\ \/ Accept(j) \/ Work(j) \/ Fill(j) \/ Make(j)
       \/ Refuse(j) \/ Abandon(j) \/ Settle(j)

JobsSpec == JobsInit /\ [][JobsNext]_jobVars
=============================================================================
