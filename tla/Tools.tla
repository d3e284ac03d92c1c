-------------------------------- MODULE Tools --------------------------------
(***************************************************************************)
(* The background work of src/tools: the worker loop and the schedulers of *)
(* jobs.  They share no state and call nothing of each other, so each      *)
(* behaviour follows one of them, chosen at the start.                     *)
(***************************************************************************)
EXTENDS Workers, Jobs

VARIABLE tool   \* the one this behaviour follows

vars == <<tool, workersVars, jobsVars>>

Init ==
  /\ tool \in {"workers", "jobs"}
  /\ WorkersInit /\ JobsInit

Next ==
  \/ tool = "workers" /\ WorkersNext /\ UNCHANGED <<tool, jobsVars>>
  \/ tool = "jobs" /\ JobsNext /\ UNCHANGED <<tool, workersVars>>

Spec == Init /\ [][Next]_vars /\ TasksSettle /\ TimersGoOn
=============================================================================
