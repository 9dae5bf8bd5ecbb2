------------------------------ MODULE FinalReport ------------------------------
(***************************************************************************)
(* What main() tells of the outcome of the program, composed with the      *)
(* executor: it waits for the program, lets its scope guard kill what may  *)
(* be left of it, and then reads the status twice without the mutex, for   *)
(* the final report (PersistAndCallbackManager::programFinished) and for   *)
(* the environment of the run-after command (src/src/main.cpp).  Requests  *)
(* for /_kill and signal handlers may be inside kill() meanwhile, or       *)
(* reading the status for an answer.                                       *)
(***************************************************************************)
EXTENDS KillHandler

CONSTANTS Main, ScopeGuard \* the calls of wait() and of kill() that main() makes

ASSUME MainAssumption == Main \in Waiters /\ ScopeGuard \in Killers

VARIABLES
  readers, \* those that are to be told the outcome yet, in this order
  branch,  \* the case of the switch that the first of them is in
  outcome  \* what each has been told

reportVars == <<readers, branch, outcome>>

Readers == <<"report", "environment">>

\* None of the cases of a switch.
NoCase == "none"

Untold == [how |-> "UNTOLD", value |-> 0]

\* The first of the readers is told.
Tell(how, value) ==
  /\ outcome' = [outcome EXCEPT ![Head(readers)] = [how |-> how, value |-> value]]
  /\ readers' = Tail(readers)
  /\ branch' = NoCase

\* The switch: in two of its cases the status is read again with the value, and
\* there is a default that no finished program should get to.
Switch ==
  /\ pc[ScopeGuard] = "done" /\ readers # <<>> /\ branch = NoCase
  /\ IF status \in {"EXITED", "SIGNALLED"}
     THEN branch' = status /\ UNCHANGED <<readers, outcome>>
     ELSE Tell(IF status = "CANNOT_KILL" THEN status ELSE "INVALID", 0)
  /\ UNCHANGED <<vars, handlerVars>>

\* exitCode() or exitSignal(): the status is tested once more.
ReadValue ==
  /\ branch # NoCase
  /\ Tell(branch, IF status = branch THEN waitStatus.value ELSE -1)
  /\ UNCHANGED <<vars, handlerVars>>

\* The wait of main() has no limit.
WaitsInFull == ~timed'[Main]

\* The scope is left, and kill() called, when the wait is over.
LeavesScope == pc'[ScopeGuard] # "idle" => pc[Main] = "done"

\* All that the executor, its callers and the threads that answer do.
ExecutorStep ==
  /\ HandlerNext
  /\ WaitsInFull
  /\ LeavesScope
  /\ UNCHANGED reportVars

ReportInit ==
  /\ HandlerInit
  /\ readers = Readers
  /\ branch = NoCase
  /\ outcome = [r \in {"report", "environment"} |-> Untold]

ReportNext == ExecutorStep \/ Switch \/ ReadValue

ReportSpec == ReportInit /\ [][ReportNext]_<<vars, handlerVars, reportVars>> /\ Fairness

-------------------------------------------------------------------------------
(* Properties. *)

\* Main never meets a program without an outcome ("Invalid executor status after
\* it is completed", programFinished); and as long as no call of kill() has given
\* up, the callback server, the status file and the run-after command are told
\* the same, which is what waitpid() reported: the way the program ended and its
\* exit code or signal, although no reader takes the mutex.
OutcomeTold ==
  \A r \in {"report", "environment"} : outcome[r] # Untold =>
    /\ outcome[r].how # "INVALID"
    /\ pipeOpen => child = "reaped" /\ outcome[r] = end
===============================================================================
