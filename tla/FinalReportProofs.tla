--------------------------- MODULE FinalReportProofs ---------------------------
(***************************************************************************)
(* A proof about FinalReport: what main() tells of the outcome is what     *)
(* waitpid() reported, for any number of waiters and of threads that kill. *)
(* It rests on the invariant of ProgramExecutorProofs, which says what a   *)
(* thread may rely on to which wait() has returned true.                   *)
(***************************************************************************)
EXTENDS FinalReport, ProgramExecutorProofs

Listeners == {"report", "environment"}
Tellings == [how : {"UNTOLD", "EXITED", "SIGNALLED", "CANNOT_KILL"}, value : Int]

\* Main waits without a limit, and leaves its scope afterwards.
MainInv ==
  /\ ~timed[Main]
  /\ pc[Main] # "expired"
  /\ pc[Main] = "done" => told[Main]
  /\ pc[ScopeGuard] # "idle" => pc[Main] = "done"

ReadersInv ==
  /\ readers \in Seq(Listeners)
  /\ outcome \in [Listeners -> Tellings]
  /\ branch \in {NoCase, "EXITED", "SIGNALLED"}
  /\ branch # NoCase => readers # <<>> /\ told[Main] /\ (pipeOpen => branch = end.how)
  /\ \A r \in Listeners : outcome[r] # Untold => told[Main]

ReportInv == Started /\ MainInv /\ ReadersInv /\ OutcomeTold

-------------------------------------------------------------------------------
(* The wait of main. *)

\* It returns only once, and true.
LEMMA MainWaits ==
  ASSUME Inv, MainInv, Next, WaitsInFull, LeavesScope
  PROVE  MainInv' /\ (told[Main] => told'[Main])
<1> DEFINE Goal == /\ pc'[Main] # "expired"
                   /\ pc'[Main] = "done" => told'[Main]
                   /\ pc[Main] = "done" => pc'[Main] = "done"
                   /\ told[Main] => told'[Main]
<1>0. /\ Main \in Threads /\ Main \in Waiters /\ Main \notin Killers
      /\ pc \in [Threads -> Places] /\ told \in [Threads -> BOOLEAN]
  BY MainAssumption, ThreadsAssumption DEF Threads, Inv, TypeOK
<1>1. Broadcast[Main] \in {pc[Main], "signalled"} /\ (pc[Main] = "done" => Broadcast[Main] = "done")
      /\ Broadcast[Main] # "expired" /\ (Broadcast[Main] = "done" => pc[Main] = "done")
  BY <1>0 DEF Broadcast, MainInv
<1>2. ASSUME Start \/ StartWithoutFork \/ (\E how \in Ends : End(how)) \/ Background
      PROVE  Goal
  <2>1. UNCHANGED told /\ (UNCHANGED pc \/ pc' = Broadcast)
    BY <1>2 DEF Start, StartWithoutFork, End, Background, WaitPid, WaitPidFails,
       StoreStatus, StoreWaitStatus, callVars
  <2>2. CASE UNCHANGED pc
    BY <2>1, <2>2 DEF MainInv
  <2>3. CASE pc' = Broadcast
    BY <1>1, <2>1, <2>3 DEF MainInv
  <2> QED BY <2>1, <2>2, <2>3
<1>3. ASSUME NEW t \in Threads, t # Main, NEW ok \in BOOLEAN, Returned(t, ok)
      PROVE  pc'[Main] = pc[Main] /\ told'[Main] = told[Main]
  BY <1>0, <1>3 DEF Returned
<1>4. ASSUME NEW t \in Threads, t # Main, NEW limited \in BOOLEAN, EnterWait(t, limited)
      PROVE  pc'[Main] = pc[Main] /\ told'[Main] = told[Main]
  BY <1>0, <1>3, <1>4 DEF EnterWait
<1>5. ASSUME Returned(Main, TRUE)
      PROVE  pc'[Main] = "done" /\ told'[Main]
  BY <1>0, <1>5 DEF Returned
<1>6. ASSUME NEW w \in Waiters, WaiterStep(w) PROVE Goal
  <2>1. w \in Threads /\ (pc[w] = "signalled") \in BOOLEAN
    BY DEF Threads
  <2>2. ASSUME NEW limited \in BOOLEAN, Wait(w, limited) PROVE Goal
    <3>1. CASE w # Main
      BY <1>4, <2>1, <2>2, <3>1 DEF Wait, MainInv
    <3>2. CASE w = Main
      <4>1. pc[Main] = "idle" /\ EnterWait(Main, limited)
        BY <2>2, <3>2 DEF Wait
      <4>2. CASE status = "RUNNING"
        BY <1>0, <4>1, <4>2 DEF EnterWait
      <4>3. CASE status # "RUNNING"
        BY <1>5, <4>1, <4>3 DEF EnterWait
      <4> QED BY <4>2, <4>3
    <3> QED BY <3>1, <3>2
  <2>3. CASE Expire(w)
    <3>1. w # Main
      BY <2>3 DEF Expire, MainInv
    <3> QED BY <1>0, <2>1, <2>3, <3>1 DEF Expire, MainInv
  <2>4. CASE LeaveWait(w)
    <3>1. CASE w # Main
      BY <1>3, <2>1, <2>4, <3>1 DEF LeaveWait, MainInv
    <3>2. CASE w = Main
      <4>1. pc[Main] = "signalled" /\ Returned(Main, TRUE)
        BY <2>4, <3>2 DEF LeaveWait, MainInv
      <4> QED BY <1>5, <4>1
    <3> QED BY <3>1, <3>2
  <2> QED BY <1>6, <2>2, <2>3, <2>4 DEF WaiterStep
<1>7. ASSUME NEW k \in Killers, KillerStep(k) PROVE Goal
  <2>1. k \in Threads /\ k # Main /\ (pc[k] = "signalled") \in BOOLEAN
        /\ (stage[k] \notin Untimed) \in BOOLEAN
    BY <1>0 DEF Threads
  <2>2. CASE Kill(k) \/ LockKillMutex(k) \/ KillIfRunning(k) \/ Expire(k)
    BY <1>0, <2>1, <2>2 DEF Kill, LockKillMutex, KillIfRunning, Expire, MainInv
  <2>3. CASE KillWait(k)
    BY <1>4, <2>1, <2>3 DEF KillWait, MainInv
  <2>4. CASE LeaveWait(k)
    BY <1>3, <2>1, <2>4 DEF LeaveWait, MainInv
  <2>5. CASE GiveUp(k)
    <3>1. pc' = [Broadcast EXCEPT ![k] = "done"] /\ told' = told
      BY <2>5 DEF GiveUp
    <3>2. pc'[Main] = Broadcast[Main]
      BY <1>0, <2>1, <3>1 DEF Broadcast
    <3> QED BY <1>1, <3>1, <3>2 DEF MainInv
  <2> QED BY <1>7, <2>2, <2>3, <2>4, <2>5 DEF KillerStep
<1>8. Goal
  <2> HIDE DEF Goal
  <2> QED BY <1>2, <1>6, <1>7 DEF Next
<1> QED BY <1>8 DEF MainInv, WaitsInFull, LeavesScope

-------------------------------------------------------------------------------
(* The readers. *)

\* What main may rely on when its wait is over.
LEMMA MainKnows ==
  ASSUME Inv, told[Main]
  PROVE  /\ status \in {"EXITED", "SIGNALLED", "CANNOT_KILL"}
         /\ pipeOpen => child = "reaped" /\ status = end.how /\ waitStatus = end
BY MainAssumption DEF Inv, TypeOK, Statuses, WaitInv, Finished

LEMMA TellOK ==
  ASSUME ReportInv, readers # <<>>, NEW value \in Int,
         NEW how \in {"EXITED", "SIGNALLED", "CANNOT_KILL"},
         Tell(how, value), UNCHANGED vars, told[Main],
         pipeOpen => child = "reaped" /\ [how |-> how, value |-> value] = end
  PROVE  ReportInv'
<1>1. UNCHANGED <<status, child, end, pipeOpen, pc, timed, told>>
  BY DEF vars, fieldVars, childVars, callVars
<1>2. Head(readers) \in Listeners /\ Tail(readers) \in Seq(Listeners)
  BY DEF ReportInv, ReadersInv
<1>3. /\ outcome'[Head(readers)] = [how |-> how, value |-> value]
      /\ \A r \in Listeners : r # Head(readers) => outcome'[r] = outcome[r]
      /\ outcome' \in [Listeners -> Tellings]
  BY <1>2 DEF Tell, ReportInv, ReadersInv, Tellings
<1>4. Started' /\ MainInv'
  BY <1>1 DEF ReportInv, Started, MainInv
<1>5. ReadersInv'
  BY <1>1, <1>2, <1>3 DEF ReportInv, ReadersInv, Tell, NoCase
<1>6. OutcomeTold'
  BY <1>1, <1>2, <1>3 DEF ReportInv, OutcomeTold, Listeners
<1> QED BY <1>4, <1>5, <1>6 DEF ReportInv

LEMMA SwitchInv ==
  ASSUME Inv, ReportInv, Switch
  PROVE  ReportInv'
<1>1. told[Main]
  BY DEF Switch, ReportInv, MainInv
<1>2. CASE status \in {"EXITED", "SIGNALLED"}
  <2>1. branch' = status /\ UNCHANGED <<readers, outcome, vars>> /\ readers # <<>>
    BY <1>2 DEF Switch
  <2>2. UNCHANGED <<status, child, end, pipeOpen, pc, timed, told>>
    BY <2>1 DEF vars, fieldVars, childVars, callVars
  <2> QED BY <1>1, <1>2, <2>1, <2>2, MainKnows
          DEF ReportInv, Started, MainInv, ReadersInv, OutcomeTold
<1>3. CASE status \notin {"EXITED", "SIGNALLED"}
  <2>1. status = "CANNOT_KILL" /\ ~pipeOpen
    BY <1>1, <1>3, MainKnows DEF Inv, StatusInv
  <2>2. Tell("CANNOT_KILL", 0) /\ UNCHANGED vars /\ readers # <<>>
    BY <1>3, <2>1 DEF Switch
  <2> QED BY <1>1, <2>1, <2>2, TellOK
<1> QED BY <1>2, <1>3

LEMMA ReadValueInv ==
  ASSUME Inv, ReportInv, ReadValue
  PROVE  ReportInv'
<1> DEFINE value == IF status = branch THEN waitStatus.value ELSE -1
<1>1. /\ branch \in {"EXITED", "SIGNALLED"}
      /\ readers # <<>> /\ told[Main] /\ (pipeOpen => branch = end.how)
  BY DEF ReadValue, ReportInv, ReadersInv
<1>2. value \in Int
  BY DEF Inv, TypeOK, Outcomes
<1>3. pipeOpen => child = "reaped" /\ [how |-> branch, value |-> value] = end
  BY <1>1, MainKnows DEF Inv, TypeOK, Outcomes
<1>4. Tell(branch, value) /\ UNCHANGED vars
  BY DEF ReadValue
<1> QED BY <1>1, <1>2, <1>3, <1>4, TellOK

LEMMA UnchangedInv ==
  ASSUME ReportInv, UNCHANGED vars, UNCHANGED reportVars
  PROVE  ReportInv'
<1>1. UNCHANGED <<status, child, end, pipeOpen, pc, timed, told, readers, branch, outcome>>
  BY DEF vars, fieldVars, childVars, callVars, reportVars
<1> QED BY <1>1 DEF ReportInv, Started, MainInv, ReadersInv, OutcomeTold

LEMMA ExecutorInv ==
  ASSUME Inv, ReportInv, ExecutorStep
  PROVE  ReportInv'
<1>0. CASE \E k \in Handlers : HandlerStep(k)
  <2>1. UNCHANGED vars /\ UNCHANGED reportVars
    BY <1>0 DEF ExecutorStep, HandlerStep
  <2> QED BY <2>1, UnchangedInv
<1>1. CASE Next
  <2>1. /\ WaitsInFull /\ LeavesScope
        /\ UNCHANGED <<readers, branch, outcome>>
    BY DEF ExecutorStep, reportVars
  <2>2. MainInv' /\ (told[Main] => told'[Main])
    BY <1>1, <2>1, MainWaits DEF ReportInv
  <2>3. /\ Started'
        /\ child = "reaped" => child' = "reaped" /\ end' = end
        /\ status # "NOT_STARTED" /\ pipeOpen' => pipeOpen
    BY <1>1, StaysOver DEF ReportInv
  <2>4. told[Main] => status # "NOT_STARTED" /\ (pipeOpen => child = "reaped")
    BY MainKnows
  <2>5. ReadersInv'
    BY <2>1, <2>2, <2>3, <2>4 DEF ReportInv, ReadersInv
  <2>6. OutcomeTold'
    BY <2>1, <2>3, <2>4 DEF ReportInv, ReadersInv, OutcomeTold, Listeners
  <2> QED BY <2>2, <2>3, <2>5, <2>6 DEF ReportInv
<1> QED BY <1>0, <1>1 DEF ExecutorStep, HandlerNext

LEMMA ReportInitInv == ReportInit => Inv /\ ReportInv
<1> SUFFICES ASSUME ReportInit PROVE Inv /\ ReportInv
  OBVIOUS
<1>1. Init /\ Inv
  BY InitInv DEF ReportInit, HandlerInit
<1>2. Main \in Threads /\ ScopeGuard \in Threads
  BY MainAssumption DEF Threads
<1>3. Started /\ MainInv
  BY <1>1, <1>2 DEF Init, Started, MainInv
<1>4. ReadersInv
  <2>1. readers \in Seq(Listeners)
    BY DEF ReportInit, Readers, Listeners
  <2>2. outcome = [r \in Listeners |-> Untold] /\ Untold \in Tellings
    BY DEF ReportInit, Listeners, Untold, Tellings
  <2> QED BY <2>1, <2>2 DEF ReportInit, ReadersInv
<1>5. OutcomeTold
  BY DEF ReportInit, OutcomeTold
<1> QED BY <1>1, <1>3, <1>4, <1>5 DEF ReportInv

LEMMA ReportInvariance == ReportSpec => [](Inv /\ ReportInv)
<1> DEFINE rvars == <<vars, handlerVars, reportVars>>
<1>1. ReportInit => Inv /\ ReportInv
  BY ReportInitInv
<1>2. ASSUME Inv, ReportInv, [ReportNext]_rvars PROVE Inv' /\ ReportInv'
  <2>1. [Next]_vars
    BY <1>2 DEF ReportNext, ExecutorStep, HandlerNext, HandlerStep, Switch, ReadValue
  <2>2. Inv'
    BY <1>2, <2>1, StepTypeOK, StepStatus, StepWait, StepKill DEF Inv
  <2>3. CASE UNCHANGED rvars
    BY <1>2, <2>2, <2>3, UnchangedInv
  <2>4. CASE ReportNext
    BY <1>2, <2>2, <2>4, ExecutorInv, SwitchInv, ReadValueInv DEF ReportNext
  <2> QED BY <1>2, <2>3, <2>4
<1> QED BY <1>1, <1>2, PTL DEF ReportSpec

\* As long as no call of kill() has given up, the final report and the run-after
\* command are told what waitpid() reported, and they are always told something.
THEOREM OutcomeIsTold == ReportSpec => []OutcomeTold
<1>1. ReportInv => OutcomeTold
  BY DEF ReportInv
<1> QED BY <1>1, ReportInvariance, PTL

===============================================================================
