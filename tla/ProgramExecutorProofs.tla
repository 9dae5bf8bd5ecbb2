------------------------- MODULE ProgramExecutorProofs -------------------------
(***************************************************************************)
(* Proofs about ProgramExecutor, for any number of threads, any outcome of *)
(* the program, any configuration of the waits and any of the faults.      *)
(*                                                                         *)
(* Why the escalation happens once: whoever holds _killMutex has sent the  *)
(* signals of its attempts so far and nobody else has sent any, as long as *)
(* the program runs; and the holder lets go only when it does not run any  *)
(* more, after which nothing is sent.                                      *)
(***************************************************************************)
EXTENDS ProgramExecutor, TLAPS

\* The places of a killer that holds _killMutex, and those where it has waited.
Waited == {"waiting", "signalled", "expired", "giveup"}
Holding == {"signal", "wait"} \cup Waited

\* The outcome of the program has been recorded, if the pipe is still open.
Finished ==
  pipeOpen => /\ waitPc = "done"
              /\ child = "reaped"
              /\ status = end.how
              /\ waitStatus = end

\* The status, the background thread and the pipe.
StatusInv ==
  /\ status = "NOT_STARTED" => waitPc = "none" /\ ~pipeOpen
  /\ waitPc = "none" => status = "NOT_STARTED"
  /\ status = "RUNNING" => pipeOpen /\ waitPc # "storing"
  /\ status = "CANNOT_KILL" => ~pipeOpen
  /\ waitPc \in {"reaped", "storing"} => child = "reaped"
  /\ waitPc = "storing" => status = end.how
  /\ waitPc = "storing" \/ status \in {"NOT_STARTED", "RUNNING"} \/ Finished

\* The threads that wait, and those that have waited.
WaitInv ==
  /\ WaitersWoken
  /\ \A w \in Waiters : pc[w] \in {"idle", "waiting", "signalled", "expired", "done"}
  /\ \A t \in Threads : pc[t] \notin {"idle", "done"} => status # "NOT_STARTED"
  /\ \A t \in Threads : pc[t] = "signalled" =>
       status # "RUNNING" /\ Finished
  /\ \A w \in Waiters : told[w] =>
       status \notin {"RUNNING", "NOT_STARTED"} /\ Finished

\* The signals sent, as far as the holder of _killMutex has got.
KillInv ==
  /\ PrefixSent
  /\ \A k \in Killers : pc[k] \in Holding <=> killMutex = k
  /\ (killMutex = "none" /\ status \in {"NOT_STARTED", "RUNNING"}) => sent = <<>>
  /\ \A k \in Killers : pc[k] = "signal" =>
       (status = "RUNNING" => sent = Attempted(stage[k] - 1))
  /\ \A k \in Killers : pc[k] = "wait" =>
       (status = "RUNNING" => sent = Attempted(stage[k]))
  /\ \A k \in Killers : pc[k] \in Waited =>
       sent = Attempted(stage[k]) /\ pipeOpen
  /\ \A k \in Killers : pc[k] = "giveup" => stage[k] = Attempts

Inv == TypeOK /\ StatusInv /\ WaitInv /\ KillInv

\* What each attempt adds to the signals sent.
LEMMA Attempts3 ==
  /\ Attempted(0) = <<>>
  /\ \A n \in 1..3 : Attempted(n) = Append(Attempted(n - 1), Escalation[n])
  /\ Attempted(3) = Escalation
  /\ \A n \in 1..3 : Escalation[n] \in {"SIGINT", "SIGKILL"}
<1>1. Attempted(0) = <<>>
  BY DEF Attempted
<1>2. /\ Escalation \in Seq({"SIGINT", "SIGKILL"})
      /\ Len(Escalation) = 3
  BY DEF Escalation
<1>3. ASSUME NEW n \in 1..3
      PROVE  Attempted(n) = Append(Attempted(n - 1), Escalation[n])
  <2>1. /\ Attempted(n) \in Seq({"SIGINT", "SIGKILL"}) /\ Len(Attempted(n)) = n
        /\ Attempted(n - 1) \in Seq({"SIGINT", "SIGKILL"})
        /\ Len(Attempted(n - 1)) = n - 1
    BY <1>2 DEF Attempted
  <2> QED BY <2>1 DEF Attempted
<1>4. Attempted(3) = Escalation
  <2>1. Escalation \in [1..3 -> {"SIGINT", "SIGKILL"}]
    BY <1>2
  <2>2. Attempted(3) = [i \in 1..3 |-> Escalation[i]]
    BY DEF Attempted
  <2> QED BY <2>1, <2>2, Zenon
<1>5. \A n \in 1..3 : Escalation[n] \in {"SIGINT", "SIGKILL"}
  BY DEF Escalation
<1> QED BY <1>1, <1>3, <1>4, <1>5

LEMMA InitInv == Init => Inv
<1> SUFFICES ASSUME Init PROVE Inv
  OBVIOUS
<1> USE DEF Init
<1>1. TypeOK
  <2>1. NoWaitStatus \in Outcomes
    BY DEF NoWaitStatus, Outcomes
  <2>2. /\ pc \in [Threads -> Places]
        /\ stage \in [Threads -> 1..3]
    BY DEF Places, Attempts
  <2>3. sent \in Seq({"SIGINT", "SIGKILL"})
    OBVIOUS
  <2> QED BY <2>1, <2>2, <2>3 DEF TypeOK, Statuses
<1>2. StatusInv
  BY DEF StatusInv, Finished
<1>3. WaitInv
  BY DEF WaitInv, WaitersWoken, Threads
<1>4. PrefixSent
  BY Attempts3 DEF PrefixSent
<1>5. KillInv
  BY <1>4, ThreadsAssumption DEF KillInv, Holding, Waited, Threads
<1> QED BY <1>1, <1>2, <1>3, <1>5 DEF Inv

\* The threads that are not t stay where they are when a wait() of t returns.
LEMMA ReturnedTypes ==
  ASSUME TypeOK, NEW t \in Threads, NEW ok \in BOOLEAN, Returned(t, ok)
  PROVE  /\ pc' \in [Threads -> Places]
         /\ stage' \in [Threads -> 1..3]
         /\ told' \in [Threads -> BOOLEAN]
         /\ killMutex' \in Killers \cup {"none"}
<1>1. CASE t \in Waiters
  BY <1>1 DEF Returned, TypeOK, Places
<1>2. CASE t \notin Waiters /\ ok
  BY <1>2 DEF Returned, TypeOK, Places
<1>3. CASE t \notin Waiters /\ ~ok /\ stage[t] < Attempts
  <2>1. stage[t] \in 1..3 /\ stage[t] + 1 \in 1..3
    BY <1>3 DEF TypeOK, Attempts
  <2> QED BY <1>3, <2>1 DEF Returned, TypeOK, Places, Attempts
<1>4. CASE t \notin Waiters /\ ~ok /\ ~(stage[t] < Attempts)
  BY <1>4 DEF Returned, TypeOK, Places
<1> QED BY <1>1, <1>2, <1>3, <1>4

LEMMA EnterWaitTypes ==
  ASSUME TypeOK, NEW t \in Threads, NEW limited \in BOOLEAN, EnterWait(t, limited)
  PROVE  /\ pc' \in [Threads -> Places]
         /\ stage' \in [Threads -> 1..3]
         /\ timed' \in [Threads -> BOOLEAN]
         /\ told' \in [Threads -> BOOLEAN]
         /\ killMutex' \in Killers \cup {"none"}
<1>1. CASE status = "RUNNING"
  BY <1>1 DEF EnterWait, TypeOK, Places
<1>2. CASE status # "RUNNING"
  BY <1>2, ReturnedTypes DEF EnterWait, TypeOK
<1> QED BY <1>1, <1>2

LEMMA BroadcastTypes == TypeOK => Broadcast \in [Threads -> Places]
BY DEF TypeOK, Broadcast, Places

LEMMA StepTypeOK == TypeOK /\ [Next]_vars => TypeOK'
<1> SUFFICES ASSUME TypeOK, [Next]_vars PROVE TypeOK'
  OBVIOUS
<1> USE DEF fieldVars, childVars, callVars
<1>1. CASE Start
  BY <1>1 DEF Start, TypeOK, Statuses
<1>2. CASE StartWithoutFork
  BY <1>2 DEF StartWithoutFork, TypeOK, Statuses
<1>3. ASSUME NEW how \in Ends, End(how) PROVE TypeOK'
  <2>1. how \in Outcomes
    BY EndAssumption DEF Ends, Exited, Signalled, Outcomes
  <2> QED BY <1>3, <2>1 DEF End, TypeOK
<1>4. CASE WaitPid
  BY <1>4 DEF WaitPid, TypeOK
<1>5. CASE WaitPidFails
  BY <1>5 DEF WaitPidFails, TypeOK
<1>6. CASE StoreStatus
  <2>1. end.how \in {"EXITED", "SIGNALLED"}
    BY DEF TypeOK, Outcomes
  <2> QED BY <1>6, <2>1 DEF StoreStatus, TypeOK, Statuses
<1>7. CASE StoreWaitStatus
  BY <1>7, BroadcastTypes DEF StoreWaitStatus, TypeOK
<1>8. ASSUME NEW w \in Waiters, NEW limited \in BOOLEAN, Wait(w, limited)
      PROVE  TypeOK'
  BY <1>8, EnterWaitTypes DEF Wait, TypeOK, Threads
<1>9. ASSUME NEW t \in Threads, Expire(t) PROVE TypeOK'
  BY <1>9 DEF Expire, TypeOK, Places
<1>10. ASSUME NEW t \in Threads, LeaveWait(t) PROVE TypeOK'
  BY <1>10, ReturnedTypes DEF LeaveWait, TypeOK
<1>11. ASSUME NEW k \in Killers, Kill(k) PROVE TypeOK'
  BY <1>11 DEF Kill, TypeOK, Places
<1>12. ASSUME NEW k \in Killers, LockKillMutex(k) PROVE TypeOK'
  <2>1. [stage EXCEPT ![k] = 1] \in [Threads -> 1..3]
    <3>1. 1 \in 1..3
      BY DEF Attempts
    <3> QED BY <3>1 DEF TypeOK
  <2>2. [pc EXCEPT ![k] = "signal"] \in [Threads -> Places]
    BY DEF TypeOK, Places
  <2> QED BY <1>12, <2>1, <2>2 DEF LockKillMutex, TypeOK
<1>13. ASSUME NEW k \in Killers, KillIfRunning(k) PROVE TypeOK'
  <2>1. Escalation[stage[k]] \in {"SIGINT", "SIGKILL"}
    BY Attempts3 DEF TypeOK, Threads, Attempts
  <2>2. sent' \in Seq({"SIGINT", "SIGKILL"})
    BY <1>13, <2>1 DEF KillIfRunning, Send, TypeOK
  <2> QED BY <1>13, <2>2 DEF KillIfRunning, TypeOK, Places
<1>14. ASSUME NEW k \in Killers, KillWait(k) PROVE TypeOK'
  BY <1>14, EnterWaitTypes DEF KillWait, TypeOK, Threads
<1>15. ASSUME NEW k \in Killers, GiveUp(k) PROVE TypeOK'
  <2>1. [Broadcast EXCEPT ![k] = "done"] \in [Threads -> Places]
    BY BroadcastTypes DEF Places
  <2> QED BY <1>15, <2>1 DEF GiveUp, TypeOK, Statuses
<1>16. CASE UNCHANGED vars
  BY <1>16 DEF vars, TypeOK
<1> QED
  BY <1>1, <1>2, <1>3, <1>4, <1>5, <1>6, <1>7, <1>8, <1>9, <1>10, <1>11, <1>12,
     <1>13, <1>14, <1>15, <1>16
  DEF Next, Background, WaiterStep, KillerStep, Threads


\* A thread that is woken was waiting, and no thread is left waiting.
LEMMA BroadcastWakes ==
  ASSUME TypeOK, NEW t \in Threads
  PROVE  Broadcast[t] = IF pc[t] = "waiting" THEN "signalled" ELSE pc[t]
BY DEF Broadcast

LEMMA StepStatus == TypeOK /\ StatusInv /\ WaitInv /\ KillInv /\ [Next]_vars => StatusInv'
<1> SUFFICES ASSUME TypeOK, StatusInv, WaitInv, KillInv, [Next]_vars PROVE StatusInv'
  OBVIOUS
<1> USE DEF StatusInv, Finished, fieldVars, childVars, callVars
<1>1. CASE Start
  BY <1>1 DEF Start
<1>2. CASE StartWithoutFork
  BY <1>2 DEF StartWithoutFork
<1>3. ASSUME NEW how \in Ends, End(how) PROVE StatusInv'
  BY <1>3 DEF End
<1>4. CASE WaitPid
  BY <1>4 DEF WaitPid
<1>5. CASE WaitPidFails
  BY <1>5 DEF WaitPidFails
<1>6. CASE StoreStatus
  <2>1. end.how \in {"EXITED", "SIGNALLED"}
    BY DEF TypeOK, Outcomes
  <2> QED BY <1>6, <2>1 DEF StoreStatus
<1>7. CASE StoreWaitStatus
  BY <1>7 DEF StoreWaitStatus
<1>8. ASSUME NEW k \in Killers, GiveUp(k) PROVE StatusInv'
  <2>1. status # "NOT_STARTED"
    BY <1>8 DEF GiveUp, WaitInv, Threads
  <2> QED BY <1>8, <2>1 DEF GiveUp, WaitMutexFree, TypeOK
<1>9. CASE UNCHANGED <<fieldVars, childVars, waitPc>>
  BY <1>9
<1> QED
  BY <1>1, <1>2, <1>3, <1>4, <1>5, <1>6, <1>7, <1>8, <1>9
  DEF Next, Background, WaiterStep, KillerStep, vars, Wait, Expire, LeaveWait, Kill,
      LockKillMutex, KillIfRunning, KillWait

\* What a wait() that returns true, or false, does to the places of the threads.
LEMMA ReturnedTrue ==
  ASSUME TypeOK, NEW t \in Threads, Returned(t, TRUE)
  PROVE  /\ \A u \in Threads \ {t} : pc'[u] = pc[u] /\ told'[u] = told[u]
         /\ pc'[t] = "done"
         /\ stage' = stage
         /\ t \in Waiters => killMutex' = killMutex
         /\ t \in Killers => killMutex' = "none" /\ told' = told
BY ThreadsAssumption DEF Returned, TypeOK, Threads

LEMMA ReturnedFalse ==
  ASSUME TypeOK, NEW t \in Threads, Returned(t, FALSE)
  PROVE  /\ \A u \in Threads \ {t} : pc'[u] = pc[u] /\ told'[u] = told[u]
         /\ killMutex' = killMutex
         /\ t \in Waiters => pc'[t] = "done" /\ told'[t] = FALSE /\ stage' = stage
         /\ t \in Killers =>
              /\ told' = told
              /\ pc'[t] = IF stage[t] < Attempts THEN "signal" ELSE "giveup"
              /\ stage'[t] = IF stage[t] < Attempts THEN stage[t] + 1 ELSE stage[t]
<1>1. CASE t \in Waiters
  BY <1>1, ThreadsAssumption DEF Returned, TypeOK, Threads
<1>2. CASE t \notin Waiters /\ stage[t] < Attempts
  BY <1>2 DEF Returned, TypeOK
<1>3. CASE t \notin Waiters /\ ~(stage[t] < Attempts)
  <2>1. /\ pc' = [pc EXCEPT ![t] = "giveup"]
        /\ UNCHANGED <<stage, told, killMutex>>
    BY <1>3, Zenon DEF Returned
  <2> QED BY <1>3, <2>1 DEF TypeOK
<1> QED BY <1>1, <1>2, <1>3

LEMMA StepWait == TypeOK /\ StatusInv /\ WaitInv /\ KillInv /\ [Next]_vars => WaitInv'
<1> SUFFICES ASSUME TypeOK, StatusInv, WaitInv, KillInv, [Next]_vars PROVE WaitInv'
  OBVIOUS
<1> USE DEF WaitInv, WaitersWoken, WaitMutexFree, fieldVars, childVars, callVars
<1>1. CASE Start
  BY <1>1 DEF Start, StatusInv
<1>2. CASE StartWithoutFork
  BY <1>2 DEF StartWithoutFork, StatusInv
<1>3. ASSUME NEW how \in Ends, End(how) PROVE WaitInv'
  BY <1>3 DEF End, Finished
<1>4. CASE WaitPid
  BY <1>4 DEF WaitPid, Finished
<1>5. CASE WaitPidFails
  BY <1>5 DEF WaitPidFails, Finished
<1>6. CASE StoreStatus
  BY <1>6 DEF StoreStatus, Finished, TypeOK, Outcomes
<1>7. CASE StoreWaitStatus
  <2>1. status # "RUNNING" /\ status # "NOT_STARTED" /\ Finished'
    BY <1>7 DEF StoreWaitStatus, StatusInv, Finished
  <2>2. \A t \in Threads :
          pc'[t] = IF pc[t] = "waiting" THEN "signalled" ELSE pc[t]
    BY <1>7, BroadcastWakes DEF StoreWaitStatus
  <2> QED BY <1>7, <2>1, <2>2 DEF StoreWaitStatus, Threads
<1> DEFINE Quiet(t) ==
      /\ UNCHANGED <<fieldVars, childVars, waitPc>>
      /\ \A u \in Threads \ {t} : pc'[u] = pc[u] /\ told'[u] = told[u]
<1>8. ASSUME NEW t \in Threads, Quiet(t),
             t \in Waiters => pc'[t] \in {"waiting", "signalled", "expired", "done"},
             pc'[t] \notin {"idle", "done"} => status # "NOT_STARTED",
             pc'[t] = "waiting" => status = "RUNNING",
             pc'[t] = "signalled" => pc[t] = "signalled",
             (t \in Waiters /\ told'[t]) =>
               \/ told[t]
               \/ status \notin {"RUNNING", "NOT_STARTED"} /\ Finished
      PROVE  WaitInv'
  <2>1. Finished' <=> Finished
    BY <1>8 DEF Finished
  <2> QED BY <1>8, <2>1 DEF Threads
<1>9. ASSUME NEW t \in Threads, NEW limited \in BOOLEAN, EnterWait(t, limited),
             pc[t] \in {"idle", "wait"}, UNCHANGED <<fieldVars, childVars, waitPc, sent>>
      PROVE  WaitInv'
  <2>1. CASE status = "RUNNING"
    BY <1>8, <1>9, <2>1 DEF EnterWait, TypeOK, Threads
  <2>2. CASE status # "RUNNING"
    <3>1. Returned(t, TRUE) /\ status # "NOT_STARTED" /\ Finished
      <4>1. Returned(t, TRUE)
        BY <1>9, <2>2, Zenon DEF EnterWait
      <4>2. status # "NOT_STARTED" /\ waitPc # "storing"
        BY <1>9 DEF EnterWait
      <4>3. Finished
        BY <2>2, <4>2 DEF StatusInv
      <4> QED BY <4>1, <4>2, <4>3
    <3>2. /\ \A u \in Threads \ {t} : pc'[u] = pc[u] /\ told'[u] = told[u]
          /\ pc'[t] = "done"
      BY <3>1, ReturnedTrue
    <3> QED BY <1>8, <1>9, <2>2, <3>1, <3>2
  <2> QED BY <2>1, <2>2
<1>10. ASSUME NEW t \in Threads, LeaveWait(t)
       PROVE  WaitInv'
  <2>1. /\ pc[t] \in {"signalled", "expired"} /\ status # "NOT_STARTED"
        /\ UNCHANGED <<fieldVars, childVars, waitPc>>
    BY <1>10 DEF LeaveWait
  <2>2. CASE pc[t] = "signalled"
    <3>1. Returned(t, TRUE)
      BY <1>10, <2>2, Zenon DEF LeaveWait
    <3>2. /\ \A u \in Threads \ {t} : pc'[u] = pc[u] /\ told'[u] = told[u]
          /\ pc'[t] = "done"
      BY <3>1, ReturnedTrue
    <3>3. status \notin {"RUNNING", "NOT_STARTED"} /\ Finished
      BY <2>1, <2>2
    <3> QED BY <1>8, <2>1, <3>2, <3>3
  <2>3. CASE pc[t] = "expired"
    <3>1. Returned(t, FALSE)
      <4>1. (pc[t] = "signalled") = FALSE
        BY <2>3
      <4> QED BY <1>10, <4>1, Zenon DEF LeaveWait
    <3>2. /\ \A u \in Threads \ {t} : pc'[u] = pc[u] /\ told'[u] = told[u]
          /\ pc'[t] \in {"done", "signal", "giveup"}
          /\ t \in Waiters => pc'[t] = "done" /\ told'[t] = FALSE
      BY <3>1, ReturnedFalse, ThreadsAssumption DEF Threads
    <3> QED BY <1>8, <2>1, <3>2
  <2> QED BY <2>1, <2>2, <2>3
<1>11. ASSUME NEW t \in Threads, Expire(t) PROVE WaitInv'
  BY <1>8, <1>11 DEF Expire, TypeOK, Threads
<1>12. ASSUME NEW k \in Killers,
              Kill(k) \/ LockKillMutex(k) \/ KillIfRunning(k)
       PROVE  WaitInv'
  <2>1. k \in Threads /\ k \notin Waiters
    BY ThreadsAssumption DEF Threads
  <2> QED BY <1>8, <1>12, <2>1 DEF Kill, LockKillMutex, KillIfRunning, TypeOK
<1>13. ASSUME NEW k \in Killers, GiveUp(k) PROVE WaitInv'
  <2>1. \A t \in Threads :
          pc'[t] = IF t = k THEN "done"
                   ELSE IF pc[t] = "waiting" THEN "signalled" ELSE pc[t]
    BY <1>13, BroadcastWakes DEF GiveUp, Broadcast
  <2>2. Finished' /\ status' = "CANNOT_KILL"
    BY <1>13 DEF GiveUp, Finished
  <2>3. k \in Threads /\ k \notin Waiters
    BY ThreadsAssumption DEF Threads
  <2> QED BY <1>13, <2>1, <2>2, <2>3 DEF GiveUp, Threads
<1>14. CASE UNCHANGED vars
  BY <1>14 DEF vars, Finished
<1> HIDE DEF Quiet
<1> QED
  BY <1>1, <1>2, <1>3, <1>4, <1>5, <1>6, <1>7, <1>9, <1>10, <1>11, <1>12, <1>13, <1>14
  DEF Next, Background, WaiterStep, KillerStep, Wait, KillWait, Threads

\* A step of one killer leaves the others where they are: they do not hold the
\* mutex.  What it must establish is about itself.
LEMMA KillerAlone ==
  ASSUME TypeOK, KillInv, PrefixSent', NEW k \in Killers,
         \A u \in Killers \ {k} : pc'[u] \in Holding <=> pc[u] \in Holding,
         killMutex \in {"none", k},
         pc'[k] \in Holding <=> killMutex' = k,
         killMutex' \in {"none", k},
         (killMutex' = "none" /\ status' \in {"NOT_STARTED", "RUNNING"}) => sent' = <<>>,
         pc'[k] = "signal" => (status' = "RUNNING" => sent' = Attempted(stage'[k] - 1)),
         pc'[k] = "wait" => (status' = "RUNNING" => sent' = Attempted(stage'[k])),
         pc'[k] \in Waited => (sent' = Attempted(stage'[k]) /\ pipeOpen'),
         pc'[k] = "giveup" => stage'[k] = Attempts
  PROVE  KillInv'
<1>1. ASSUME NEW u \in Killers, u # k PROVE pc'[u] \notin Holding /\ killMutex' # u
  BY <1>1, ThreadsAssumption DEF KillInv
<1>2. \A u \in Killers : pc'[u] \in Holding <=> killMutex' = u
  BY <1>1
<1>3. ASSUME NEW u \in Killers, pc'[u] \in Holding PROVE u = k
  BY <1>1, <1>3
<1>4. \A u \in Killers : /\ pc'[u] \in Waited => u = k
                         /\ pc'[u] = "signal" => u = k
                         /\ pc'[u] = "wait" => u = k
                         /\ pc'[u] = "giveup" => u = k
  BY <1>3 DEF Holding, Waited
<1> QED BY <1>2, <1>4 DEF KillInv

\* Nothing that the holder of _killMutex relies on changes.
LEMMA KillSame ==
  ASSUME KillInv, UNCHANGED <<sent, killMutex, stage>>,
         \A u \in Killers : \/ pc'[u] = pc[u]
                            \/ (pc[u] = "waiting" /\ pc'[u] \in {"signalled", "expired"}),
         pipeOpen => pipeOpen',
         status' \in {"NOT_STARTED", "RUNNING"} => status' = status
  PROVE  KillInv'
<1>1. PrefixSent'
  BY DEF KillInv, PrefixSent
<1>2. \A u \in Killers : /\ pc'[u] \in Holding <=> pc[u] \in Holding
                         /\ pc'[u] \in Waited <=> pc[u] \in Waited
                         /\ pc'[u] = "signal" <=> pc[u] = "signal"
                         /\ pc'[u] = "wait" <=> pc[u] = "wait"
                         /\ pc'[u] = "giveup" <=> pc[u] = "giveup"
  BY DEF Holding, Waited
<1> QED BY <1>1, <1>2 DEF KillInv

LEMMA StepKill == TypeOK /\ StatusInv /\ WaitInv /\ KillInv /\ [Next]_vars => KillInv'
<1> SUFFICES ASSUME TypeOK, StatusInv, WaitInv, KillInv, [Next]_vars PROVE KillInv'
  OBVIOUS
<1> USE DEF fieldVars, childVars, callVars
<1>1. CASE Start \/ StartWithoutFork
  <2>1. /\ status = "NOT_STARTED" /\ status' = "RUNNING" /\ pipeOpen'
        /\ UNCHANGED <<sent, killMutex, stage, pc>>
    BY <1>1 DEF Start, StartWithoutFork
  <2>2. \A k \in Killers : pc[k] \in {"idle", "done"}
    BY <2>1 DEF WaitInv, Threads
  <2>3. PrefixSent'
    BY <2>1 DEF KillInv, PrefixSent
  <2> QED BY <2>1, <2>2, <2>3 DEF KillInv, Holding, Waited
<1>2. ASSUME NEW how \in Ends, End(how) PROVE KillInv'
  BY <1>2, KillSame DEF End
<1>3. CASE WaitPid \/ WaitPidFails
  BY <1>3, KillSame DEF WaitPid, WaitPidFails
<1>4. CASE StoreStatus
  <2>1. end.how \notin {"NOT_STARTED", "RUNNING"}
    BY DEF TypeOK, Outcomes
  <2> QED BY <1>4, <2>1, KillSame DEF StoreStatus
<1>5. CASE StoreWaitStatus
  <2>1. \A u \in Killers :
          pc'[u] = IF pc[u] = "waiting" THEN "signalled" ELSE pc[u]
    BY <1>5, BroadcastWakes DEF StoreWaitStatus, Threads
  <2> QED BY <1>5, <2>1, KillSame DEF StoreWaitStatus
<1>6. ASSUME NEW t \in Threads, Expire(t) PROVE KillInv'
  BY <1>6, KillSame DEF Expire, TypeOK, Threads
<1>7. ASSUME NEW w \in Waiters, NEW limited \in BOOLEAN, Wait(w, limited)
      PROVE  KillInv'
  <2>1. /\ UNCHANGED <<status, pipeOpen, sent>> /\ w \in Threads /\ w \notin Killers
        /\ EnterWait(w, limited)
    BY <1>7, ThreadsAssumption DEF Wait, Threads
  <2>2. CASE status = "RUNNING"
    <3>1. /\ UNCHANGED <<killMutex, stage>>
          /\ \A u \in Killers : pc'[u] = pc[u]
      BY <2>1, <2>2 DEF EnterWait, TypeOK, Threads
    <3> QED BY <2>1, <3>1, KillSame
  <2>3. CASE status # "RUNNING"
    <3>1. Returned(w, TRUE)
      BY <2>1, <2>3, Zenon DEF EnterWait
    <3>2. /\ UNCHANGED <<killMutex, stage>>
          /\ \A u \in Killers : pc'[u] = pc[u]
      BY <2>1, <3>1, ReturnedTrue DEF Threads
    <3> QED BY <2>1, <3>2, KillSame
  <2> QED BY <2>2, <2>3
<1>8. ASSUME NEW w \in Waiters, LeaveWait(w)
      PROVE  KillInv'
  <2>1. /\ UNCHANGED <<status, pipeOpen, sent>> /\ w \in Threads /\ w \notin Killers
        /\ pc[w] = "signalled" \/ pc[w] = "expired"
    BY <1>8, ThreadsAssumption DEF LeaveWait, Threads
  <2>2. /\ UNCHANGED <<killMutex, stage>>
        /\ \A u \in Killers : pc'[u] = pc[u]
    <3>1. CASE pc[w] = "signalled"
      <4>1. Returned(w, TRUE)
        BY <1>8, <3>1, Zenon DEF LeaveWait
      <4> QED BY <2>1, <4>1, ReturnedTrue DEF Threads
    <3>2. CASE pc[w] = "expired"
      <4>1. Returned(w, FALSE)
        <5>1. (pc[w] = "signalled") = FALSE
          BY <3>2
        <5> QED BY <1>8, <5>1, Zenon DEF LeaveWait
      <4> QED BY <2>1, <4>1, ReturnedFalse DEF Threads
    <3> QED BY <2>1, <3>1, <3>2
  <2> QED BY <2>1, <2>2, KillSame
<1>9. ASSUME NEW k \in Killers, Kill(k) PROVE KillInv'
  <2>1. /\ UNCHANGED <<sent, killMutex, stage, status, pipeOpen>>
        /\ pc[k] = "idle" /\ pc'[k] \in {"blocked", "done"}
        /\ \A u \in Killers \ {k} : pc'[u] = pc[u]
    BY <1>9 DEF Kill, TypeOK, Threads
  <2>2. PrefixSent'
    BY <2>1 DEF KillInv, PrefixSent
  <2> QED BY <2>1, <2>2 DEF KillInv, Holding, Waited
<1>10. ASSUME NEW k \in Killers, LockKillMutex(k) PROVE KillInv'
  <2>1. /\ UNCHANGED <<sent, status, pipeOpen>>
        /\ killMutex = "none" /\ killMutex' = k
        /\ pc'[k] = "signal" /\ stage'[k] = 1
        /\ \A u \in Killers \ {k} : pc'[u] = pc[u]
    BY <1>10 DEF LockKillMutex, KillMutexFree, TypeOK, Threads
  <2>2. status' = "RUNNING" => sent' = Attempted(stage'[k] - 1)
    BY <2>1, Attempts3 DEF KillInv
  <2>3. PrefixSent' /\ killMutex' # "none"
    BY <2>1, ThreadsAssumption DEF KillInv, PrefixSent
  <2>4. pc'[k] \in Holding /\ pc'[k] \notin Waited
    BY <2>1 DEF Holding, Waited
  <2> QED BY <2>1, <2>2, <2>3, <2>4, KillerAlone
<1>11. ASSUME NEW k \in Killers, KillIfRunning(k) PROVE KillInv'
  <2>1. /\ UNCHANGED <<status, pipeOpen, killMutex, stage>>
        /\ Send(Escalation[stage[k]])
        /\ pc[k] = "signal" /\ pc'[k] = "wait"
        /\ \A u \in Killers \ {k} : pc'[u] = pc[u]
    BY <1>11 DEF KillIfRunning, TypeOK, Threads
  <2>2. killMutex = k /\ killMutex' = k /\ killMutex' # "none"
    BY <2>1, ThreadsAssumption DEF KillInv, Holding
  <2>3. stage[k] \in 1..3
    BY DEF TypeOK, Threads, Attempts
  <2>4. CASE status = "RUNNING"
    <3>1. sent' = Attempted(stage[k])
      BY <2>1, <2>3, <2>4, Attempts3 DEF Send, KillInv
    <3>2. PrefixSent'
      BY <2>3, <3>1 DEF PrefixSent
    <3> QED BY <2>1, <2>2, <3>1, <3>2, KillerAlone DEF Holding, Waited
  <2>5. CASE status # "RUNNING"
    <3>1. sent' = sent
      BY <2>1, <2>5 DEF Send
    <3>2. PrefixSent'
      BY <3>1 DEF PrefixSent, KillInv
    <3> QED BY <2>1, <2>2, <2>5, <3>2, KillerAlone DEF Holding, Waited
  <2> QED BY <2>4, <2>5
<1>12. ASSUME NEW k \in Killers, UNCHANGED <<sent, status, pipeOpen>>,
              Returned(k, TRUE), killMutex = k, status \notin {"NOT_STARTED", "RUNNING"}
       PROVE  KillInv'
  <2>1. /\ killMutex' = "none" /\ pc'[k] = "done"
        /\ \A u \in Killers \ {k} : pc'[u] = pc[u]
    BY <1>12, ReturnedTrue DEF Threads
  <2>2. PrefixSent'
    BY <1>12 DEF PrefixSent, KillInv
  <2> QED BY <1>12, <2>1, <2>2, ThreadsAssumption, KillerAlone DEF Holding, Waited
<1>13. ASSUME NEW k \in Killers, KillWait(k) PROVE KillInv'
  <2> DEFINE limited == stage[k] \notin Untimed
  <2>1. /\ UNCHANGED <<sent, status, pipeOpen>> /\ pc[k] = "wait"
        /\ k \in Threads /\ EnterWait(k, limited)
    BY <1>13 DEF KillWait, Threads
  <2>2. killMutex = k /\ killMutex # "none" /\ status # "NOT_STARTED"
    BY <2>1, ThreadsAssumption DEF KillInv, Holding, WaitInv
  <2> HIDE DEF limited
  <2>3. CASE status = "RUNNING"
    <3>1. /\ pc'[k] = "waiting" /\ UNCHANGED <<stage, killMutex>>
          /\ \A u \in Killers \ {k} : pc'[u] = pc[u]
      BY <2>1, <2>3 DEF EnterWait, TypeOK, Threads
    <3>2. sent' = Attempted(stage'[k]) /\ pipeOpen'
      BY <2>1, <2>3, <3>1 DEF KillInv, StatusInv
    <3>3. PrefixSent'
      BY <2>1 DEF PrefixSent, KillInv
    <3> QED BY <2>2, <3>1, <3>2, <3>3, KillerAlone DEF Holding, Waited
  <2>4. CASE status # "RUNNING"
    <3>1. Returned(k, TRUE)
      BY <2>1, <2>4, Zenon DEF EnterWait
    <3> QED BY <1>12, <2>1, <2>2, <2>4, <3>1
  <2> QED BY <2>3, <2>4
<1>14. ASSUME NEW k \in Killers, LeaveWait(k) PROVE KillInv'
  <2>1. /\ UNCHANGED <<sent, status, pipeOpen>> /\ k \in Threads
        /\ pc[k] = "signalled" \/ pc[k] = "expired"
    BY <1>14 DEF LeaveWait, Threads
  <2>2. killMutex = k /\ killMutex # "none" /\ status # "NOT_STARTED"
    BY <2>1, ThreadsAssumption DEF KillInv, Holding, Waited, WaitInv
  <2>3. CASE pc[k] = "signalled"
    <3>1. Returned(k, TRUE)
      BY <1>14, <2>3, Zenon DEF LeaveWait
    <3>2. status # "RUNNING"
      BY <2>1, <2>3 DEF WaitInv
    <3> QED BY <1>12, <2>1, <2>2, <3>1, <3>2
  <2>4. CASE pc[k] = "expired"
    <3>1. Returned(k, FALSE)
      <4>1. (pc[k] = "signalled") = FALSE
        BY <2>4
      <4> QED BY <1>14, <4>1, Zenon DEF LeaveWait
    <3>2. /\ \A u \in Killers \ {k} : pc'[u] = pc[u]
          /\ killMutex' = killMutex
          /\ pc'[k] = IF stage[k] < Attempts THEN "signal" ELSE "giveup"
          /\ stage'[k] = IF stage[k] < Attempts THEN stage[k] + 1 ELSE stage[k]
      BY <2>1, <3>1, ReturnedFalse DEF Threads
    <3>3. sent' = Attempted(stage[k]) /\ pipeOpen'
      BY <2>1, <2>4 DEF KillInv, Waited
    <3>4. PrefixSent'
      BY <2>1 DEF PrefixSent, KillInv
    <3>5. stage[k] \in 1..3
      BY DEF TypeOK, Threads, Attempts
    <3>6. CASE stage[k] < Attempts
      <4>1. pc'[k] = "signal" /\ stage'[k] - 1 = stage[k]
        BY <3>2, <3>5, <3>6
      <4> QED BY <2>2, <3>2, <3>3, <3>4, <4>1, KillerAlone DEF Holding, Waited
    <3>7. CASE ~(stage[k] < Attempts)
      <4>1. pc'[k] = "giveup" /\ stage'[k] = stage[k] /\ stage[k] = Attempts
        BY <3>2, <3>5, <3>7 DEF Attempts
      <4> QED BY <2>2, <3>2, <3>3, <3>4, <4>1, KillerAlone DEF Holding, Waited
    <3> QED BY <3>6, <3>7
  <2> QED BY <2>1, <2>3, <2>4
<1>15. ASSUME NEW k \in Killers, GiveUp(k) PROVE KillInv'
  <2>1. /\ pc[k] = "giveup" /\ status' = "CANNOT_KILL" /\ killMutex' = "none"
        /\ UNCHANGED <<sent, stage>>
        /\ \A u \in Killers :
             pc'[u] = IF u = k THEN "done"
                      ELSE IF pc[u] = "waiting" THEN "signalled" ELSE pc[u]
    BY <1>15, BroadcastWakes DEF GiveUp, Broadcast, Threads
  <2>2. killMutex = k
    BY <2>1 DEF KillInv, Holding, Waited
  <2>3. PrefixSent'
    BY <2>1 DEF PrefixSent, KillInv
  <2>4. \A u \in Killers \ {k} : pc'[u] \in Holding <=> pc[u] \in Holding
    BY <2>1 DEF Holding, Waited
  <2>5. pc'[k] = "done"
    BY <2>1
  <2> QED BY <2>1, <2>2, <2>3, <2>4, <2>5, ThreadsAssumption, KillerAlone
          DEF Holding, Waited
<1>16. CASE UNCHANGED vars
  BY <1>16, KillSame DEF vars
<1> QED
  BY <1>1, <1>2, <1>3, <1>4, <1>5, <1>6, <1>7, <1>8, <1>9, <1>10, <1>11, <1>13,
     <1>14, <1>15, <1>16
  DEF Next, Background, WaiterStep, KillerStep, Threads

LEMMA InvImplies ==
  Inv => EscalatesOnce /\ WaitersWoken /\ OutcomeKnown
<1> SUFFICES ASSUME Inv PROVE EscalatesOnce /\ WaitersWoken /\ OutcomeKnown
  OBVIOUS
<1>1. PrefixSent /\ WaitersWoken
  BY DEF Inv, KillInv, WaitInv
<1>2. EscalatesOnce
  BY <1>1, Attempts3 DEF Inv, KillInv, Waited, Attempts, EscalatesOnce
<1>3. OutcomeKnown
  BY DEF Inv, WaitInv, Finished, OutcomeKnown
<1> QED BY <1>1, <1>2, <1>3

\* A step that sends a signal finds the program running.
LEMMA StepQuiet ==
  Inv /\ [Next]_vars => ((\E w \in Waiters : told[w]) => sent' = sent)
<1> SUFFICES ASSUME Inv, [Next]_vars, NEW w \in Waiters, told[w] PROVE sent' = sent
  OBVIOUS
<1>1. status # "RUNNING"
  BY DEF Inv, WaitInv
<1>2. ASSUME NEW k \in Killers, KillIfRunning(k) PROVE sent' = sent
  BY <1>1, <1>2 DEF KillIfRunning, Send
<1> QED
  BY <1>2
  DEF Next, vars, Start, StartWithoutFork, End, Background, WaitPid, WaitPidFails,
      StoreStatus, StoreWaitStatus, WaiterStep, KillerStep, Wait, Expire, LeaveWait,
      Kill, LockKillMutex, KillWait, GiveUp

\* There is no process before the start.
Started == child # "none" => status # "NOT_STARTED"

\* What no step of the executor takes back.
LEMMA StaysOver ==
  ASSUME Inv, Started, Next
  PROVE  /\ Started'
         /\ child = "reaped" => child' = "reaped" /\ end' = end
         /\ status # "NOT_STARTED" => status' # "NOT_STARTED"
         /\ status # "NOT_STARTED" /\ pipeOpen' => pipeOpen
         /\ status \notin {"NOT_STARTED", "RUNNING"} =>
              status' \notin {"NOT_STARTED", "RUNNING"}
<1> USE DEF fieldVars, childVars, callVars, Started
<1>1. CASE Start \/ StartWithoutFork \/ \E how \in Ends : End(how)
  BY <1>1 DEF Start, StartWithoutFork, End, Inv, StatusInv
<1>2. CASE Background
  <2>1. end.how \in {"EXITED", "SIGNALLED"}
    BY DEF Inv, TypeOK, Outcomes
  <2> QED BY <1>2, <2>1 DEF Background, WaitPid, WaitPidFails, StoreStatus, StoreWaitStatus
<1>3. ASSUME NEW w \in Waiters, WaiterStep(w)
      PROVE  UNCHANGED <<status, child, end, pipeOpen>>
  BY <1>3 DEF WaiterStep, Wait, Expire, LeaveWait
<1>4. ASSUME NEW k \in Killers, KillerStep(k), ~GiveUp(k)
      PROVE  UNCHANGED <<status, child, end, pipeOpen>>
  BY <1>4 DEF KillerStep, Kill, LockKillMutex, KillIfRunning, KillWait, Expire, LeaveWait
<1>5. ASSUME NEW k \in Killers, GiveUp(k)
      PROVE  /\ status' = "CANNOT_KILL" /\ ~pipeOpen'
             /\ UNCHANGED <<child, end>>
  BY <1>5 DEF GiveUp
<1> QED BY <1>1, <1>2, <1>3, <1>4, <1>5 DEF Next

LEMMA Invariance == Spec => []Inv
<1>1. Inv /\ [Next]_vars => Inv'
  BY StepTypeOK, StepStatus, StepWait, StepKill DEF Inv
<1> QED BY <1>1, InitInv, PTL DEF Spec

\* The program is sent a prefix of SIGINT, SIGINT, SIGKILL, whoever kills it and
\* however often; who gives up has sent them all and closes the pipe only once.
THEOREM EscalationSafe == Spec => []EscalatesOnce
<1> QED BY Invariance, InvImplies, PTL

\* No thread waits for a broadcast that has been made already.
THEOREM NoLostWakeup == Spec => []WaitersWoken
<1> QED BY Invariance, InvImplies, PTL

\* What a thread reads after wait() is what waitpid() reported.
THEOREM OutcomeRead == Spec => []OutcomeKnown
<1> QED BY Invariance, InvImplies, PTL

\* A process that is known to be over is not signalled.
THEOREM NothingSentAfterEnd == Spec => NoSignalAfterEnd
<1> QED BY Invariance, StepQuiet, PTL DEF Spec, NoSignalAfterEnd

\* Type correctness.
THEOREM TypeCorrect == Spec => []TypeOK
<1>1. Inv => TypeOK
  BY DEF Inv
<1> QED BY Invariance, <1>1, PTL

===============================================================================
