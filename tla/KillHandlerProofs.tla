--------------------------- MODULE KillHandlerProofs ---------------------------
(***************************************************************************)
(* A proof about KillHandler: the answer to a request for /_kill tells how *)
(* the process ended, for any number of requests, waiters and other threads*)
(* that kill.  It rests on the invariant of ProgramExecutorProofs.         *)
(***************************************************************************)
EXTENDS KillHandler, ProgramExecutorProofs

Kinds == {"none", "error", "cannot_kill", "exited", "signalled"}

\* What every later reader of the status can rely on: the program is over, and
\* unless kill() has given up, the status is that of the process.
Over ==
  /\ status \notin {"NOT_STARTED", "RUNNING"}
  /\ pipeOpen => child = "reaped" /\ status = end.how

\* How far handler k has got, and what the status must be for that.
HandlerOK(k) ==
  /\ reading[k] # Answered => answer[k].kind = "none"
  /\ reading[k] # 1 => pc[k] = "done"
  /\ pc[k] = "done" => k \in early \/ Over
  /\ reading[k] = 2 => k \in early \/ (pipeOpen => end.how = "SIGNALLED")
  /\ reading[k] = 3 => k \in early \/ ~pipeOpen
  /\ reading[k] \in {4, 5, 6, 7} => Over
  /\ reading[k] \in {5, 7} => (pipeOpen => end.how = "SIGNALLED")
  /\ reading[k] = 6 => (pipeOpen => end.how = "EXITED")

HandlerTypes ==
  /\ reading \in [Handlers -> 1..8]
  /\ answer \in [Handlers -> [kind : Kinds, value : Int]]

HandlerInv ==
  /\ HandlerTypes
  /\ Started
  /\ \A k \in Handlers : HandlerOK(k)
  /\ KillAnswerSound

-------------------------------------------------------------------------------
(* Steps of the executor. *)

\* A program that is over, as far as the status says, is over.
LEMMA StatusOver ==
  ASSUME Inv, status \notin {"NOT_STARTED", "RUNNING"}
  PROVE  Over
BY DEF Inv, StatusInv, Finished, Over

LEMMA OverKept ==
  ASSUME Inv, Inv', Started, Next, Over
  PROVE  Over'
<1>1. status' \notin {"NOT_STARTED", "RUNNING"}
  BY StaysOver DEF Over
<1>2. pipeOpen' => child' = "reaped"
  BY StaysOver DEF Over
<1>3. pipeOpen' => status' = end.how'
  BY <1>1, <1>2 DEF Inv, StatusInv, Finished
<1> QED BY <1>1, <1>2, <1>3 DEF Over

\* kill() returns only when there is nothing to kill.
LEMMA KillReturns ==
  ASSUME Inv, Next, NEW k \in Killers, pc[k] # "done", pc'[k] = "done"
  PROVE  \/ pc[k] = "idle" /\ status = "NOT_STARTED"
         \/ status' \notin {"NOT_STARTED", "RUNNING"}
<1>0. k \in Threads /\ k \notin Waiters /\ pc \in [Threads -> Places]
  BY ThreadsAssumption DEF Threads, Inv, TypeOK
<1>1. ~(UNCHANGED pc) /\ pc' # Broadcast
  BY <1>0 DEF Broadcast
<1>2. ~Start /\ ~StartWithoutFork /\ ~(\E how \in Ends : End(how)) /\ ~Background
  BY <1>1 DEF Start, StartWithoutFork, End, Background, WaitPid, WaitPidFails,
     StoreStatus, StoreWaitStatus, callVars
<1>3. ASSUME NEW t \in Threads, t # k, NEW ok \in BOOLEAN, Returned(t, ok)
      PROVE  FALSE
  BY <1>0, <1>3 DEF Returned
<1>4. ASSUME NEW t \in Threads, t # k, NEW limited \in BOOLEAN, EnterWait(t, limited)
      PROVE  FALSE
  BY <1>0, <1>3, <1>4 DEF EnterWait
<1>5. ASSUME NEW w \in Waiters, WaiterStep(w) PROVE FALSE
  <2>1. w \in Threads /\ w # k
    BY <1>0 DEF Threads
  <2>2. CASE \E limited \in BOOLEAN : Wait(w, limited)
    BY <1>4, <2>1, <2>2 DEF Wait
  <2>3. CASE Expire(w)
    BY <1>0, <2>1, <2>3 DEF Expire
  <2>4. CASE LeaveWait(w)
    <3>1. (pc[w] = "signalled") \in BOOLEAN
      OBVIOUS
    <3> QED BY <1>3, <2>1, <2>4, <3>1 DEF LeaveWait
  <2> QED BY <1>5, <2>2, <2>3, <2>4 DEF WaiterStep
<1>6. ASSUME NEW j \in Killers, j # k, KillerStep(j) PROVE FALSE
  <2>1. j \in Threads
    BY DEF Threads
  <2>2. CASE Kill(j) \/ LockKillMutex(j) \/ KillIfRunning(j) \/ Expire(j)
    BY <1>0, <1>6, <2>2 DEF Kill, LockKillMutex, KillIfRunning, Expire
  <2>3. CASE KillWait(j)
    <3>1. (stage[j] \notin Untimed) \in BOOLEAN
      OBVIOUS
    <3> QED BY <1>4, <1>6, <2>1, <2>3, <3>1 DEF KillWait
  <2>4. CASE LeaveWait(j)
    <3>1. (pc[j] = "signalled") \in BOOLEAN
      OBVIOUS
    <3> QED BY <1>3, <1>6, <2>1, <2>4, <3>1 DEF LeaveWait
  <2>5. CASE GiveUp(j)
    <3>1. pc' = [Broadcast EXCEPT ![j] = "done"]
      BY <2>5 DEF GiveUp
    <3>2. pc'[k] = Broadcast[k]
      BY <1>0, <1>6, <3>1 DEF Broadcast
    <3> QED BY <1>0, <3>2 DEF Broadcast
  <2> QED BY <1>6, <2>2, <2>3, <2>4, <2>5 DEF KillerStep
<1>7. CASE KillerStep(k)
  <2>1. CASE Kill(k)
    <3>1. pc[k] = "idle" /\ status # "RUNNING" /\ status' = status
      BY <1>0, <2>1 DEF Kill, fieldVars
    <3> QED BY <3>1
  <2>2. CASE LockKillMutex(k) \/ KillIfRunning(k) \/ Expire(k)
    BY <1>0, <2>2 DEF LockKillMutex, KillIfRunning, Expire
  <2>3. CASE KillWait(k)
    <3>1. status' = status /\ status # "NOT_STARTED"
      BY <2>3 DEF KillWait, EnterWait, fieldVars
    <3>2. status = "RUNNING" => pc'[k] = "waiting"
      BY <1>0, <2>3 DEF KillWait, EnterWait
    <3> QED BY <3>1, <3>2
  <2>4. CASE LeaveWait(k)
    <3>1. status' = status /\ Returned(k, pc[k] = "signalled")
      BY <2>4 DEF LeaveWait, fieldVars
    <3>2. pc[k] = "signalled"
      BY <1>0, <3>1 DEF Returned
    <3>3. status \notin {"NOT_STARTED", "RUNNING"}
      BY <1>0, <3>2 DEF Inv, WaitInv
    <3> QED BY <3>1, <3>3
  <2>5. CASE GiveUp(k)
    BY <2>5 DEF GiveUp
  <2> QED BY <1>7, <2>1, <2>2, <2>3, <2>4, <2>5 DEF KillerStep
<1> QED BY <1>2, <1>5, <1>6, <1>7 DEF Next

\* A thread that has returned from kill() does not call it again.
LEMMA DoneStays ==
  ASSUME Inv, Next, NEW k \in Killers, pc[k] = "done"
  PROVE  pc'[k] = "done"
<1>0. k \in Threads /\ k \notin Waiters /\ pc \in [Threads -> Places]
  BY ThreadsAssumption DEF Threads, Inv, TypeOK
<1>1. Broadcast[k] = "done"
  BY <1>0 DEF Broadcast
<1>2. CASE Start \/ StartWithoutFork \/ (\E how \in Ends : End(how)) \/ Background
  BY <1>1, <1>2 DEF Start, StartWithoutFork, End, Background, WaitPid, WaitPidFails,
     StoreStatus, StoreWaitStatus, callVars
<1>3. ASSUME NEW t \in Threads, t # k, NEW ok \in BOOLEAN, Returned(t, ok)
      PROVE  pc'[k] = "done"
  BY <1>0, <1>3 DEF Returned
<1>4. ASSUME NEW t \in Threads, t # k, NEW limited \in BOOLEAN, EnterWait(t, limited)
      PROVE  pc'[k] = "done"
  BY <1>0, <1>3, <1>4 DEF EnterWait
<1>5. ASSUME NEW w \in Waiters, WaiterStep(w) PROVE pc'[k] = "done"
  <2>1. w \in Threads /\ w # k /\ (pc[w] = "signalled") \in BOOLEAN
    BY <1>0 DEF Threads
  <2>2. CASE \E limited \in BOOLEAN : Wait(w, limited)
    BY <1>4, <2>1, <2>2 DEF Wait
  <2>3. CASE Expire(w)
    BY <1>0, <2>1, <2>3 DEF Expire
  <2>4. CASE LeaveWait(w)
    BY <1>3, <2>1, <2>4 DEF LeaveWait
  <2> QED BY <1>5, <2>2, <2>3, <2>4 DEF WaiterStep
<1>6. ASSUME NEW j \in Killers, KillerStep(j) PROVE pc'[k] = "done"
  <2>1. j \in Threads /\ (pc[j] = "signalled") \in BOOLEAN
        /\ (stage[j] \notin Untimed) \in BOOLEAN
    BY DEF Threads
  <2>2. j # k
    BY <1>6 DEF KillerStep, Kill, LockKillMutex, KillIfRunning, KillWait, Expire,
       LeaveWait, GiveUp
  <2>3. CASE Kill(j) \/ LockKillMutex(j) \/ KillIfRunning(j) \/ Expire(j)
    BY <1>0, <2>2, <2>3 DEF Kill, LockKillMutex, KillIfRunning, Expire
  <2>4. CASE KillWait(j)
    BY <1>4, <2>1, <2>2, <2>4 DEF KillWait
  <2>5. CASE LeaveWait(j)
    BY <1>3, <2>1, <2>2, <2>5 DEF LeaveWait
  <2>6. CASE GiveUp(j)
    <3>1. pc' = [Broadcast EXCEPT ![j] = "done"]
      BY <2>6 DEF GiveUp
    <3> QED BY <1>0, <1>1, <2>2, <3>1 DEF Broadcast
  <2> QED BY <1>6, <2>3, <2>4, <2>5, <2>6 DEF KillerStep
<1> QED BY <1>2, <1>5, <1>6 DEF Next

-------------------------------------------------------------------------------
(* The handlers. *)

LEMMA HandlerInitInv == HandlerInit => Inv /\ HandlerInv
<1> SUFFICES ASSUME HandlerInit PROVE Inv /\ HandlerInv
  OBVIOUS
<1>1. Init /\ Inv
  BY InitInv DEF HandlerInit
<1>2. HandlerTypes
  BY DEF HandlerInit, HandlerTypes, Answer, Kinds
<1>3. Started
  BY <1>1 DEF Init, Started
<1>4. ASSUME NEW k \in Handlers
      PROVE  reading[k] = 1 /\ answer[k].kind = "none" /\ pc[k] = "idle"
  <2>1. k \in Threads
    BY HandlersAssumption DEF Threads
  <2> QED BY <1>1, <2>1 DEF HandlerInit, Init, Answer
<1> QED BY <1>1, <1>2, <1>3, <1>4 DEF HandlerInv, HandlerOK, KillAnswerSound

\* A step of the executor leaves what the handlers have found out true.
LEMMA ExecutorStep ==
  ASSUME Inv, Inv', HandlerInv, Next, UNCHANGED <<reading, answer>>,
         early' = early \cup {k \in Handlers : /\ pc[k] = "idle" /\ pc'[k] = "done"
                                              /\ status = "NOT_STARTED"}
  PROVE  HandlerInv'
<1>1. HandlerTypes'
  BY DEF HandlerInv, HandlerTypes
<1>2. Started' /\ Started
  BY StaysOver DEF HandlerInv
<1>3. ASSUME NEW k \in Handlers PROVE HandlerOK(k)'
  <2>0. k \in Killers /\ HandlerOK(k) /\ (k \in early => k \in early')
    BY HandlersAssumption DEF HandlerInv
  <2>1. pc[k] = "done" => pc'[k] = "done"
    BY <2>0, DoneStays
  <2>2. Over => Over'
    BY <1>2, OverKept
  <2>3. pc'[k] = "done" => k \in early' \/ Over'
    <3>1. CASE pc[k] = "done"
      BY <2>0, <2>2, <3>1 DEF HandlerOK
    <3>2. CASE pc[k] # "done" /\ pc'[k] = "done"
      <4>1. CASE pc[k] = "idle" /\ status = "NOT_STARTED"
        BY <3>2, <4>1
      <4>2. CASE status' \notin {"NOT_STARTED", "RUNNING"}
        <5>1. Over'
          BY <4>2 DEF Inv, StatusInv, Finished, Over
        <5> QED BY <5>1
      <4> QED BY <2>0, <3>2, <4>1, <4>2, KillReturns
    <3> QED BY <3>1, <3>2
  <2>4. Over /\ pipeOpen' => pipeOpen /\ end' = end
    BY <1>2, StaysOver DEF Over
  <2>5. reading[k] # 1 /\ k \notin early => Over
    BY <2>0 DEF HandlerOK
  <2> QED BY <2>0, <2>1, <2>2, <2>3, <2>4, <2>5 DEF HandlerOK
<1>4. KillAnswerSound'
  <2> SUFFICES ASSUME NEW k \in Handlers, answer[k].kind # "none"
               PROVE  \/ status' # "NOT_STARTED" /\ ~pipeOpen'
                      \/ answer[k].kind = "error" /\ k \in early'
                      \/ /\ child' = "reaped"
                         /\ answer[k].kind
                              = (IF end'.how = "EXITED" THEN "exited" ELSE "signalled")
    BY DEF KillAnswerSound
  <2>1. CASE status # "NOT_STARTED" /\ ~pipeOpen
    BY <1>2, <2>1, StaysOver
  <2>2. CASE answer[k].kind = "error" /\ k \in early
    BY <2>2
  <2>3. CASE /\ child = "reaped"
             /\ answer[k].kind = (IF end.how = "EXITED" THEN "exited" ELSE "signalled")
    BY <1>2, <2>3, StaysOver
  <2> QED BY <2>1, <2>2, <2>3 DEF HandlerInv, KillAnswerSound
<1> QED BY <1>1, <1>2, <1>3, <1>4 DEF HandlerInv

\* A read after which handler k goes on with the n-th.
LEMMA ReadNextOK ==
  ASSUME Inv, HandlerInv, NEW k \in Handlers, NEW n \in 2..7, ReadNext(k, n),
         UNCHANGED <<vars, early>>, pc[k] = "done", reading[k] # Answered,
         n = 2 => k \in early \/ (pipeOpen => end.how = "SIGNALLED"),
         n = 3 => k \in early \/ ~pipeOpen,
         n \in {4, 5, 6, 7} => Over,
         n \in {5, 7} => (pipeOpen => end.how = "SIGNALLED"),
         n = 6 => (pipeOpen => end.how = "EXITED")
  PROVE  HandlerInv'
<1>1. UNCHANGED <<status, pipeOpen, child, end, pc, early, answer>>
  BY DEF vars, fieldVars, childVars, callVars, ReadNext
<1>2. HandlerTypes'
  BY DEF ReadNext, HandlerInv, HandlerTypes
<1>3. /\ reading'[k] = n
      /\ \A j \in Handlers : j # k => reading'[j] = reading[j]
  BY DEF ReadNext, HandlerInv, HandlerTypes
<1>4. HandlerOK(k)'
  BY <1>1, <1>3 DEF HandlerInv, HandlerOK, Over, Answered
<1>5. ASSUME NEW j \in Handlers, j # k PROVE HandlerOK(j)'
  BY <1>1, <1>3, <1>5 DEF HandlerInv, HandlerOK, Over
<1>6. Started' /\ KillAnswerSound'
  BY <1>1 DEF HandlerInv, Started, KillAnswerSound
<1> QED BY <1>2, <1>4, <1>5, <1>6 DEF HandlerInv

\* An answer that is sound when it is given.
LEMMA ReplyOK ==
  ASSUME Inv, HandlerInv, NEW k \in Handlers, NEW kind \in Kinds, NEW value \in Int,
         Reply(k, kind, value), UNCHANGED <<vars, early>>, pc[k] = "done",
         \/ Over /\ ~pipeOpen
         \/ kind = "error" /\ k \in early
         \/ /\ Over
            /\ kind = (IF end.how = "EXITED" THEN "exited" ELSE "signalled")
  PROVE  HandlerInv'
<1>1. UNCHANGED <<status, pipeOpen, child, end, pc, early>>
  BY DEF vars, fieldVars, childVars, callVars
<1>2. HandlerTypes'
  BY DEF Reply, Answer, Answered, HandlerInv, HandlerTypes
<1>3. /\ reading'[k] = Answered /\ answer'[k].kind = kind
      /\ \A j \in Handlers : j # k => reading'[j] = reading[j] /\ answer'[j] = answer[j]
  BY DEF Reply, Answer, HandlerInv, HandlerTypes
<1>4. HandlerOK(k)'
  BY <1>1, <1>3 DEF HandlerInv, HandlerOK, Over, Answered
<1>5. ASSUME NEW j \in Handlers, j # k PROVE HandlerOK(j)'
  BY <1>1, <1>3, <1>5 DEF HandlerInv, HandlerOK, Over
<1>6. KillAnswerSound'
  <2> DEFINE Sound(j) ==
        answer[j].kind # "none" =>
          \/ status # "NOT_STARTED" /\ ~pipeOpen
          \/ answer[j].kind = "error" /\ j \in early
          \/ /\ child = "reaped"
             /\ answer[j].kind = (IF end.how = "EXITED" THEN "exited" ELSE "signalled")
  <2>1. Sound(k)'
    BY <1>1, <1>3 DEF Over
  <2>2. ASSUME NEW j \in Handlers, j # k PROVE Sound(j)'
    <3>1. Sound(j)
      BY DEF HandlerInv, KillAnswerSound
    <3> QED BY <1>1, <1>3, <2>2, <3>1
  <2>3. \A j \in Handlers : Sound(j)'
    BY <2>1, <2>2
  <2> QED BY <2>3 DEF KillAnswerSound
<1>7. Started'
  BY <1>1 DEF HandlerInv, Started
<1> QED BY <1>2, <1>4, <1>5, <1>6, <1>7 DEF HandlerInv

\* Each read of the status by handler k.
LEMMA ReadOK ==
  ASSUME Inv, HandlerInv, NEW k \in Handlers, HandlerStep(k)
  PROVE  HandlerInv'
<1>1. pc[k] = "done" /\ HandlerOK(k) /\ UNCHANGED <<vars, early>>
  BY DEF HandlerStep, HandlerInv
<1>2. end.how \in {"EXITED", "SIGNALLED"} /\ ExitCode \in Int
  BY DEF Inv, TypeOK, Outcomes, ExitCode
<1>3. status \in {"EXITED", "SIGNALLED", "CANNOT_KILL"} => Over
  BY StatusOver
<1>4. Over => status # "NOT_STARTED" /\ (pipeOpen => status = end.how)
  BY DEF Over
<1>5. k \in early \/ Over
  BY <1>1 DEF HandlerOK
<1>6. Tests[1] = "EXITED" /\ Tests[2] = "SIGNALLED" /\ Tests[3] = "CANNOT_KILL"
      /\ DOMAIN Tests = 1..3
  BY DEF Tests
<1>7. "error" \in Kinds /\ "cannot_kill" \in Kinds /\ "exited" \in Kinds
      /\ "signalled" \in Kinds
  BY DEF Kinds
<1>8. CASE TestOver(k)
  <2>1. reading[k] \in 1..3 /\ reading[k] # Answered
    BY <1>6, <1>8 DEF TestOver, Answered
  <2>2. CASE status = Tests[reading[k]] /\ ReadNext(k, ReadKind)
    <3>1. Over
      BY <1>3, <1>6, <2>1, <2>2
    <3>2. ReadNext(k, 4)
      BY <2>2 DEF ReadKind
    <3> QED BY <1>1, <2>1, <3>1, <3>2, ReadNextOK
  <2>3. CASE status # Tests[1] /\ reading[k] = 1 /\ ReadNext(k, 2)
    <3>1. k \in early \/ (pipeOpen => end.how = "SIGNALLED")
      BY <1>2, <1>4, <1>5, <1>6, <2>3
    <3> QED BY <1>1, <2>1, <2>3, <3>1, ReadNextOK
  <2>4. CASE status # Tests[2] /\ reading[k] = 2 /\ ReadNext(k, 3)
    <3>1. k \in early \/ (pipeOpen => end.how = "SIGNALLED")
      BY <1>1, <2>4 DEF HandlerOK
    <3>2. k \in early \/ ~pipeOpen
      BY <1>4, <1>5, <1>6, <2>4, <3>1
    <3> QED BY <1>1, <2>1, <2>4, <3>2, ReadNextOK
  <2>5. CASE reading[k] = 3 /\ Reply(k, "error", 0)
    <3>1. k \in early \/ (Over /\ ~pipeOpen)
      BY <1>1, <1>5, <2>5 DEF HandlerOK
    <3> QED BY <1>1, <1>7, <2>5, <3>1, ReplyOK
  <2> QED BY <1>8, <2>1, <2>2, <2>3, <2>4, <2>5 DEF TestOver
<1>9. CASE TestKind(k)
  <2>1. CASE reading[k] = 4 /\ status = "EXITED" /\ ReadNext(k, 6)
    <3>1. Over /\ (pipeOpen => end.how = "EXITED")
      BY <1>3, <1>4, <2>1
    <3> QED BY <1>1, <2>1, <3>1, ReadNextOK DEF Answered
  <2>2. CASE reading[k] = 4 /\ status # "EXITED" /\ ReadNext(k, 5)
    <3>1. Over
      BY <1>1, <2>2 DEF HandlerOK
    <3>2. pipeOpen => end.how = "SIGNALLED"
      BY <1>2, <1>4, <2>2, <3>1
    <3> QED BY <1>1, <2>2, <3>1, <3>2, ReadNextOK DEF Answered
  <2>3. CASE reading[k] = 5 /\ status = "SIGNALLED" /\ ReadNext(k, 7)
    <3>1. Over /\ (pipeOpen => end.how = "SIGNALLED")
      BY <1>1, <2>3 DEF HandlerOK
    <3> QED BY <1>1, <2>3, <3>1, ReadNextOK DEF Answered
  <2>4. CASE reading[k] = 5 /\ status # "SIGNALLED" /\ Reply(k, "cannot_kill", 0)
    <3>1. Over /\ (pipeOpen => end.how = "SIGNALLED")
      BY <1>1, <2>4 DEF HandlerOK
    <3>2. Over /\ ~pipeOpen
      BY <1>4, <2>4, <3>1
    <3> QED BY <1>1, <1>7, <2>4, <3>2, ReplyOK
  <2> QED BY <1>9, <2>1, <2>2, <2>3, <2>4
          DEF TestKind, ReadKind, ReadSignalled, ReadCode
<1>10. CASE SendValue(k)
  <2>1. CASE reading[k] = 6 /\ Reply(k, "exited", ExitCode)
    <3>1. Over /\ (pipeOpen => end.how = "EXITED")
      BY <1>1, <2>1 DEF HandlerOK
    <3> QED BY <1>1, <1>2, <1>7, <2>1, <3>1, ReplyOK
  <2>2. CASE reading[k] = 7 /\ Reply(k, "signalled", ExitCode)
    <3>1. Over /\ (pipeOpen => end.how = "SIGNALLED")
      BY <1>1, <2>2 DEF HandlerOK
    <3> QED BY <1>1, <1>2, <1>7, <2>2, <3>1, ReplyOK
  <2>3. DOMAIN ReadCode = {"exited", "signalled"}
        /\ ReadCode["exited"] = 6 /\ ReadCode["signalled"] = 7
    BY DEF ReadCode
  <2> QED BY <1>10, <2>1, <2>2, <2>3 DEF SendValue
<1> QED BY <1>8, <1>9, <1>10 DEF HandlerStep

\* Neither kind of step takes anything back.
LEMMA HandlerInvariance == HandlerSpec => [](Inv /\ HandlerInv)
<1> DEFINE hvars == <<vars, handlerVars>>
<1>1. HandlerInit => Inv /\ HandlerInv
  BY HandlerInitInv
<1>2. ASSUME Inv, HandlerInv, [HandlerNext]_hvars PROVE Inv' /\ HandlerInv'
  <2>1. [Next]_vars
    <3>1. CASE UNCHANGED hvars
      BY <3>1
    <3>2. CASE HandlerNext
      BY <3>2 DEF HandlerNext, HandlerStep
    <3> QED BY <1>2, <3>1, <3>2
  <2>2. Inv'
    BY <1>2, <2>1, StepTypeOK, StepStatus, StepWait, StepKill DEF Inv
  <2>3. CASE UNCHANGED hvars
    <3>1. UNCHANGED <<status, pipeOpen, child, end, pc, reading, answer, early>>
      BY <2>3 DEF vars, fieldVars, childVars, callVars, handlerVars
    <3> QED BY <1>2, <2>2, <3>1 DEF HandlerInv, HandlerTypes, HandlerOK, Started, Over,
                                    KillAnswerSound
  <2>4. CASE \E k \in Handlers : HandlerStep(k)
    BY <1>2, <2>2, <2>4, ReadOK
  <2>5. CASE Next /\ ~(\E k \in Handlers : HandlerStep(k)) /\ HandlerNext
    <3>1. /\ early' = early \cup {k \in Handlers : /\ pc[k] = "idle" /\ pc'[k] = "done"
                                                   /\ status = "NOT_STARTED"}
          /\ UNCHANGED <<reading, answer>>
      BY <2>5 DEF HandlerNext
    <3> QED BY <1>2, <2>2, <2>5, <3>1, ExecutorStep
  <2> QED BY <1>2, <2>3, <2>4, <2>5 DEF HandlerNext
<1> QED BY <1>1, <1>2, PTL DEF HandlerSpec

\* As long as no call of kill() has given up, the answer of KillHandler is the
\* way in which the process ended, which has been reaped, for any number of
\* threads that wait and kill, and any interleaving of its six reads with them.
THEOREM AnswerSound == HandlerSpec => []KillAnswerSound
<1>1. HandlerInv => KillAnswerSound
  BY DEF HandlerInv
<1> QED BY <1>1, HandlerInvariance, PTL

===============================================================================
