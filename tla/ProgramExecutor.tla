---------------------------- MODULE ProgramExecutor ----------------------------
(***************************************************************************)
(* The execution of one program (src/src/ProgramExecutor.cpp): it is       *)
(* forked, a background thread reaps it, any number of threads wait for it *)
(* and any number of threads try to kill it, by SIGINT, a second SIGINT and*)
(* SIGKILL, each followed by a wait of limited time.                       *)
(*                                                                         *)
(* _waitMutex protects every access of wait(), _killIfRunning() and the    *)
(* background thread, but status(), exitCode() and the first test of kill()*)
(* read the fields without it; so the two assignments of the background    *)
(* thread are two steps, and every other critical section is one.          *)
(* The calls are made by different threads: a kill() that a signal handler *)
(* makes in the middle of another one of the same thread is not part of    *)
(* this module.                                                            *)
(***************************************************************************)
EXTENDS Integers, Sequences

CONSTANTS
  Waiters,     \* the threads that call wait()
  Killers,     \* the threads that call kill()
  Codes,       \* the exit codes of the program
  ExitSignals, \* the signals that may end it
  Untimed,     \* the waits of kill() whose time is set to 0: they wait for ever
  Faults       \* what may fail: "fork", "waitpid"

ASSUME ThreadsAssumption == Waiters \cap Killers = {} /\ "none" \notin Killers
ASSUME EndAssumption ==
  Codes \subseteq 0..255 /\ ExitSignals \subseteq 1..127
ASSUME OptionAssumption == Untimed \subseteq 1..3

VARIABLES
  status,      \* _status
  waitStatus,  \* _waitStatus
  processId,   \* _processId: whether fork() returned a process
  pipeOpen,    \* whether _pipeFd is open
  child,       \* the process: "none", "alive", "zombie" or "reaped"
  end,         \* how the process ended: what waitpid stores
  waitPc,      \* where the background thread is
  killMutex,   \* the thread that holds _killMutex
  pc,          \* where each waiter and killer is
  stage,       \* which of its three attempts each killer makes
  timed,       \* whether the wait of each thread has a time limit
  told,        \* what each wait() returned
  sent         \* history: the signals sent to the process

fieldVars == <<status, waitStatus, processId, pipeOpen>>
childVars == <<child, end>>
callVars == <<pc, stage, timed, told>>
vars == <<fieldVars, childVars, waitPc, killMutex, callVars, sent>>

Threads == Waiters \cup Killers

Exited(code) == [how |-> "EXITED", value |-> code]
Signalled(signal) == [how |-> "SIGNALLED", value |-> signal]
Ends == {Exited(c) : c \in Codes} \cup {Signalled(s) : s \in ExitSignals}

\* The value of _waitStatus until it is assigned, which reads as an exit with 0.
NoWaitStatus == [how |-> "EXITED", value |-> 0]

\* What kill() sends at each of its attempts.
Escalation == <<"SIGINT", "SIGINT", "SIGKILL">>

\* Fault: kill() gives up after its second attempt.
AttemptsButLast == 2

\* Fault: kill() makes one attempt too many.
AttemptsOneMore == 4

\* The attempts after which kill() gives up.
Attempts == 3

-------------------------------------------------------------------------------
(* Reading the outcome, as other threads do without the mutex. *)

ExitCode == IF status = "EXITED" THEN waitStatus.value ELSE -1

-------------------------------------------------------------------------------
(* Waiting.  Poco::Condition queues an event per waiting thread: a broadcast  *)
(* sets the events of the queue, a thread whose time is over leaves it, and   *)
(* both then lock the mutex again.  There are no spurious wake-ups.           *)

WaitMutexFree == waitPc # "storing"

\* Fault: only one of the threads is woken.
BroadcastOne ==
  LET w == CHOOSE t \in Threads :
             pc[t] = "waiting" \/ \A u \in Threads : pc[u] # "waiting"
  IN  IF pc[w] = "waiting" THEN [pc EXCEPT ![w] = "signalled"] ELSE pc

\* Fault: nobody is woken.
BroadcastNobody == pc

\* Poco::Condition::broadcast
Broadcast == [t \in Threads |-> IF pc[t] = "waiting" THEN "signalled" ELSE pc[t]]

\* What thread t does when a wait() of it has returned ok.
Returned(t, ok) ==
  IF t \in Waiters
  THEN /\ pc' = [pc EXCEPT ![t] = "done"]
       /\ told' = [told EXCEPT ![t] = ok]
       /\ UNCHANGED <<stage, killMutex>>
  ELSE IF ok
  THEN /\ pc' = [pc EXCEPT ![t] = "done"]
       /\ killMutex' = "none"
       /\ UNCHANGED <<stage, told>>
  ELSE IF stage[t] < Attempts
  THEN /\ pc' = [pc EXCEPT ![t] = "signal"]
       /\ stage' = [stage EXCEPT ![t] = @ + 1]
       /\ UNCHANGED <<told, killMutex>>
  ELSE /\ pc' = [pc EXCEPT ![t] = "giveup"]
       /\ UNCHANGED <<stage, told, killMutex>>

\* Fault: wait() does not lock the mutex.
EnterWaitUnlocked(t, limited) ==
  /\ status # "NOT_STARTED"
  /\ IF status = "RUNNING"
     THEN /\ pc' = [pc EXCEPT ![t] = "waiting"]
          /\ timed' = [timed EXCEPT ![t] = limited]
          /\ UNCHANGED <<stage, told, killMutex>>
     ELSE Returned(t, TRUE) /\ UNCHANGED timed

\* wait(), up to the point where it returns or gives up the mutex.  Before
\* start() it throws and nothing changes.
EnterWait(t, limited) ==
  /\ WaitMutexFree
  /\ status # "NOT_STARTED"
  /\ IF status = "RUNNING"
     THEN /\ pc' = [pc EXCEPT ![t] = "waiting"]
          /\ timed' = [timed EXCEPT ![t] = limited]
          /\ UNCHANGED <<stage, told, killMutex>>
     ELSE Returned(t, TRUE) /\ UNCHANGED timed

\* wait(), called by a waiter.
Wait(w, limited) ==
  /\ pc[w] = "idle"
  /\ EnterWait(w, limited)
  /\ UNCHANGED <<fieldVars, childVars, waitPc, sent>>

\* The time of a wait is over; the mutex is not locked again yet.
Expire(t) ==
  /\ pc[t] = "waiting"
  /\ timed[t]
  /\ pc' = [pc EXCEPT ![t] = "expired"]
  /\ UNCHANGED <<fieldVars, childVars, waitPc, killMutex, stage, timed, told, sent>>

\* The mutex is locked again: wait() returns.
LeaveWait(t) ==
  /\ pc[t] \in {"signalled", "expired"}
  /\ WaitMutexFree
  /\ Returned(t, pc[t] = "signalled")
  /\ UNCHANGED <<fieldVars, childVars, waitPc, timed, sent>>

-------------------------------------------------------------------------------
(* Starting, and the process. *)

\* start().  On failure of pipe() it throws and nothing changes.
Start ==
  /\ status = "NOT_STARTED"
  /\ status' = "RUNNING"
  /\ processId' = TRUE
  /\ child' = "alive"
  /\ pipeOpen' = TRUE
  /\ waitPc' = "waitpid"
  /\ UNCHANGED <<waitStatus, end, killMutex, callVars, sent>>

\* start() when fork() fails: its result -1 is not the child's 0.
StartWithoutFork ==
  /\ status = "NOT_STARTED"
  /\ "fork" \in Faults
  /\ status' = "RUNNING"
  /\ pipeOpen' = TRUE
  /\ waitPc' = "waitpid"
  /\ UNCHANGED <<waitStatus, processId, childVars, killMutex, callVars, sent>>

\* The process ends by itself, by a signal it got from here, or by another one.
End(how) ==
  /\ child = "alive"
  /\ child' = "zombie"
  /\ end' = how
  /\ UNCHANGED <<fieldVars, waitPc, killMutex, callVars, sent>>

-------------------------------------------------------------------------------
(* The background thread: _waitInBackground. *)

\* waitpid() reaps the process; the mutex is not locked yet.
WaitPid ==
  /\ waitPc = "waitpid"
  /\ child = "zombie"
  /\ child' = "reaped"
  /\ waitPc' = "reaped"
  /\ UNCHANGED <<fieldVars, end, killMutex, callVars, sent>>

\* waitpid() fails: it has no child to wait for, or a signal interrupts it.
WaitPidFails ==
  /\ waitPc = "waitpid"
  /\ ~processId \/ "waitpid" \in Faults
  /\ waitPc' = "done"
  /\ UNCHANGED <<fieldVars, childVars, killMutex, callVars, sent>>

\* Locks the mutex and assigns _status.
StoreStatus ==
  /\ waitPc = "reaped"
  /\ status' = end.how
  /\ waitPc' = "storing"
  /\ UNCHANGED <<waitStatus, processId, pipeOpen, childVars, killMutex, callVars, sent>>

\* Assigns _waitStatus, wakes the waiting threads and unlocks the mutex.
StoreWaitStatus ==
  /\ waitPc = "storing"
  /\ waitStatus' = end
  /\ pc' = Broadcast
  /\ waitPc' = "done"
  /\ UNCHANGED <<status, processId, pipeOpen, childVars, killMutex,
                 stage, timed, told, sent>>

-------------------------------------------------------------------------------
(* kill(). *)

\* kill() tests the status before it locks anything.
Kill(k) ==
  /\ pc[k] = "idle"
  /\ pc' = [pc EXCEPT ![k] = IF status = "RUNNING" THEN "blocked" ELSE "done"]
  /\ UNCHANGED <<fieldVars, childVars, waitPc, killMutex, stage, timed, told, sent>>

\* Fault: kills are not serialised.
KillMutexIgnored == TRUE

KillMutexFree == killMutex = "none"

LockKillMutex(k) ==
  /\ pc[k] = "blocked"
  /\ KillMutexFree
  /\ killMutex' = k
  /\ pc' = [pc EXCEPT ![k] = "signal"]
  /\ stage' = [stage EXCEPT ![k] = 1]
  /\ UNCHANGED <<fieldVars, childVars, waitPc, timed, told, sent>>

\* Fault: the process is signalled whatever its status.
SendAlways(signal) == sent' = Append(sent, signal)

Send(signal) ==
  sent' = IF status = "RUNNING" THEN Append(sent, signal) ELSE sent

\* _killIfRunning
KillIfRunning(k) ==
  /\ pc[k] = "signal"
  /\ WaitMutexFree
  /\ Send(Escalation[stage[k]])
  /\ pc' = [pc EXCEPT ![k] = "wait"]
  /\ UNCHANGED <<fieldVars, childVars, waitPc, killMutex, stage, timed, told>>

\* Fault: the wait that follows an attempt has no limit.
KillWaitForEver(k) ==
  /\ pc[k] = "wait"
  /\ EnterWait(k, FALSE)
  /\ UNCHANGED <<fieldVars, childVars, waitPc, sent>>

\* The wait() that follows an attempt.
KillWait(k) ==
  /\ pc[k] = "wait"
  /\ EnterWait(k, stage[k] \notin Untimed)
  /\ UNCHANGED <<fieldVars, childVars, waitPc, sent>>

\* The last wait has returned false: the program cannot be killed.
GiveUp(k) ==
  /\ pc[k] = "giveup"
  /\ WaitMutexFree
  /\ status' = "CANNOT_KILL"
  /\ pipeOpen' = FALSE
  /\ pc' = [Broadcast EXCEPT ![k] = "done"]
  /\ killMutex' = "none"
  /\ UNCHANGED <<waitStatus, processId, childVars, waitPc, stage, timed, told, sent>>

-------------------------------------------------------------------------------
Init ==
  /\ status = "NOT_STARTED"
  /\ waitStatus = NoWaitStatus
  /\ processId = FALSE
  /\ pipeOpen = FALSE
  /\ child = "none"
  /\ end = NoWaitStatus
  /\ waitPc = "none"
  /\ killMutex = "none"
  /\ pc = [t \in Threads |-> "idle"]
  /\ stage = [t \in Threads |-> 1]
  /\ timed = [t \in Threads |-> FALSE]
  /\ told = [t \in Threads |-> FALSE]
  /\ sent = <<>>

Background == WaitPid \/ WaitPidFails \/ StoreStatus \/ StoreWaitStatus

WaiterStep(w) ==
  \/ \E limited \in BOOLEAN : Wait(w, limited)
  \/ Expire(w)
  \/ LeaveWait(w)

KillerStep(k) ==
  \/ Kill(k)
  \/ LockKillMutex(k)
  \/ KillIfRunning(k)
  \/ KillWait(k)
  \/ Expire(k)
  \/ LeaveWait(k)
  \/ GiveUp(k)

Next ==
  \/ Start
  \/ StartWithoutFork
  \/ \E how \in Ends : End(how)
  \/ Background
  \/ \E w \in Waiters : WaiterStep(w)
  \/ \E k \in Killers : KillerStep(k)

Spec == Init /\ [][Next]_vars

\* Every thread that can go on does so, and the timer of a wait runs out; the
\* process owes nothing, and nobody has to call wait() or kill().
WaiterProgress(w) == Expire(w) \/ LeaveWait(w)

KillerProgress(k) ==
  \/ LockKillMutex(k) \/ KillIfRunning(k) \/ KillWait(k)
  \/ Expire(k) \/ LeaveWait(k) \/ GiveUp(k)

Fairness ==
  /\ WF_vars(Background)
  /\ \A w \in Waiters : WF_vars(WaiterProgress(w))
  /\ \A k \in Killers : WF_vars(KillerProgress(k))

FairSpec == Spec /\ Fairness

-------------------------------------------------------------------------------
(* Properties. *)

Statuses == {"NOT_STARTED", "RUNNING", "EXITED", "SIGNALLED", "CANNOT_KILL"}
Places == {"idle", "blocked", "signal", "wait", "waiting", "signalled",
           "expired", "giveup", "done"}
Outcomes == [how : {"EXITED", "SIGNALLED"}, value : Nat]

\* The signals that the first n attempts send.
Attempted(n) == [i \in 1..n |-> Escalation[i]]

\* Type invariant.
TypeOK ==
  /\ status \in Statuses
  /\ waitStatus \in Outcomes
  /\ processId \in BOOLEAN
  /\ pipeOpen \in BOOLEAN
  /\ child \in {"none", "alive", "zombie", "reaped"}
  /\ end \in Outcomes
  /\ waitPc \in {"none", "waitpid", "reaped", "storing", "done"}
  /\ killMutex \in Killers \cup {"none"}
  /\ pc \in [Threads -> Places]
  /\ stage \in [Threads -> 1..3]
  /\ timed \in [Threads -> BOOLEAN]
  /\ told \in [Threads -> BOOLEAN]
  /\ sent \in Seq({"SIGINT", "SIGKILL"})

\* What has been sent is the beginning of the escalation.
PrefixSent == \E n \in 0..3 : sent = Attempted(n)

\* However many threads call kill(), from HTTP requests, a signal handler and
\* the scope guard of main(), and however their waits and the end of the
\* process interleave, the process gets at most two SIGINT and then at most one
\* SIGKILL: a program that cleans up on the first SIGINT is not sent a third
\* one by the next caller.  A thread gives up only after all of them, and closes
\* a pipe that is still open: a second close() of the same descriptor could hit
\* a file that another thread has opened since.
EscalatesOnce ==
  /\ PrefixSent
  /\ \A k \in Killers : pc[k] = "giveup" => sent = Escalation /\ pipeOpen

\* No wake-up is lost: a thread waits only while the program runs, or while
\* the thread that ended this is about to wake it.
WaitersWoken ==
  \A t \in Threads : pc[t] = "waiting" => status = "RUNNING" \/ ~WaitMutexFree

\* Unless kill() has given up, a thread to which wait() returned true reads the
\* true outcome of the program, although it reads it without the mutex.
OutcomeKnown ==
  \A w \in Waiters : told[w] /\ pipeOpen => /\ child = "reaped"
                                            /\ status = end.how
                                            /\ waitStatus = end

\* After wait() has told any thread that the program is over, no signal is sent
\* to its process ID, which may be that of another process by then.
NoSignalAfterEnd ==
  [][(\E w \in Waiters : told[w]) => sent' = sent]_vars

\* A call of kill() returns, whatever the program does with the signals, as long
\* as its waits are limited; and a thread that waits returns once the process has
\* been reaped.
CallsReturn ==
  /\ \A k \in Killers : pc[k] = "blocked" ~> pc[k] = "done"
  /\ \A w \in Waiters : pc[w] = "waiting" /\ child = "reaped" ~> pc[w] = "done"

\* "killed but not stopped" (ProgramExecutor.h, of CANNOT_KILL): the program's
\* end was not recorded before.
CannotKillNotStopped ==
  status = "CANNOT_KILL" => ~(child = "reaped" /\ waitPc = "done")

===============================================================================
