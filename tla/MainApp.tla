-------------------------------- MODULE MainApp --------------------------------
(***************************************************************************)
(* The order of main() (src/src/main.cpp) and the termination signals      *)
(* (src/src/SignalHandler.cpp) that cut across it: main() installs four    *)
(* handlers, one after the other, and the kernel runs notify() on top of   *)
(* whatever a thread of the executor is doing, with the mutexes that this  *)
(* thread holds.                                                           *)
(*                                                                         *)
(* The first handler calls ProgramExecutor::kill(), which is modelled here *)
(* as nested calls of one thread make it; ProgramExecutor has the calls of *)
(* different threads, and what they send, in full.  A thread is a sequence *)
(* of frames: what it does itself, and the handlers that interrupt it.     *)
(* Only the last frame runs.                                               *)
(***************************************************************************)
EXTENDS Integers, FiniteSets, Sequences

CONSTANTS
  Main,       \* the main thread
  Reaper,     \* the background thread of the executor
  Http,       \* threads of the HTTP server
  Signals,    \* SIGINT and SIGTERM
  MaxSignals, \* bound on the signals that are sent to the executor
  Entries,    \* the number of files and directories in the working directory
  NoExits     \* the values of the option --no-exit

ASSUME ThreadsAssumption ==
  /\ Main # Reaper /\ {Main, Reaper} \cap Http = {}
  /\ "none" \notin Http \cup {Main, Reaper}
ASSUME PoolAssumption == IsFiniteSet(Http)
ASSUME InputAssumption ==
  MaxSignals \in Nat /\ Entries \in Nat /\ NoExits \subseteq BOOLEAN

VARIABLES
  frames,          \* the frames of each thread
  step,            \* how far main() is in its Script
  mutex,           \* who holds the recursive mutexes, and how often
  installed,       \* _installed
  interrupted,     \* _interrupted
  handlers,        \* _stack
  status,          \* _status of the executor
  child,           \* the process: "none", "alive", "zombie" or "reaped"
  raised,          \* how many signals were sent
  size,            \* the entries that calculateDirSize has counted
  lost,            \* history: the entries that errors have dropped from the sum
  sizeInterrupted, \* the flag that the handler of the walk sets
  workDirSize,     \* the size that is found
  reported         \* the status that programFinished reports

signalVars == <<installed, interrupted, handlers>>
executorVars == <<status, child>>
sizeVars == <<size, lost, sizeInterrupted, workDirSize>>
mainVars == <<sizeVars, reported>>
vars == <<frames, step, mutex, signalVars, executorVars, raised, mainVars>>

Threads == {Main, Reaper} \cup Http
Mutexes == {"signal", "kill", "wait"}

\* Fault: main() does not wait for the program.
ScriptWithoutWait ==
  << "start", "push kill", "pop", "save", "push size", "walk", "measured",
     "pop", "report", "run after", "push persist", "join", "pop",
     "no exit", "push exit", "await", "pop", "stop", "done" >>

\* What main() does, in this order.
Script ==
  << "start", "push kill", "wait", "pop", "save", "push size", "walk", "measured",
     "pop", "report", "run after", "push persist", "join", "pop",
     "no exit", "push exit", "await", "pop", "stop", "done" >>

Pushes == [kill |-> "push kill", size |-> "push size",
           persist |-> "push persist", exit |-> "push exit"]

-------------------------------------------------------------------------------
(* Frames and mutexes. *)

Frame(at, signal) == [at |-> at, signal |-> signal, stage |-> 1, left |-> 0]

Top(t) == frames[t][Len(frames[t])]
At(t, place) == Top(t).at = place
MainAt == frames[Main][1].at

\* Thread t runs a handler; it is in main() itself.
Interrupting(t) == Len(frames[t]) > 1
InMain(t) == t = Main /\ ~Interrupting(t)

\* The frame that runs in thread t becomes f, or goes to another place.
Becomes(t, f) == frames' = [frames EXCEPT ![t][Len(frames[t])] = f]
Goto(t, place) == Becomes(t, [Top(t) EXCEPT !.at = place])

\* main() goes on with the next item of its Script, or with the n-th.
MainGoto(n) == Goto(Main, Script[n]) /\ step' = n
MainNext == MainGoto(step + 1)

\* Fault: the mutexes are not recursive.
CanLockOnce(m, t) == mutex[m].by = "none"

\* Poco::Mutex is recursive.
CanLock(m, t) == mutex[m].by \in {"none", t}

Lock(m, t) ==
  /\ CanLock(m, t)
  /\ mutex' = [mutex EXCEPT ![m] = [by |-> t, depth |-> @.depth + 1]]

\* One level of the mutex: a nested call leaves it locked for the outer one.
Unlock(m) ==
  mutex' = [mutex EXCEPT ![m] = IF @.depth = 1 THEN [by |-> "none", depth |-> 0]
                                               ELSE [by |-> @.by, depth |-> @.depth - 1]]

\* Poco::Condition::broadcast: every frame that sleeps at the place is woken.
Woken(fs, place) ==
  [t \in Threads |->
     [i \in DOMAIN fs[t] |->
        IF fs[t][i].at = place THEN [fs[t][i] EXCEPT !.at = "woken"] ELSE fs[t][i]]]

-------------------------------------------------------------------------------
(* ProgramExecutor: the background thread, wait() and kill(). *)

\* waitpid() reaps the process.
WaitPid ==
  /\ At(Reaper, "waitpid")
  /\ child = "zombie"
  /\ child' = "reaped"
  /\ Goto(Reaper, "reaped")
  /\ UNCHANGED <<step, mutex, signalVars, status, raised, mainVars>>

LockToStore ==
  /\ At(Reaper, "reaped")
  /\ Lock("wait", Reaper)
  /\ Goto(Reaper, "locked")
  /\ UNCHANGED <<step, signalVars, executorVars, raised, mainVars>>

\* Fault: nobody is woken.
StoreQuietly ==
  /\ At(Reaper, "locked")
  /\ status' = "EXITED"
  /\ Goto(Reaper, "done")
  /\ Unlock("wait")
  /\ UNCHANGED <<step, signalVars, child, raised, mainVars>>

\* Stores the outcome and wakes the threads that wait for it.
StoreStatus ==
  /\ At(Reaper, "locked")
  /\ status' = "EXITED"
  /\ frames' = [Woken(frames, "waiting") EXCEPT ![Reaper][1].at = "done"]
  /\ Unlock("wait")
  /\ UNCHANGED <<step, signalVars, child, raised, mainVars>>

\* kill() returns to the handler of the signal, or to the HTTP request.
AfterKill(t) ==
  IF Interrupting(t)
  THEN [Top(t) EXCEPT !.at = "iterate", !.left = Top(t).left - 1, !.stage = 1]
  ELSE Frame("done", "none")
KillReturns(t) == Becomes(t, AfterKill(t))

\* kill() tests the status before it locks anything.
Kill(t) ==
  /\ At(t, "kill")
  /\ IF status = "RUNNING" THEN Goto(t, "lock kill") ELSE KillReturns(t)
  /\ UNCHANGED <<step, mutex, signalVars, executorVars, raised, mainVars>>

LockKill(t) ==
  /\ At(t, "lock kill")
  /\ Lock("kill", t)
  /\ Goto(t, "signal")
  /\ UNCHANGED <<step, signalVars, executorVars, raised, mainVars>>

\* _killIfRunning; what the signal does to the program is up to the program.
KillIfRunning(t) ==
  /\ At(t, "signal")
  /\ CanLock("wait", t)
  /\ Goto(t, "wait")
  /\ UNCHANGED <<step, mutex, signalVars, executorVars, raised, mainVars>>

\* wait() has returned: to main(), or to an attempt of kill().
WaitReturns(t, ok) ==
  IF InMain(t) THEN MainNext /\ UNCHANGED mutex
  ELSE /\ UNCHANGED step
       /\ IF ok THEN KillReturns(t) /\ Unlock("kill")
          ELSE /\ IF Top(t).stage < 3
                  THEN Becomes(t, [Top(t) EXCEPT !.at = "signal", !.stage = Top(t).stage + 1])
                  ELSE Goto(t, "giveup")
               /\ UNCHANGED mutex

\* wait() locks the mutex and tests the status.
Wait(t) ==
  /\ At(t, "wait")
  /\ IF status = "RUNNING"
     THEN Lock("wait", t) /\ Goto(t, "tested") /\ UNCHANGED step
     ELSE CanLock("wait", t) /\ WaitReturns(t, TRUE)
  /\ UNCHANGED <<signalVars, executorVars, raised, mainVars>>

\* _waitCond->wait queues the thread and unlocks one level of the mutex.
WaitSleeps(t) ==
  /\ At(t, "tested")
  /\ Goto(t, "waiting")
  /\ Unlock("wait")
  /\ UNCHANGED <<step, signalVars, executorVars, raised, mainVars>>

\* The waits of kill() have a limit, that of main() has none.
Expire(t) ==
  /\ At(t, "waiting")
  /\ ~InMain(t)
  /\ Goto(t, "expired")
  /\ UNCHANGED <<step, mutex, signalVars, executorVars, raised, mainVars>>

\* The mutex is locked again, and unlocked as wait() returns.
LeaveWait(t) ==
  /\ At(t, "woken") \/ At(t, "expired")
  /\ InMain(t) => Script[step] = "wait"
  /\ CanLock("wait", t)
  /\ WaitReturns(t, At(t, "woken"))
  /\ UNCHANGED <<signalVars, executorVars, raised, mainVars>>

\* Fault: kill() returns after its last attempt, whatever came of it.
ReturnUnkilled(t) ==
  /\ At(t, "giveup")
  /\ KillReturns(t)
  /\ Unlock("kill")
  /\ UNCHANGED <<step, signalVars, executorVars, raised, mainVars>>

GiveUp(t) ==
  /\ At(t, "giveup")
  /\ CanLock("wait", t)
  /\ status' = "CANNOT_KILL"
  /\ frames' = [Woken(frames, "waiting") EXCEPT ![t][Len(frames[t])] = AfterKill(t)]
  /\ Unlock("kill")
  /\ UNCHANGED <<step, signalVars, child, raised, mainVars>>

\* A request for /_kill.
RequestKill(h) ==
  /\ At(h, "idle")
  /\ Goto(h, "kill")
  /\ UNCHANGED <<step, mutex, signalVars, executorVars, raised, mainVars>>

\* The program ends: by itself, or of a signal that it got.
ProgramEnds ==
  /\ child = "alive"
  /\ child' = "zombie"
  /\ UNCHANGED <<frames, step, mutex, signalVars, status, raised, mainVars>>

-------------------------------------------------------------------------------
(* GlobalSignalHandler. *)

\* A thread handles one signal of a kind at a time (sa_mask is empty).
Handling(t) == {frames[t][i].signal : i \in 2..Len(frames[t])}

\* A signal is sent to the executor, and the kernel picks a thread for it.  It
\* interrupts waitpid(), which then fails; and it ends the executor before any
\* handler is installed.
Deliver(s, t) ==
  /\ raised < MaxSignals
  /\ s \notin Handling(t)
  /\ raised' = raised + 1
  /\ frames' = IF ~installed THEN [frames EXCEPT ![Main][1].at = "dead"]
               ELSE [frames EXCEPT ![t] =
                       IF At(t, "waitpid") /\ child # "zombie"
                       THEN <<Frame("done", "none"), Frame("notify", s)>>
                       ELSE Append(@, Frame("notify", s))]
  /\ UNCHANGED <<step, mutex, signalVars, executorVars, mainVars>>

\* notify() locks the mutex, unless the thread that it interrupts has it.
NotifyLocks(t) ==
  /\ At(t, "notify")
  /\ Lock("signal", t)
  /\ interrupted' = TRUE
  /\ Becomes(t, [Top(t) EXCEPT !.at = "iterate", !.left = Len(handlers)])
  /\ UNCHANGED <<step, installed, handlers, executorVars, raised, mainVars>>

\* Calls the next handler, the youngest first.
NotifyCalls(t) ==
  /\ At(t, "iterate")
  /\ Top(t).left > 0
  /\ LET handler == handlers[Top(t).left]
     IN  /\ IF handler = "kill" THEN Goto(t, "kill")
                                ELSE Becomes(t, [Top(t) EXCEPT !.left = Top(t).left - 1])
         /\ sizeInterrupted' = (sizeInterrupted \/ handler = "size")
  /\ UNCHANGED <<step, mutex, signalVars, executorVars, raised, size,
                 lost, workDirSize, reported>>

\* Wakes the thread that awaits a signal, and returns to what it interrupted.
NotifyReturns(t) ==
  /\ At(t, "iterate")
  /\ Top(t).left = 0
  /\ frames' = [Woken(frames, "awaiting") EXCEPT ![t] = SubSeq(@, 1, Len(@) - 1)]
  /\ Unlock("signal")
  /\ UNCHANGED <<step, signalVars, executorVars, raised, mainVars>>

\* push() installs the global handler, and then adds its own.
PushInstalls(handler) ==
  /\ At(Main, Pushes[handler])
  /\ Lock("signal", Main)
  /\ installed' = TRUE
  /\ Goto(Main, "pushing")
  /\ UNCHANGED <<step, interrupted, handlers, executorVars, raised, mainVars>>

PushAppends(handler) ==
  /\ At(Main, "pushing")
  /\ Script[step] = Pushes[handler]
  /\ handlers' = Append(handlers, handler)
  /\ Unlock("signal")
  /\ MainNext
  /\ UNCHANGED <<installed, interrupted, executorVars, raised, mainVars>>

\* Fault: pop() does not lock the mutex.
PopUnlocked ==
  /\ At(Main, "pop")
  /\ handlers' = SubSeq(handlers, 1, Len(handlers) - 1)
  /\ MainNext
  /\ UNCHANGED <<mutex, installed, interrupted, executorVars, raised, mainVars>>

Pop ==
  /\ At(Main, "pop")
  /\ CanLock("signal", Main)
  /\ handlers' = SubSeq(handlers, 1, Len(handlers) - 1)
  /\ MainNext
  /\ UNCHANGED <<mutex, installed, interrupted, executorVars, raised, mainVars>>

\* GlobalSignalHandler::wait
Await ==
  /\ At(Main, "await")
  /\ IF interrupted
     THEN CanLock("signal", Main) /\ MainNext /\ UNCHANGED mutex
     ELSE Lock("signal", Main) /\ Goto(Main, "tested to await") /\ UNCHANGED step
  /\ UNCHANGED <<signalVars, executorVars, raised, mainVars>>

AwaitSleeps ==
  /\ At(Main, "tested to await")
  /\ Goto(Main, "awaiting")
  /\ Unlock("signal")
  /\ UNCHANGED <<step, signalVars, executorVars, raised, mainVars>>

AwaitReturns ==
  /\ At(Main, "woken") /\ InMain(Main) /\ Script[step] = "await"
  /\ CanLock("signal", Main)
  /\ MainNext
  /\ UNCHANGED <<mutex, signalVars, executorVars, raised, mainVars>>

-------------------------------------------------------------------------------
(* main(). *)

Start ==
  /\ At(Main, "start")
  /\ status' = "RUNNING"
  /\ child' = "alive"
  /\ step' = 2
  /\ frames' = [frames EXCEPT ![Main][1].at = Script[2], ![Reaper][1].at = "waitpid"]
  /\ UNCHANGED <<mutex, signalVars, raised, mainVars>>

\* What main() does in other modules: it saves the output and stops the servers.
\* Or in none: the run-after command is another executor, with mutexes of its own
\* and no handler, and limits to its wait() and its kill(); waiting for the
\* callbacks does nothing.
Proceed ==
  /\ \E place \in {"save", "run after", "join", "stop"} : At(Main, place)
  /\ MainNext
  /\ UNCHANGED <<mutex, signalVars, executorVars, raised, mainVars>>

\* calculateDirSize tests the flag before each entry, and adds the size of the
\* entry.
WalkOn ==
  /\ At(Main, "walk")
  /\ size + lost < Entries
  /\ ~sizeInterrupted
  /\ size' = size + 1
  /\ UNCHANGED <<frames, step, mutex, signalVars, executorVars, raised,
                 lost, sizeInterrupted, workDirSize, reported>>

\* An entry cannot be read, or is gone: getFsSize catches the exception and
\* counts 0 for the entry and all that is below it, of which a part may have
\* been counted.  The walk goes on, and nothing but the log tells of it.
WalkFails ==
  /\ At(Main, "walk")
  /\ \E counted \in 0..size, others \in 1..(Entries - size - lost) :
       /\ size' = size - counted
       /\ lost' = lost + counted + others
  /\ UNCHANGED <<frames, step, mutex, signalVars, executorVars, raised,
                 sizeInterrupted, workDirSize, reported>>

\* The walk is through, or has seen the flag.  (A walk that is cut short still
\* adds the sizes of the directories it is in, to a sum that is dropped.)
WalkEnds ==
  /\ At(Main, "walk")
  /\ size + lost = Entries \/ sizeInterrupted
  /\ MainNext
  /\ UNCHANGED <<mutex, signalVars, executorVars, raised, mainVars>>

\* Fault: the size is taken whether or not the walk was cut short.
MeasuredAnyhow == size

\* -1 stands for a size that is not known.
Measured == IF sizeInterrupted THEN -1 ELSE size

KeepSize ==
  /\ At(Main, "measured")
  /\ workDirSize' = Measured
  /\ MainNext
  /\ UNCHANGED <<mutex, signalVars, executorVars, raised, size,
                 lost, sizeInterrupted, reported>>

\* programFinished
Report ==
  /\ At(Main, "report")
  /\ reported' = status
  /\ MainNext
  /\ UNCHANGED <<mutex, signalVars, executorVars, raised, sizeVars>>

\* Only with --no-exit, which is read once, and before any signal, does main()
\* await one.
TestNoExit ==
  /\ At(Main, "no exit")
  /\ \E noExit \in NoExits :
       IF noExit /\ ~interrupted THEN MainNext ELSE MainGoto(Len(Script) - 1)
  /\ UNCHANGED <<mutex, signalVars, executorVars, raised, mainVars>>

-------------------------------------------------------------------------------
Init ==
  /\ frames = [t \in Threads |->
                 <<Frame(IF t = Main THEN "start"
                         ELSE IF t = Reaper THEN "none" ELSE "idle", "none")>>]
  /\ step = 1
  /\ mutex = [m \in Mutexes |-> [by |-> "none", depth |-> 0]]
  /\ installed = FALSE
  /\ interrupted = FALSE
  /\ handlers = <<>>
  /\ status = "NOT_STARTED"
  /\ child = "none"
  /\ raised = 0
  /\ size = 0
  /\ lost = 0
  /\ sizeInterrupted = FALSE
  /\ workDirSize = -1
  /\ reported = "none"

KillStep(t) ==
  \/ Kill(t) \/ LockKill(t) \/ KillIfRunning(t) \/ Wait(t) \/ WaitSleeps(t)
  \/ Expire(t) \/ LeaveWait(t) \/ GiveUp(t)

NotifyStep(t) == NotifyLocks(t) \/ NotifyCalls(t) \/ NotifyReturns(t)

ReaperStep == WaitPid \/ LockToStore \/ StoreStatus

MainStep ==
  \/ Start \/ Pop \/ Await \/ AwaitSleeps \/ AwaitReturns
  \/ \E h \in DOMAIN Pushes : PushInstalls(h) \/ PushAppends(h)
  \/ Proceed \/ WalkOn \/ WalkFails \/ WalkEnds \/ KeepSize \/ Report \/ TestNoExit

Step(t) ==
  \/ KillStep(t)
  \/ NotifyStep(t)
  \/ t = Reaper /\ ReaperStep
  \/ t = Main /\ MainStep

\* The executor has ended when main() has returned, or a signal has ended it.
Ended == MainAt \in {"done", "dead"}

Next ==
  /\ ~Ended
  /\ \/ \E t \in Threads : Step(t)
     \/ \E h \in Http : RequestKill(h)
     \/ \E s \in Signals, t \in Threads : Deliver(s, t)
     \/ ProgramEnds

Spec == Init /\ [][Next]_vars

\* Every thread that can go on does so.  The program and the signals owe nothing.
FairSpec == Spec /\ \A t \in Threads : WF_vars(~Ended /\ Step(t))

-------------------------------------------------------------------------------
(* Properties. *)

KillPlaces == {"lock kill", "signal", "wait", "tested", "waiting", "woken",
               "expired", "giveup"}
Places == KillPlaces \cup {Script[n] : n \in DOMAIN Script} \cup
  {"none", "idle", "kill", "notify", "iterate", "pushing", "tested to await",
   "awaiting", "waitpid", "reaped", "locked", "dead"}

\* Type invariant.
TypeOK ==
  /\ frames \in [Threads -> Seq([at : Places, signal : Signals \cup {"none"},
                                 stage : 1..3, left : Nat])]
  /\ step \in DOMAIN Script
  /\ mutex \in [Mutexes -> [by : Threads \cup {"none"}, depth : Nat]]
  /\ {installed, interrupted, sizeInterrupted} \subseteq BOOLEAN
  /\ handlers \in Seq(DOMAIN Pushes)
  /\ status \in {"NOT_STARTED", "RUNNING", "EXITED", "CANNOT_KILL"}
  /\ child \in {"none", "alive", "zombie", "reaped"}
  /\ raised \in 0..MaxSignals
  /\ {size, lost, size + lost} \subseteq 0..Entries
  /\ workDirSize \in -1..Entries
  /\ reported \in {"none", "EXITED", "CANNOT_KILL"}

\* notify() goes through the stack while main() pushes and pops: what it has
\* still to call stays on the stack, and main() does not leave the scope that the
\* handler refers to while a thread is inside the handler.
HandlerInScope ==
  \A t \in Threads : \A i \in 2..Len(frames[t]) :
    LET f == frames[t][i]
    IN  /\ f.left <= Len(handlers)
        /\ f.at \in KillPlaces => f.left > 0 /\ handlers[f.left] = "kill"

\* Whatever it interrupts and whatever interrupts it, kill() returns only when
\* the program is over, or is given up.
KillEndsProgram ==
  [][\A t \in Threads :
       /\ Top(t).at \in KillPlaces /\ ~InMain(t)
       /\ Len(frames'[t]) = Len(frames[t])
       /\ frames'[t][Len(frames[t])].at \notin KillPlaces
       => status' # "RUNNING"]_vars

\* The mutex that thread t needs at its place.
Needs(t) ==
  IF At(t, "lock kill") THEN "kill"
  ELSE IF At(t, "notify") \/ (InMain(t) /\ Script[step] # "wait") THEN "signal"
  ELSE "wait"

\* The threads of S wait for one another, or for themselves.
Deadlocked(S) ==
  /\ S # {}
  /\ \A t \in S :
       /\ Top(t).at \in {"lock kill", "notify", "pop", "reaped"} \cup (KillPlaces \ {"waiting", "tested"})
       /\ ~CanLock(Needs(t), t)
       /\ mutex[Needs(t)].by \in S

\* The handlers and the requests that are in progress.
CallsInProgress ==
  {c \in Threads \X (1..3) :
     /\ c[2] \in DOMAIN frames[c[1]]
     /\ c[2] = 1 => c[1] \in Http /\ frames[c[1]][1].at \in KillPlaces}

\* A handler takes the mutexes on top of those that the interrupted thread
\* holds, in an order of its own; alone, it never closes a circle of threads
\* that wait for each other's mutexes.  (With a second signal or a request for
\* /_kill in progress, it may: see the README.)
AloneNoDeadlock ==
  Cardinality(CallsInProgress) <= 1 => \A S \in SUBSET Threads : ~Deadlocked(S)

\* What is reported of the working directory is the size of all its entries but
\* those that errors have dropped, never that of a walk that was cut short; or it
\* is -1, and that only after a signal, which may come at any time of the walk.
\* (What errors have dropped is missing without a sign: the number does not tell.)
SizeReported ==
  reported # "none" => \/ workDirSize = Entries - lost
                       \/ workDirSize = -1 /\ interrupted

CallsMade == raised + Cardinality({h \in Http : frames[h][1].at # "idle"})

\* Once the program has been reaped, main() goes on to its end, or to the wait
\* of --no-exit, whatever single signal or request for /_kill came, in whatever
\* thread and at whatever place.
EndsAfterOneCall ==
  child = "reaped" ~> Ended \/ MainAt = "awaiting" \/ CallsMade > 1

\* The executor that waits for a signal ends when it gets one
\* (test_simple_task.py, with --no-exit).
SignalEndsWait == reported # "none" /\ interrupted ~> Ended
===============================================================================
