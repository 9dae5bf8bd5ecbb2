# A specification of ml-gridengine-executor

`ml-gridengine-executor` runs one program on a node of a computing grid. It
forks the program, pumps its output through a pipe into a circular buffer in
memory, serves that buffer and a kill command over HTTP, watches some files that
the program generates, records the program's status in a file, posts events to a
callback server, and forwards termination signals to the program. Its source is
small (about 2,900 lines under `src/src`), and nearly all of it is about threads
that meet: in the buffer, in the executor, in the signal handler.

This directory holds a TLA+ model of it, the TLC configurations that check the
model on small instances, and proofs that TLAPS checks for every instance. Paths
below are relative to the root of the repository; line numbers are in
`PROJECT.json`, whose `map` names the lines each definition translates.

## 1. The system

| component | state | operations | who calls it |
|---|---|---|---|
| Output buffer (`src/OutputBuffer.*`) | circular array (capacity, head, size), bytes ever written, closed flag, heap of waiting readers with two counters, one mutex | `write`, `read` (waits, with or without a time limit), `tryRead`, `close` | I/O thread writes; HTTP threads read; main closes, then reads the rest to save it |
| Program executor (`src/ProgramExecutor.*`) | status, wait status, process ID, pipe descriptor; a wait mutex with a condition, a kill mutex, a background thread | `start`, `wait`, `kill`, `readOutput`, unlocked `status`/`exitCode`/`exitSignal` | main starts and waits; HTTP threads, signal handlers and main's scope guard kill; the I/O thread reads |
| IO controller (`src/IOController.*`) | a thread, a running flag | `start`, `join`, the pump loop | main |
| Web server (`src/WebServerFactory.*`) | none of its own | poll handler: one `read` and then `tryRead` as long as bytes follow each other; kill handler: `kill`, then several reads of the status | clients |
| Signal handling (`src/SignalHandler.*`) | a stack of handlers, `_interrupted`, a recursive mutex, a condition | `push`, `pop`, `notify` (asynchronously, on any thread), `wait` | main installs four handlers in turn; the kernel delivers |
| Persistence and callbacks (`src/PersistAndCallbackManager.*`) | the status file, the last document posted per watched file | `programStarted`, `fileGenerated`, `programFinished`: save first, then post with retries | main, the watcher's thread |
| Generated files watcher (`src/GeneratedFilesWatcher.*`) | a thread, a stop flag with a condition, the watched files | `start`, `stop`, `collectAll` | main |
| Main application (`src/main.cpp`) | the objects above, in scopes | the order of starting, waiting, stopping, saving, reporting, the run-after command | - |
| Command line (`src/BaseApp.*`) | the options | parsing, once | - |
| Utilities, logging, errors | none | formatting of sizes, size of a directory | all |

How they interact: main starts the executor and the I/O thread; the I/O thread
calls `readOutput` and `write` until the end of the pipe; main waits for the
program, then joins the I/O thread, closes the buffer and saves it; HTTP threads
read the buffer and kill the program at any time, also before it is started and
after it has ended; a signal makes whatever thread the kernel chooses run
`kill()`; giving up a kill closes the pipe under the I/O thread.

What is hard:

* interleavings of calls on the buffer and the executor, where each gives up its
  mutex only inside a condition wait, and where a wait that expires has to lock
  the mutex again before it can withdraw its request;
* state read without a lock (`status()`, `exitCode()`, the first test of
  `kill()`), state assigned in two steps;
* wake-ups that must not be lost when the buffer is closed, the program ends, or
  a kill is given up;
* arithmetic modulo a capacity that changes while the content is wrapped around;
* failures of `fork`, `waitpid`, `read` and of the callback server; restarts of
  the executor on the same status file;
* signals that interrupt a thread which holds the very lock that the handler
  needs.

What makes each component correct:

* buffer: the last `MaxCapacity` bytes are kept, in order; a read is answered
  once, with bytes of the position it asked for; nobody waits for a byte that is
  there or will never come; no store into an array whose call has returned;
* executor: signals escalate once, whoever kills; the outcome that is read is
  the one that `waitpid` reported; every waiter and every killer returns;
* IO controller: all the output reaches the buffer before it is closed; the pump
  ends when the pipe does;
* poll handler: a client that polls on from where it got to sees every byte that
  is still there, in order, and learns what it has missed;
* signals: a termination signal ends the program and then the executor, also
  when it comes twice, or between two handlers;
* callbacks: what is posted has been saved before; a server that recovers can
  learn the final status; each event is tried a bounded number of times.

## 2. Modules

| module | models | uses |
|---|---|---|
| `OutputStream` | abstract specification of the buffer: an output that grows and ends, and calls that are asked and answered | - |
| `OutputBuffer` | `OutputBuffer.*` in full | `OutputStream` (as `Stream`) |
| `MCOutputBuffer` | instances for TLC | `OutputBuffer` |
| `OutputBufferProofs` | proofs about it | `OutputBuffer` |
| `ProgramExecutor` | `ProgramExecutor.*` and the process | - |
| `MCProgramExecutor` | instances for TLC | `ProgramExecutor` |
| `ProgramExecutorProofs` | proofs about it | `ProgramExecutor` |
| `KillHandler` | the kill handler of `WebServerFactory.cpp`, for some of the threads that kill | extends `ProgramExecutor` |
| `MCKillHandler` | instances for TLC | `KillHandler` |
| `KillHandlerProofs` | a proof about it | `KillHandler`, extends `ProgramExecutorProofs` |
| `FinalReport` | what `main.cpp` tells of the outcome: `programFinished` and the run-after command | extends `KillHandler` |
| `MCFinalReport` | an instance for TLC of all three modules | `FinalReport` |
| `FinalReportProofs` | a proof about it | `FinalReport`, extends `ProgramExecutorProofs` |
| `IOController` | `IOController.*`, the pipe, and `main.cpp` from the start of the program to the saving of its output | `ProgramExecutor` (as `Executor`) |
| `MCIOController` | instances for TLC | `IOController` |
| `IOControllerProofs` | proofs about it | `IOController`, `ProgramExecutorProofs` (as `Proved`) |
| `PersistAndCallback` | `PersistAndCallbackManager.*`, `GeneratedFilesWatcher.*`, the part of `main.cpp` that uses them, and a callback server | - |
| `MCPersistAndCallback` | instances for TLC | `PersistAndCallback` |
| `PersistAndCallbackProofs` | proofs about it | `PersistAndCallback` |
| `OutputPoll` | the poll handler of `WebServerFactory.cpp`, and a client | - |
| `MCOutputPoll` | instances for TLC | `OutputPoll` |
| `OutputPollProofs` | proofs about it | `OutputPoll` |
| `MainApp` | `SignalHandler.*`, the order of `main.cpp`, and the part of `ProgramExecutor.*` and `Utils.*` that signals interrupt | - |
| `MCMainApp` | instances for TLC | `MainApp` |
| `MainAppProofs` | proofs about it | `MainApp` |

Operators whose comment starts with "Fault:" are not part of the model. They are
the bugs that each property is there to notice: `PROJECT.json` says, under
`mutants`, which definition each of them replaces and which property must fail
when it does.

### OutputBuffer

Every public method runs under one mutex, so each is one action; `read` is
several, because its condition wait gives the mutex up:

| action | code |
|---|---|
| `Write(count)` | `write`, with `_overwrite`, `_expandBuffer`, `_circularWrite` and `ReaderList::process` |
| `ReadNow(c, b, n, timed)` | `read` and `tryRead` when `_tryRead` has an answer |
| `TryReadNothing(c, b, n)` | `tryRead` when it has none |
| `ReadWait(c, b, n, timed)` | `read` when it has none, up to the wait |
| `Expire(c)` | the wait is over; the mutex is not locked yet |
| `Return(c)` | the wait was signalled: the mutex is locked, the stored result returned |
| `GiveUp(c)` | the wait had expired: the mutex is locked, `ReaderList::cancel` |
| `Close` | `close`, with `ReaderList::close` |

A byte is its offset in the output, which is all the code can tell apart and
makes every loss or misplacement visible. `pc[c]` is where a call is, `req[c]`,
`reply[c]` and `target[c]` are the fields `begin`/`count`, `result` and `target`
of its `ReadRequest`; `heap` is the heap as a set, since `process` pops exactly
the requests below a bound. `heapSize` and `activeCount` are `size_t` counters,
hence modulo `SizeMod`. `raced` is a history variable.

The state is exact except that: a write on a closed buffer, which throws, is no
action; the wait is woken by nothing but a signal or its timer
(`Poco::Condition` queues an event per waiting thread and has no spurious
wake-ups); a read of the chunk outside of its bounds yields `Garbage`.
`_expandBuffer` copies a wrapped content in two parts; as the buffer only wraps
once it has its maximum capacity, no run reaches that branch, and the invariant
of the proof shows why (`head` is 0 below the maximum).

### OutputStream

The same calls without array, mutex and list. `Take` gives a call all the bytes
there are from the position it asks for or from the oldest retained one,
`Receive` gives a call that waited some bytes from exactly its position,
`HitEnd` tells it that the output ended before its position, `Decline` and
`TimeOut` that nothing was there. `OutputBuffer` implements it under the mapping
of `StreamStatus` and `StreamAnswer`.

### ProgramExecutor

| action | code |
|---|---|
| `Start`, `StartWithoutFork` | `start`, when `fork` succeeds and when it fails |
| `End(how)` | the process ends, for whatever reason |
| `WaitPid`, `WaitPidFails` | the background thread's `waitpid` |
| `StoreStatus`, `StoreWaitStatus` | its critical section, in the two assignments that other threads can tell apart |
| `Wait(w, limited)`, `Expire`, `LeaveWait` | `wait`, up to its condition wait, the end of its time, and its return |
| `Kill(k)` | the unlocked test of `kill` |
| `LockKillMutex`, `KillIfRunning`, `KillWait`, `GiveUp` | the three attempts of `kill`, with `stage[k]` the attempt, and what follows the third |

The mutex `_waitMutex` is held across steps only by the background thread
(`WaitMutexFree`); other critical sections are single actions. `sent` is the
history of the signals sent. The program decides what a signal does to it: `End`
is enabled whenever it is alive, and nothing obliges it ever to end, not even
after SIGKILL (a process in an uninterruptible system call). Failures of `pipe`
leave the object as it was and are no action; a wait status that is neither an
exit nor a signal cannot come from `waitpid` without options. Each thread makes
one call; a `kill` that a signal handler makes in the middle of another one of
the same thread passes the (recursive) kill mutex and belongs to `MainApp`.

### KillHandler

Every step of `ProgramExecutor`, and, for the killers that answer a request, the
reads that follow `kill()`: `TestOver` (the condition for status 500, up to three
reads of `status()`), `TestKind` (the two tests that choose the answer) and
`SendValue` (`exitCode()`). Each read is a step of its own, since none takes the
mutex. `early` is the history of the requests that came before the program.

### FinalReport

Every step of `KillHandler`, with main as one waiter without a time limit
(`WaitsInFull`) and its scope guard as a killer that calls `kill()` when the wait is
over (`LeavesScope`), and then the reads of main: `Switch`, the test of the status,
and `ReadValue`, `exitCode()` or `exitSignal()`, which tests it once more. Both are
made twice, for the final report and for the environment of the run-after command
(`readers`); `"INVALID"` stands for the default of the switch.

### IOController

Composes the executor (every step of it is a step here, with main as the only
waiter) with the pipe, the I/O thread and main:

| action | code |
|---|---|
| `Produce`, `Spawn`, `DescendantEnds`, `ProgramEnds` | the program: it writes as far as the pipe has room, starts descendants that inherit the pipe and may outlive it, and ends |
| `PumpCall`, `PumpCallClosed` | the call of `readOutput`, which takes the descriptor as it is then |
| `PumpRead`, `PumpFails` | `read` returns: what there is, 0 once nobody holds the pipe, or -1 because a signal interrupted it |
| `PumpWrite` | `OutputBuffer::write` |
| `MainStart` ... `MainSaved` | `executor.start()`, `ioController.start()`, `executor.wait()`, `ioController.join()` with `outputBuffer.close()`, and the loop that saves the output |

The buffer is taken for what `OutputStream` promises: `output` is all that was
written, and reads see its last `MaxCapacity` bytes. That a read which has begun
is not ended by a `close` of its descriptor in another thread is how Linux
behaves. After such a `close` the number of the descriptor may belong to a
connection of the HTTP server: `PumpCallClosed` then reads a foreign byte, waits
for ever, or fails.

### PersistAndCallback

| action | code |
|---|---|
| `Start` | the watcher is started, then the program |
| `SaveTruncate`, `SaveWrite`, `PostStatus` | `programStarted` and `programFinished`, in this order (`Phases`); `saveFile` does not look at its stream, so that a write may fail without any effect on what follows |
| `PostSucceeds`, `PostUnanswered`, `PostFails` | one round of the loop of `_postEvent`, on the thread of main or of the watcher |
| `FileUpdated(t)` | the watcher's thread is told of a change: `_processFile` and `fileGenerated` |
| `Waited`, `StopWatcher`, `CollectFile(t)`, `Collected` | main, from the end of the wait to `programFinished` |
| `WriteFile`, `ProgramEnds` | the program; a file that is being written is `"torn"` and cannot be parsed |
| `ServerFails`, `ServerOpens`, `ServerChecks` | the callback server, which is not in the repository but which the comment on `PersistAndCallbackManager` tells how to recover |
| `Crash`, `Restart` | the executor is killed with its node, and started again, any number of times, with the same status file; `Begin` is what it knows then |

`posted`, `missed`, `unsaved` and `reverted` are history variables; `unsaved` says
that the last save of a status has failed, and `reverted` has the files
that were written back to what had been posted of them last. The times between the retries do
not matter to any property and are left out. A request is received while its
connection is open or not at all: a server that works on a request after the
client has given it up, and so applies it late, is not modelled. The documents
are compared as a whole, as the code compares their text.

### OutputPoll

`Request` is a request of the client; `Read`, `TimeOut` and `SendGone` are the
first `read` and the answers 204 and 410; `SendFirst` writes the header and the
first piece, `SendNext` is one round of the loop of `tryRead`, `Finish` its end.
`Write` and `Close` are the buffer, with the promise of `OutputStream`: a waiting
read gets bytes of exactly its position even if they are overwritten at once. The
client goes on from the position named in the response plus its length, as
`tests/integrated-tests/test_polling.py` does. Calls of several clients do not
disturb each other in the buffer, so one client stands for all.

### MainApp

A thread is a sequence of frames, the code it runs itself and the signal handlers
on top of it; the last frame runs. A mutex has an owner and a depth.

| action | code |
|---|---|
| `Start`, `Proceed`, `KeepSize`, `Report`, `TestNoExit` | `main()`, in the order of `Script` |
| `WalkOn`, `WalkFails`, `WalkEnds` | `calculateDirSize`, entry by entry; `getFsSize` catches what goes wrong with an entry, counts 0 for it and all that is below it, and the walk goes on |
| `PushInstalls`, `PushAppends`, `Pop` | constructor and destructor of a `SignalHandler` |
| `Deliver(s, t)` | a signal arrives, and the kernel picks a thread that does not handle the same signal already |
| `NotifyLocks`, `NotifyCalls`, `NotifyReturns` | `globalSignalHandlerFunc` with `notify` |
| `Await`, `AwaitSleeps`, `AwaitReturns` | `GlobalSignalHandler::wait` |
| `WaitPid`, `LockToStore`, `StoreStatus` | the background thread of the executor |
| `Kill`, `LockKill`, `KillIfRunning`, `Wait`, `WaitSleeps`, `Expire`, `LeaveWait`, `GiveUp` | `kill` and `wait` of the executor, on main, an HTTP thread, or in a handler on any of the three |
| `RequestKill`, `ProgramEnds` | a client, and the program |

Where a thread holds a mutex between two steps (`"pushing"`, `"tested to await"`,
`"tested"`, `"locked"`), a handler may come on top of it and pass the mutex, which
is recursive; and a condition wait unlocks one level of it only. A signal that
comes before the first handler ends the executor (`"dead"`) and leaves the
program. A signal on the background thread makes its `waitpid` fail. What
`ProgramExecutor` says of the signals that `kill` sends, of the two assignments of
the background thread, and of failures of `fork`, is left to that module; the way
a program ends does not matter here. `lost` is a history variable: the entries
that errors have dropped from the size, which nothing in the program counts.
`Proceed` also passes the place of the run-after command, which is left out (section 7). The callback manager's `wait` and `interrupt`
are empty in the code, so `"join"` is a plain step. The I/O thread and the
watcher's thread take none of these mutexes; a handler that runs on them is one
that runs on an HTTP thread which is idle.

## 3. Runs

| run | instance | shows |
|---|---|---|
| `buffer_data` | 2 calls, capacity 3 growing from 1, writes of 1 to 4 bytes, 6 bytes at most, positions before, at and behind the content and negative ones, counts 0, 1, 3; weak fairness of the readers | `TypeOK`, `LastBytesKept`, `DataFaithful`, `ImplementsStream`, `AnsweredCallsReturn` |
| `buffer_list` | 4 calls, a heap that is rebuilt beyond one request | `WaitersListed`, `CountersExact`, `ReturnedArraysUntouched` |
| `executor_kill` | main and another waiter; main's scope guard and 2 more killers, one of which answers a request; all faults, weak fairness of all threads | `TypeOK`, `EscalatesOnce`, `WaitersWoken`, `OutcomeKnown`, `KillAnswerSound`, `OutcomeTold`, `NoSignalAfterEnd`, `CallsReturn` |
| `executor_cannotkill` | 1 killer, 1 waiter | `CannotKillNotStopped` fails |
| `executor_answer` | 2 killers, one of which answers a request, 1 waiter, no faults | `KillTellsOutcome` fails |
| `io_output` | main, 1 killer, a program and a descendant, 4 bytes, a pipe and arrays of 2, a buffer of 3, an exit or a signal, all faults, weak fairness of the threads | `TypeOK`, `NoByteLost`, `OutputComplete`, `SavedTail`, `RunRecorded`, `PipeDrains`, `OutputSaved` |
| `io_giveup` | the same with 1 byte, no faults | `GiveUpStopsPump` fails |
| `callbacks_recover` | 2 files, 2 documents, 3 writes, 1 retry, 1 outage, any number of restarts of the executor, all faults (a crash, a save that fails, a lost request or answer, a program that cannot be killed), weak fairness of the threads | `TypeOK`, `SavedBeforeKnown`, `StatusRecovered`, `FilesRecovered`, `OnePoster`, `FinalStays`, `ReportsEnd` |
| `callbacks_missing` | 1 file, 1 write, 1 outage, no faults | `MissingEventsBack` fails |
| `poll_client` | a buffer of 3, pieces of 2, limits 1 and 3 or none, writes of 1, 2 and 4 bytes, 7 bytes at most, 1 broken connection, weak fairness of handler and client | `TypeOK`, `ResponseFaithful`, `NothingSkipped`, `ClientGetsToEnd` |
| `main_signals` | main, the background thread, one HTTP thread; SIGINT and SIGTERM, 2 signals, 1 request for `/_kill`, a directory of 2 entries, errors at any place of the walk, with and without `--no-exit`, weak fairness of the threads | `TypeOK`, `HandlerInScope`, `AloneNoDeadlock`, `SizeReported`, `KillEndsProgram`, `EndsAfterOneCall` |
| `main_await` | no HTTP thread, 1 signal, `--no-exit` | `SignalEndsWait` fails |

Bounds. Capacity 3 from an initial 1 is the least with a doubling that is cut
off by the maximum, and with a wrapped content whose two parts differ in length;
writes of 4 exceed it, and 6 bytes overwrite everything once. The rebuild of the
heap is guarded by the constants 8 and 1000 in the code; `buffer_list` sets them
to 2 and 1 so that four calls reach it, and the proofs hold for all values. Three
killers are the least where one holds the kill mutex, one queues, and one makes
its unlocked test at any time; the scope guard is one of them, but only once main
has been woken, and another waiter may wait with or without a limit. In `io_output` the pipe gets full, a read gets one
byte or two, and the output exceeds the buffer, so that saving starts behind 0 and
ends with a short read. In `callbacks_recover` one retry is a first, a middle and
a last try; two writes let a file be torn, be rewritten, and change while its
former content is being posted, and the third writes it back; one outage may fall
on every place of the saving and posting of either status. In `poll_client` a
write exceeds the buffer, so a client falls behind while it waits, between requests
and inside a response. In
`main_signals` two signals give a handler on top of a handler, on one thread, and
two handlers on two threads, the second of which has to wait for the first; the
request adds a call of `kill` that is not in a handler; two entries let the walk be
cut short before, between and after them, and let an error drop the second one alone or
with the first, counted one. All
bounds on what the environment does (`MaxWritten`, `MaxOutput`, `MaxWrites`,
`MaxOutages`, `MaxBreaks`, `MaxSignals`) are guards of the environment's actions.
`CHECK_DEADLOCK FALSE`: each call is made once and programs end, so a run ends
when all is done.

Fairness. `AnsweredCallsReturn` assumes that a woken thread and a timer are
eventually scheduled: nothing else, and not that anyone writes or closes.
`CallsReturn`, `PipeDrains` and `OutputSaved` assume the same of
all threads of the executor, and nothing of the process it runs: the second
part of `CallsReturn` and `OutputSaved` start when the process has been reaped. Weak fairness is enough
for the mutexes because each call locks each of them a bounded number of times.
The runs configure limited waits: with a wait set to 0 seconds (the environment
variables `ML_GRIDENGINE_KILL_PROGRAM_*_WAIT_SECONDS`), `kill` waits for ever by
design. `ReportsEnd` assumes that main and the watcher's thread go on and that a
try ends (it has a time limit); the server and the network owe nothing.
`EndsAfterOneCall` assumes that every thread goes on (weak fairness of its step,
whichever frame makes it) and that the waits of `kill` end; the program need not
end and no signal need come. `ClientGetsToEnd` assumes that the client asks again and that connections do not
break for ever.

## 4. What the failing runs say

* `CannotKillNotStopped` (`src/ProgramExecutor.h:28`): the third wait of `kill`
  expires, the background thread records the end of the program, and `kill`
  overwrites it with `CANNOT_KILL`, without a test in between. The converse also
  happens: a program that ends after all overwrites `CANNOT_KILL`.
* `KillTellsOutcome` (`tests/integrated-tests/test_kill.py:32`, where a second
  request for `/_kill` is answered with the exit code 123): `_status` is assigned
  before `_waitStatus`, so the handler can see `EXITED` with code 0. For a
  signalled program the same property fails in another way: the answer takes its
  `exitSignal` from `exitCode()` (`src/WebServerFactory.cpp:159`), which is -1 then.
* `GiveUpStopsPump` (`src/ProgramExecutor.cpp:234`: "force closing the pipe, in
  order for the IO controller to stop"): the I/O thread is inside `read`, which a
  `close` in another thread does not end; if the program that could not be killed,
  or a descendant of it, keeps the pipe, main waits in `ioController.join()`.
* `MissingEventsBack` (`src/PersistAndCallbackManager.h:28`): the final status is
  saved by truncating the file that says `RUNNING`; a server that recovers at that
  moment finds nothing, and if the executor dies there nobody ever will.
  `StatusRecovered` says what holds: when the executor goes on after a report, a
  server that is up knows it.
* `SignalEndsWait` (`tests/integrated-tests/test_simple_task.py:111`, where an
  executor with `--no-exit` ends after a signal): the signal comes on the main
  thread after `wait()` has tested `_interrupted` and before it waits; the
  broadcast finds nobody, and main waits for another signal.

More came up, which the wording and the conditions of the properties leave out:

* two calls may deadlock (`AloneNoDeadlock` without its premise fails). Main holds
  the wait mutex, between its test of the status and its wait, when a signal comes
  on it; another signal is already being handled on another thread, which holds
  the mutex of the handlers and needs the wait mutex in `kill`. Main's handler
  needs the mutex of the handlers. The same happens when an HTTP thread is inside
  `kill`, holding the kill mutex, and one signal comes on main at that place.
* a handler that runs on a thread which holds the wait mutex waits for the program
  with that mutex locked, since a condition unlocks one level of it: the background
  thread cannot record the end, and the program is given up although it ended.
* in the buffer, a timed read whose wait expires just before a `write` takes the
  mutex has its array filled and then reports a time-out. The bytes are not lost,
  since a caller asks again from the same position; but `CountersExact` has to be
  stated without such a race, because the counter of active readers is then one too
  low (it even wraps below zero). `WaitersListed` holds all the same. And the
  watcher, which is started first, may post a file before main has posted
  `RUNNING`.
* a file that is written back to what was posted of it last is not posted again, not
  even by `collectAll`: `fileGenerated` compares a document with the last one it has
  posted. If the server has failed in between, and learnt another document from the
  disk when it recovered, it keeps that one: `FilesRecovered` fails without its
  condition on `reverted`, although `src/PersistAndCallbackManager.h:28` says that the
  server gets back the events it has missed.
* the size of the working directory may be a partial one without any sign.
  `calculateDirSize` ignores errors by default (`src/Utils.h:27`, and the call in
  `src/main.cpp:239` leaves it at that): `getFsSize` catches every exception, logs it,
  and counts 0 for the whole subtree of an entry that cannot be read or has gone. A
  signal makes the size -1, but an error does not. So `SizeReported` says what holds:
  the number misses what errors have dropped (`lost`) and nothing else; it does not say
  that the number is the size, which it need not be, even with no signal at all.
* `saveFile` does not look at the stream after it has written
  (`src/PersistAndCallbackManager.cpp:37`): on a full disk the status file stays empty or
  cut short, and the status is posted as if it had been saved. A server that recovers
  then finds nothing, and a final status is known to nobody after the server's next
  failure: hence `~unsaved` in `SavedBeforeKnown` and `StatusRecovered`.
* after a `kill` has given up, the program may end late: the final report may then say
  `EXITED` with the code 0 of a wait status that is not assigned yet, or differ from
  what the run-after command is told (`OutcomeTold` without its premise fails).

## 5. Proofs

All theorems hold for every value of the constants that satisfies the named
assumptions of the modules (`CapacityAssumption`: a capacity of 0 would make
`_circularWrite` divide by zero, and nothing in `OutputBuffer` prevents it;
`InputAssumption`, `ReadsFinite`, `BoundAssumption`, `PurgeAssumption`;
`ThreadsAssumption`, `EndAssumption`, `OptionAssumption`, `RetryAssumption`: numbers are numbers and
threads are distinct; `PoolAssumption`: the pool of HTTP threads is finite).

`OutputBufferProofs`:

* `BufferCorrect`: `TypeOK /\ LastBytesKept`, and `TypeCorrect` (`TypeOK`) from it. Inductive as it stands, but each
  step is a chain of lemmas on the circular buffer: `ExpandBufferKeeps`,
  `DropOldestKeeps`, `CircularWriteAppends`, and `OverwriteRetains`, which says
  what any write leaves. Arithmetic modulo the capacity is confined to
  `ModSmall`, `ModWrap` and `CellCases` (an index is either below the end of the
  array or wraps around once).
* `ReadersListed`: `ReadersAhead /\ WaitersListed`, inductive once it also says
  which calls are in the heap and which are cancelled (`ListInv`).
* `CountersCorrect`: `CountersExact`, if there are fewer calls than a `size_t` can count
  (`Cardinality(Reads) < SizeMod`; otherwise the counters wrap). Inductive with
  `ListInv`: a call that is cancelled is done, so it is cancelled only once, and
  what `close`, the pops of `process` and the rebuilding subtract has been counted
  before (`OneMore`, `SomeLess`).
* `DataCorrect`: `DataFaithful`. Needs that a stored reply is faithful before
  its call returns, and that the writer's chunk contains what it copies
  (`DataInv`, `WriteServes`), and what a circular read returns
  (`CircularReadReads`, `TryReadAnswers`).
* `ArraysUntouched`: from `ListInv`: a call that has returned is not served.
* `StreamImplemented`: the refinement. `AnswersInv` adds what the abstract
  specification distinguishes (only a timed call expires, `closed` answers are
  behind the end); `StepStream` maps every action to a step of `OutputStream`.

`ProgramExecutorProofs`: one inductive invariant, `Inv`, in three parts.
`StatusInv` relates status, background thread and pipe; `WaitInv` says of the
threads that wait or have waited what the status must be; `KillInv` says that the
holder of the kill mutex has sent exactly the signals of its attempts so far, and
that nothing was sent while nobody holds it and the program runs. `EscalatesOnce`
alone is not inductive: it is the kill mutex that forbids a second caller to
start again, and the status that forbids it to go on afterwards. From `Inv` follow
`EscalationSafe`, `NoLostWakeup`, `OutcomeRead`, `NothingSentAfterEnd` and
`TypeCorrect`.

`IOControllerProofs`: `FlowCorrect` (`NoByteLost`) and `OutputKept`
(`OutputComplete`), for any sizes and any faults (`SizeAssumption`). `NoByteLost`
becomes inductive with `StartInv` (until main has started the program there is no
output and nobody to pump it; the buffer is closed only when the I/O thread has
ended) and `EndInv` (a process that may start others holds the pipe itself, so
that nobody can hold it again once the I/O thread has seen its end). `SavedIsTail`
(`SavedTail`) adds what main has saved so far (`SaveInv`). Of the
executor it needs only that the pipe is opened once and that a dead process does
not come to life (`ExecutorKeeps`). The steps on sequences are `ProducedGrows`,
`AppendConcat` and `ReadSplits`.
`TypeCorrect` needs `SaveInv`, and `Room`: what is in the buffer, in the hands of the
I/O thread and in the pipe is no more than was produced as long as the pipe is open
or being read.

`ImplementsExecutor` composes the two components: every step of `IOController` is a
step of `ProgramExecutor` or leaves its variables alone (`StepExecutor`), so that what
`ProgramExecutorProofs` proves holds of the program as main() puts it together
(`ExecutorInvariant`; `SameExecutor` says that the executor proved about is the
one used). `RunIsRecorded` (`RunRecorded`) is what neither component has alone:
from `OutputKept`, `SavedIsTail` and `OutcomeRead` follows that the saved file and
the status belong together, once `WaitedInv` says that main's wait, which has no limit,
has returned true before main goes on.

`PersistAndCallbackProofs`: `SavedFirst` (`SavedBeforeKnown`), `OnePosterAtATime`
(`OnePoster`), `FinalKept` (`FinalStays`) and `TypeCorrect`, for any number of
files, documents, retries, outages, restarts and any faults. `SavedBeforeKnown`
becomes inductive with `DiskInv` (what is on the disk at each place of main, so
that a report truncates only a file that is not final, and posts only what is
there), `UnsavedInv` (a save that has failed leaves the file empty), `MainJobInv` (an event of main is the status it is reporting, or a file
while it collects) and `WatcherInv` (the watcher runs only from the report of
`RUNNING` to the stop, and posts only files). `OnePoster` is `WatcherInv`, and
`FinalStays` follows from `DiskInv` and the test at the start of a run.
`StatusComesBack` (`StatusRecovered`) needs `KnownInv` besides: nothing is posted
before something is on the disk, and nothing final is posted before the last report;
a server that checks the disk in a phase of the report at which main does not go on
is told by the try that follows.
`FilesComeBack` (`FilesRecovered`) follows every file. Once the program has ended, nothing is
written any more (`EndedInv`), and `collectAll` has posted what is in the file, is posting it, or
still has it on its list (`CollectInv`). The server knows what was posted last
(`KnowsInv`), unless the next document of that file is on its way, a try of which may have
been received without its answer; what was posted before an outage it has to
know only if the file still holds that (`Due`), because it reads the files when
it comes back. `KnowsInv` is stated for what was posted, not for what is in the
files: a file changes between its reading and its posting.

`OutputPollProofs`: `TypeCorrect`, `ResponsesFaithful` (`ResponseFaithful`) and
`NothingIsSkipped` (`NothingSkipped`), for any sizes. The invariant says that what
the handler holds at each of its places is a `Piece`: bytes of the output from one
position on, which is the position of the client or, where bytes in between are not
kept any more, a later one (`HandlerInv`); and that the client has nothing from its
position on (`ClientInv`). Since the oldest retained position only grows
(`OldestGrows`), a piece stays one while the buffer goes on.

`KillHandlerProofs`: `AnswerSound` (`KillAnswerSound`), on top of `Inv` of
`ProgramExecutorProofs`. `HandlerOK` says for each read what the status must be by
then: once `kill()` has returned, unless the request was early, the program is over
(`Over`), and this and the way it ended do not change any more (`StaysOver`).

`FinalReportProofs`: `OutcomeIsTold` (`OutcomeTold`), on top of the same `Inv`, since
the handlers of `KillHandler` only read. Main's wait returns only once, and true
(`MainWaits`), after which `Inv` fixes the status, the wait status and the
end until a `kill` gives up (`MainKnows`, `StaysOver`); the case that a switch has
taken is the way the program ended (`ReadersInv`).

`MainAppProofs`: `HandlersStay` (`HandlerInScope`), `KillEnds` (`KillEndsProgram`),
`SizeMissesOnlyErrors` (`SizeReported`) and `TypeCorrect`, for any number of signals, HTTP
threads and entries of the directory. `SizeReported` needs that what has been counted and
what has been dropped make up the directory when the walk ends without a signal
(`WalkInv` for its steps, `Progress` for what follows). `HandlerInScope` is not inductive: that main() does not pop while
a handler runs follows from the mutex, and the mutex is recursive. `MutexInv` says
what its depth is: the number of frames of the owner that are between a lock and its
unlock (`Holds`), in whatever order they lie on one another. So when main() itself
may lock, and holds nothing, no frame of any thread is past the lock of `notify`
(`NoneInside`). `FramesGood` says at which places the frames may be, and that a frame
that has been woken from the wait for the program was woken with a final status, from
which `KillEndsProgram` follows; `Progress` says what status, flags and size
main() has at each item of its `Script`. Every step moves one frame (`MovedOne`), adds
frames that hold nothing (`AddsFrames`), or wakes the sleepers besides (`MovedWoken`).
`OneCallNoDeadlock` (`AloneNoDeadlock`) reads `MutexInv` the other way: who owns a mutex has
a frame that holds it (`OwnerHolds`). In a circle, each thread waits for a mutex of
another one (the mutexes are recursive), so that two of them hold one while they are blocked; neither
main() nor the background thread is ever blocked while it holds one, but for a handler on top of it, so
that each has a call in progress (`HolderCalls`), and two calls are one too many
(`TwoCalls`).

Every invariant, action property and refinement that a passing run checks is proved.
Only model-checked are the liveness properties (`AnsweredCallsReturn`, `CallsReturn`,
`PipeDrains`, `OutputSaved`, `ReportsEnd`, `ClientGetsToEnd`, `EndsAfterOneCall`):
the prover handles neither fairness nor `ENABLED`.

## 6. Plan

Done: every component that keeps state, and the proofs of section 5, which state
every safety property of the runs. Left, in this order:

1. Proof: the buffer that `IOController` and `OutputPoll` use is the abstract one of
   `OutputStream`, step by step, as `ImplementsExecutor` does it for the executor; with
   `StreamImplemented` it is then the real one. A `Write` of `OutputPoll` that serves
   the handler is two steps there (`Grow` and `Receive`), so this is a statement
   about each read and what it returns, not one refinement mapping.
2. Proof: the safety half of the liveness properties, such as that a thread that waits
   is always one that somebody is still able to wake.

## 7. Not modelled

Parsing of options (`--buffer-size 0` passes it and gives a buffer of capacity 0,
which `CapacityAssumption` excludes), formatting, logging, JSON, and HTTP itself;
the run-after command, which is a second `ProgramExecutor` without a pipe and with
mutexes of its own, waited for 30 seconds and then killed by one thread;
a status file that cannot be opened, which throws out of `runApp`; two executors
that are started at the same time with the same status file, and both find that it does
not exist (`PersistAndCallback` has one after another); the disposition of signals inside the allocator or a logger that a
handler interrupts; the setting up of
the child's arguments and environment; destructors that run while another thread
still uses the object; `AutoFreePtr` and memory exhaustion. The tests and the
vendored test framework are no part of the program.
