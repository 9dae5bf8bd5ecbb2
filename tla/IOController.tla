------------------------------ MODULE IOController ------------------------------
(***************************************************************************)
(* The way of the program's output (src/src/IOController.cpp, and the part *)
(* of src/src/main.cpp from the start of the program to the saving of its  *)
(* output): the processes that hold the write end of the pipe, the I/O     *)
(* thread that pumps the pipe into the buffer, and main(), which waits for *)
(* the program, joins the I/O thread, closes the buffer and saves it.      *)
(*                                                                         *)
(* The program is executed by ProgramExecutor, whose kill() may close the  *)
(* pipe under the I/O thread.  The buffer is used as OutputStream promises:*)
(* it keeps the last MaxCapacity bytes that were written to it.            *)
(* The n-th byte that the program's processes write is the number n.       *)
(***************************************************************************)
EXTENDS Integers, Sequences

CONSTANTS
  Main,          \* the main thread
  Killers,       \* the threads that call kill()
  Codes, ExitSignals, Untimed, Faults,  \* as in ProgramExecutor
  MaxOutput,     \* bound on the bytes that the program writes
  PipeCapacity,  \* bytes that fit in the pipe
  PumpSize,      \* the buffer of the I/O thread
  SaveSize,      \* the buffer with which main() saves the output
  MaxCapacity    \* bytes that the output buffer keeps

ASSUME SizeAssumption ==
  /\ MaxOutput \in Nat
  /\ {PipeCapacity, PumpSize, SaveSize, MaxCapacity} \subseteq Nat \ {0}

\* Those of ProgramExecutor.
ASSUME ThreadsAssumption == Main \notin Killers /\ "none" \notin Killers
ASSUME EndAssumption ==
  Codes \subseteq 0..255 /\ ExitSignals \subseteq 1..127
ASSUME OptionAssumption == Untimed \subseteq 1..3

VARIABLES
  status, waitStatus, processId, pipeOpen, child, end, waitPc, killMutex,
  pc, stage, timed, told, sent,  \* of ProgramExecutor
  holders,   \* the processes that hold the write end of the pipe
  produced,  \* number of bytes they have written
  pipe,      \* the bytes in the pipe
  pump,      \* where the I/O thread is
  chunk,     \* the bytes it has read
  output,    \* the bytes ever written to the output buffer
  closed,    \* whether the output buffer is closed
  mainPc,    \* where main() is
  begin,     \* the position up to which main() has saved the output
  discarded, \* the number of discarded bytes that the saved file names
  saved      \* the bytes in the saved file

Executor == INSTANCE ProgramExecutor WITH Waiters <- {Main}

executorVars == <<status, waitStatus, processId, pipeOpen, child, end, waitPc,
                  killMutex, pc, stage, timed, told, sent>>
pumpVars == <<holders, produced, pipe, pump, chunk, output>>
mainVars == <<closed, mainPc, begin, discarded, saved>>
vars == <<executorVars, pumpVars, mainVars>>

Foreign == 0  \* a byte that is not the program's

-------------------------------------------------------------------------------
(* The program and its descendants. *)

\* A process writes to the pipe, as far as there is room.
Produce ==
  /\ holders # {}
  /\ produced < MaxOutput
  /\ Len(pipe) < PipeCapacity
  /\ produced' = produced + 1
  /\ pipe' = Append(pipe, produced')
  /\ UNCHANGED <<executorVars, holders, pump, chunk, output, mainVars>>

\* The program starts another process, which inherits the pipe and may outlive it.
Spawn ==
  /\ child = "alive"
  /\ holders' = holders \cup {"descendant"}
  /\ UNCHANGED <<executorVars, produced, pipe, pump, chunk, output, mainVars>>

DescendantEnds ==
  /\ "descendant" \in holders
  /\ holders' = holders \ {"descendant"}
  /\ UNCHANGED <<executorVars, produced, pipe, pump, chunk, output, mainVars>>

ProgramEnds(how) ==
  /\ Executor!End(how)
  /\ holders' = holders \ {"program"}
  /\ UNCHANGED <<produced, pipe, pump, chunk, output, mainVars>>

-------------------------------------------------------------------------------
(* The I/O thread: IOController::_run. *)

\* It calls readOutput() while the descriptor is open: it reads from this pipe
\* then, even if the descriptor is closed before anything can be read.
PumpCall ==
  /\ pump = "calling"
  /\ pipeOpen
  /\ pump' = "reading"
  /\ UNCHANGED <<executorVars, holders, produced, pipe, chunk, output, mainVars>>

\* kill() has closed the descriptor: the read fails, or it reads or waits for
\* what another thread has opened since under the same number.
PumpCallClosed ==
  /\ pump = "calling"
  /\ ~pipeOpen
  /\ \/ pump' \in {"ended", "stuck"} /\ UNCHANGED chunk
     \/ pump' = "writing" /\ chunk' = <<Foreign>> /\ Len(output) < MaxOutput
  /\ UNCHANGED <<executorVars, holders, produced, pipe, output, mainVars>>

\* Fault: a read that does not fill the buffer is taken for the last one.
AfterReadIfFull(count) == IF count = PumpSize THEN "writing" ELSE "ended"

\* Fault: the end of the output does not end the loop.
AfterReadAny(count) == "writing"

\* The loop goes on as long as something is read.
AfterRead(count) == IF count > 0 THEN "writing" ELSE "ended"

\* read() returns what there is, and 0 once nobody can write to the pipe.
PumpRead ==
  LET count == IF Len(pipe) < PumpSize THEN Len(pipe) ELSE PumpSize
  IN  /\ pump = "reading"
      /\ count > 0 \/ holders = {}
      /\ chunk' = SubSeq(pipe, 1, count)
      /\ pipe' = SubSeq(pipe, count + 1, Len(pipe))
      /\ pump' = AfterRead(count)
      /\ UNCHANGED <<executorVars, holders, produced, output, mainVars>>

\* read() is interrupted by a signal that the I/O thread handles: it returns -1.
PumpFails ==
  /\ pump = "reading"
  /\ "read" \in Faults
  /\ pump' = "failed"
  /\ UNCHANGED <<executorVars, holders, produced, pipe, chunk, output, mainVars>>

\* OutputBuffer::write, which throws if the buffer is closed and ends the thread.
PumpWrite ==
  /\ pump = "writing"
  /\ IF closed
     THEN pump' = "ended" /\ UNCHANGED output
     ELSE pump' = "calling" /\ output' = output \o chunk
  /\ UNCHANGED <<executorVars, holders, produced, pipe, chunk, mainVars>>

PumpStep == PumpCall \/ PumpCallClosed \/ PumpRead \/ PumpWrite

-------------------------------------------------------------------------------
(* main(), from the start of the program to the saving of its output. *)

\* ProgramExecutor::start: the parent closes the write end of the pipe.
MainStart ==
  /\ mainPc = "start"
  /\ \/ Executor!Start /\ holders' = {"program"}
     \/ Executor!StartWithoutFork /\ holders' = {}
  /\ mainPc' = "startIO"
  /\ UNCHANGED <<produced, pipe, pump, chunk, output, closed, begin, discarded, saved>>

\* IOController::start
MainStartIO ==
  /\ mainPc = "startIO"
  /\ pump' = "calling"
  /\ mainPc' = "wait"
  /\ UNCHANGED <<executorVars, holders, produced, pipe, chunk, output,
                 closed, begin, discarded, saved>>

\* wait(); the kill() of the scope guard finds the program not running any more.
MainWait ==
  /\ mainPc = "wait"
  /\ Executor!Wait(Main, FALSE)
  /\ UNCHANGED <<pumpVars, mainVars>>

MainWaited ==
  /\ mainPc = "wait"
  /\ pc[Main] = "done"
  /\ status # "RUNNING"
  /\ mainPc' = "join"
  /\ UNCHANGED <<executorVars, pumpVars, closed, begin, discarded, saved>>

\* Fault: the I/O thread is not waited for.
JoinAtOnce == TRUE

\* IOController::join returns when the thread has ended.
Joined == pump \in {"ended", "failed"}

\* ioController.join() and outputBuffer.close()
MainJoin ==
  /\ mainPc = "join"
  /\ Joined
  /\ closed' = TRUE
  /\ mainPc' = "save"
  /\ begin' = 0
  /\ UNCHANGED <<executorVars, pumpVars, discarded, saved>>

\* The oldest position that the buffer still keeps.
Oldest == IF Len(output) > MaxCapacity THEN Len(output) - MaxCapacity ELSE 0

\* Opening the file: it is truncated, and names the bytes that are lost.
MainOpenFile ==
  /\ mainPc = "save"
  /\ saved' = <<>>
  /\ discarded' = Oldest
  /\ mainPc' = "saving"
  /\ UNCHANGED <<executorVars, pumpVars, closed, begin>>

\* Fault: the position is advanced from where the read was to start.
NextBeginAsked(from, count) == begin + count

\* Fault: the position is advanced by what was asked for.
NextBeginFull(from, count) == from + SaveSize

\* The position after a read that returned count bytes from from on.
NextBegin(from, count) == from + count

\* One round of the loop that saves the output: a read of the closed buffer.
MainSave ==
  LET from  == IF begin > Oldest THEN begin ELSE Oldest
      left  == Len(output) - from
      count == IF left < SaveSize THEN left ELSE SaveSize
  IN  /\ mainPc = "saving"
      /\ begin < Len(output)
      /\ saved' = saved \o SubSeq(output, from + 1, from + count)
      /\ begin' = NextBegin(from, count)
      /\ UNCHANGED <<executorVars, pumpVars, closed, mainPc, discarded>>

\* The read reports the end of the output.
MainSaved ==
  /\ mainPc = "saving"
  /\ begin >= Len(output)
  /\ mainPc' = "done"
  /\ UNCHANGED <<executorVars, pumpVars, closed, begin, discarded, saved>>

MainStep ==
  \/ MainStart \/ MainStartIO \/ MainWait \/ MainWaited \/ MainJoin
  \/ MainOpenFile \/ MainSave \/ MainSaved

-------------------------------------------------------------------------------
Init ==
  /\ Executor!Init
  /\ holders = {}
  /\ produced = 0
  /\ pipe = <<>>
  /\ pump = "none"
  /\ chunk = <<>>
  /\ output = <<>>
  /\ closed = FALSE
  /\ mainPc = "start"
  /\ begin = 0
  /\ discarded = 0
  /\ saved = <<>>

\* The steps of the executor that main() and the program do not take.
ExecutorStep ==
  /\ \/ Executor!Background
     \/ Executor!LeaveWait(Main)
     \/ \E k \in Killers : Executor!KillerStep(k)
  /\ UNCHANGED <<pumpVars, mainVars>>

Next ==
  \/ Produce \/ Spawn \/ DescendantEnds
  \/ \E how \in Executor!Ends : ProgramEnds(how)
  \/ PumpStep \/ PumpFails
  \/ MainStep
  \/ ExecutorStep

Spec == Init /\ [][Next]_vars

\* The threads of this program go on; the program it runs owes nothing.
Fairness ==
  /\ WF_vars(PumpStep)
  /\ WF_vars(MainStep)
  /\ WF_vars(Executor!Background /\ UNCHANGED <<pumpVars, mainVars>>)
  /\ WF_vars(Executor!LeaveWait(Main) /\ UNCHANGED <<pumpVars, mainVars>>)
  /\ \A k \in Killers :
       WF_vars(Executor!KillerProgress(k) /\ UNCHANGED <<pumpVars, mainVars>>)

FairSpec == Spec /\ Fairness

-------------------------------------------------------------------------------
(* Properties. *)

\* Type invariant.
TypeOK ==
  /\ holders \subseteq {"program", "descendant"}
  /\ produced \in 0..MaxOutput
  /\ pipe \in Seq(1..MaxOutput) /\ Len(pipe) <= PipeCapacity
  /\ pump \in {"none", "calling", "reading", "writing", "ended", "failed", "stuck"}
  /\ chunk \in Seq(0..MaxOutput) /\ Len(chunk) <= PumpSize
  /\ output \in Seq(0..MaxOutput)
  /\ closed \in BOOLEAN
  /\ mainPc \in {"start", "startIO", "wait", "join", "save", "saving", "done"}
  /\ begin \in 0..MaxOutput
  /\ discarded \in 0..MaxOutput
  /\ saved \in Seq(0..MaxOutput)

\* What the I/O thread has read and not written yet.
InHand == IF pump = "writing" THEN chunk ELSE <<>>

\* The bytes that the program's processes have written, in order.
Produced == [n \in 1..produced |-> n]

\* As long as the pipe is open, every byte that any process of the program has
\* written is in the buffer, in the hands of the I/O thread or in the pipe, once
\* and in order, whatever the ends, kills and waits that happen meanwhile.
NoByteLost == pipeOpen => output \o InHand \o pipe = Produced

\* Unless kill() has given up or a read was interrupted, the buffer is closed
\* only when it has got every byte that any process wrote to the pipe, in
\* order: neither the end of the program nor the wait of main() cuts it short.
OutputComplete ==
  closed /\ pipeOpen /\ pump # "failed" => holders = {} /\ output = Produced

\* The saved file holds the last MaxCapacity bytes of the output, each once and
\* in order, and says how many came before.
SavedTail ==
  mainPc = "done" =>
    /\ saved = SubSeq(output, discarded + 1, Len(output))
    /\ discarded > 0 => Len(saved) = MaxCapacity

\* What main() has of the run when it has saved the output belongs together: the
\* file is the end of all that any process wrote, and the status that it goes on
\* to report is the one with which the program was reaped.  That the bytes and the
\* status arrive in two threads, in any order, does not show, unless kill() has
\* given up or the read of the I/O thread was interrupted.
RunRecorded ==
  mainPc = "done" /\ pipeOpen /\ pump # "failed" =>
    /\ saved = SubSeq(Produced, discarded + 1, produced)
    /\ discarded = IF produced > MaxCapacity THEN produced - MaxCapacity ELSE 0
    /\ child = "reaped" /\ status = end.how /\ waitStatus = end

\* The I/O thread makes room in a full pipe, unless a signal has interrupted it:
\* the program is not blocked for ever by the thread that reads its output, not
\* even while main() is waiting and others try to kill the program.
PipeDrains ==
  (pump # "none" /\ Len(pipe) = PipeCapacity)
    ~> (Len(pipe) < PipeCapacity \/ pump = "failed" \/ ~pipeOpen)

\* Once the program has been reaped and every process that holds the pipe has
\* ended, main() gets to save the output, unless kill() has given up.
OutputSaved ==
  (mainPc = "wait" /\ holders = {} /\ child = "reaped")
    ~> (mainPc = "done" \/ ~pipeOpen)

\* "force closing the pipe, in order for the IO controller to stop" (comment of
\* ProgramExecutor.cpp on giving up a kill).
GiveUpStopsPump == status = "CANNOT_KILL" ~> pump = "ended"
===============================================================================
