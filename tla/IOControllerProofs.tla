--------------------------- MODULE IOControllerProofs ---------------------------
(***************************************************************************)
(* Proofs about IOController, for any sizes of the pipe and the buffers,   *)
(* any number of threads that kill, and any of the faults.                 *)
(*                                                                         *)
(* Why no byte is lost: a byte moves from the pipe into the hands of the   *)
(* I/O thread and from there into the buffer; the I/O thread is at its     *)
(* first step until main() has started the program, the pipe is never      *)
(* opened again, and the buffer is closed only after the I/O thread ended. *)
(* That the status fits the output is proved from the executor's theorems. *)
(***************************************************************************)
EXTENDS IOController, SequenceTheorems, TLAPS

\* Types of what the proof computes with.
FlowTypes ==
  /\ produced \in Nat
  /\ pipe \in Seq(Nat)
  /\ chunk \in Seq(Nat)
  /\ output \in Seq(Nat)

\* Before the program is started there is nothing, and nobody to pump it.
StartInv ==
  /\ mainPc = "start" =>
       /\ child = "none" /\ holders = {} /\ ~pipeOpen
       /\ produced = 0 /\ pipe = <<>> /\ output = <<>>
  /\ mainPc \in {"start", "startIO"} => pump = "none"
  /\ closed => /\ pump \in {"ended", "failed"}
               /\ mainPc \in {"save", "saving", "done"}

\* A process that may start others holds the pipe itself; so once nobody holds
\* it nobody will, and the I/O thread ends only then.
EndInv ==
  /\ child = "alive" => "program" \in holders
  /\ pump = "ended" /\ pipeOpen => holders = {} /\ pipe = <<>>

Inv == FlowTypes /\ StartInv /\ EndInv /\ NoByteLost

-------------------------------------------------------------------------------
(* Sequences. *)

\* A byte that is produced is the next one.
LEMMA ProducedGrows ==
  ASSUME NEW n \in Nat
  PROVE  Append([i \in 1..n |-> i], n + 1) = [i \in 1..(n + 1) |-> i]
<1>1. [i \in 1..n |-> i] \in Seq(Nat) /\ Len([i \in 1..n |-> i]) = n
  OBVIOUS
<1> QED BY <1>1

\* Appending to the pipe appends to what is underway.
LEMMA AppendConcat ==
  ASSUME NEW s \in Seq(Nat), NEW t \in Seq(Nat), NEW e \in Nat
  PROVE  s \o Append(t, e) = Append(s \o t, e)
  OBVIOUS

\* The concatenation of bytes is associative.
LEMMA ConcatAssociates ==
  ASSUME NEW r \in Seq(Nat), NEW s \in Seq(Nat), NEW t \in Seq(Nat)
  PROVE  (r \o s) \o t = r \o (s \o t)
  OBVIOUS

\* Reading the first bytes of the pipe splits it in two.
LEMMA ReadSplits ==
  ASSUME NEW r \in Seq(Nat), NEW s \in Seq(Nat), NEW k \in 0..Len(s)
  PROVE  /\ SubSeq(s, 1, k) \in Seq(Nat)
         /\ SubSeq(s, k + 1, Len(s)) \in Seq(Nat)
         /\ (r \o SubSeq(s, 1, k)) \o SubSeq(s, k + 1, Len(s)) = r \o s
<1>1. Len(s) \in Nat
  OBVIOUS
<1>2. /\ \A i \in 1..k : s[i] \in Nat
      /\ \A i \in (k + 1)..Len(s) : s[i] \in Nat
  BY <1>1
<1>3. /\ SubSeq(s, 1, k) \in Seq(Nat)
      /\ SubSeq(s, k + 1, Len(s)) \in Seq(Nat)
  BY <1>1, <1>2, SubSeqProperties
<1>4. SubSeq(s, 1, k) \o SubSeq(s, k + 1, Len(s)) = s
  <2>1. /\ 1 \in 1..(Len(s) + 1)
        /\ k \in (1 - 1)..Len(s)
        /\ Len(s) \in k..Len(s)
    BY <1>1
  <2>2. SubSeq(s, 1, k) \o SubSeq(s, k + 1, Len(s)) = SubSeq(s, 1, Len(s))
    BY ONLY <2>1, s \in Seq(Nat), ConcatAdjacentSubSeq, Zenon
  <2> QED BY <2>2, SubSeqFull
<1>5. (r \o SubSeq(s, 1, k)) \o SubSeq(s, k + 1, Len(s))
        = r \o (SubSeq(s, 1, k) \o SubSeq(s, k + 1, Len(s)))
  <2> DEFINE t == SubSeq(s, 1, k)
             u == SubSeq(s, k + 1, Len(s))
  <2>1. t \in Seq(Nat) /\ u \in Seq(Nat)
    BY <1>3
  <2> HIDE DEF t, u
  <2>2. (r \o t) \o u = r \o (t \o u)
    BY ONLY <2>1, r \in Seq(Nat), ConcatAssociates
  <2> QED BY <2>2 DEF t, u
<1> QED BY <1>3, <1>4, <1>5

-------------------------------------------------------------------------------
(* The steps. *)

\* What the steps of the executor that main() and the program do not take leave.
LEMMA ExecutorKeeps ==
  ASSUME ExecutorStep
  PROVE  /\ pipeOpen' => pipeOpen
         /\ child' = child \/ (child = "zombie" /\ child' = "reaped")
         /\ UNCHANGED <<pumpVars, mainVars>>
<1>1. CASE Executor!Background
  BY <1>1 DEF ExecutorStep, Executor!Background, Executor!WaitPid,
     Executor!WaitPidFails, Executor!StoreStatus, Executor!StoreWaitStatus,
     Executor!fieldVars, Executor!childVars
<1>2. CASE Executor!LeaveWait(Main)
  BY <1>2 DEF ExecutorStep, Executor!LeaveWait, Executor!fieldVars, Executor!childVars
<1>3. ASSUME NEW k \in Killers, Executor!KillerStep(k)
      PROVE  (pipeOpen' => pipeOpen) /\ child' = child
  BY <1>3 DEF Executor!KillerStep, Executor!Kill, Executor!LockKillMutex,
     Executor!KillIfRunning, Executor!KillWait, Executor!Expire,
     Executor!LeaveWait, Executor!GiveUp, Executor!fieldVars, Executor!childVars
<1> QED BY <1>1, <1>2, <1>3 DEF ExecutorStep

\* Steps that leave the flow of the bytes and the processes alone.
LEMMA FlowUnchanged ==
  ASSUME Inv, pipeOpen' => pipeOpen,
         child' = child \/ (child = "zombie" /\ child' = "reaped"),
         UNCHANGED <<pumpVars, mainVars>>
  PROVE  Inv'
  BY DEF Inv, FlowTypes, StartInv, EndInv, NoByteLost, InHand, Produced,
         pumpVars, mainVars

LEMMA InitInv == Init => Inv
<1> SUFFICES ASSUME Init PROVE Inv
  OBVIOUS
<1>1. child = "none" /\ ~pipeOpen
  BY DEF Init, Executor!Init
<1> QED BY <1>1 DEF Init, Inv, FlowTypes, StartInv, EndInv, NoByteLost

LEMMA StepProduce ==
  ASSUME Inv, Produce PROVE Inv'
<1> USE DEF Inv, FlowTypes
<1>1. /\ mainPc # "start"
      /\ pump # "ended" \/ ~pipeOpen
  BY DEF Produce, StartInv, EndInv
<1>2. FlowTypes'
  BY DEF Produce
<1>3. StartInv' /\ EndInv'
  BY <1>1 DEF Produce, StartInv, EndInv, executorVars, mainVars
<1>4. NoByteLost'
  <2> SUFFICES ASSUME pipeOpen'
               PROVE  (output \o InHand \o Append(pipe, produced + 1)) = Produced'
    BY DEF NoByteLost, Produce, InHand
  <2>1. output \o InHand \o pipe = Produced
    BY DEF NoByteLost, Produce, executorVars
  <2>2. InHand \in Seq(Nat)
    BY DEF InHand
  <2>3. output \o InHand \in Seq(Nat)
    BY <2>2
  <2>4. output \o InHand \o Append(pipe, produced + 1) = Append(Produced, produced + 1)
    <3> DEFINE before == output \o InHand
    <3>1. before \in Seq(Nat) /\ pipe \in Seq(Nat) /\ produced + 1 \in Nat
      BY <2>3
    <3> HIDE DEF before
    <3>2. before \o Append(pipe, produced + 1) = Append(before \o pipe, produced + 1)
      BY ONLY <3>1, AppendConcat
    <3> QED BY ONLY <3>2, <2>1 DEF before
  <2>5. Produced' = [i \in 1..(produced + 1) |-> i]
    BY DEF Produced, Produce
  <2> QED BY <2>4, <2>5, ProducedGrows DEF Produced
<1> QED BY <1>2, <1>3, <1>4

LEMMA StepProcesses ==
  ASSUME Inv, Spawn \/ DescendantEnds \/ \E how \in Executor!Ends : ProgramEnds(how)
  PROVE  Inv'
<1>1. CASE Spawn
  BY <1>1 DEF Inv, FlowTypes, StartInv, EndInv, NoByteLost, InHand, Produced,
     Spawn, executorVars, mainVars
<1>2. CASE DescendantEnds
  BY <1>2 DEF Inv, FlowTypes, StartInv, EndInv, NoByteLost, InHand, Produced,
     DescendantEnds, executorVars, mainVars
<1>3. ASSUME NEW how \in Executor!Ends, ProgramEnds(how) PROVE Inv'
  <2>1. /\ child = "alive" /\ child' = "zombie"
        /\ pipeOpen' = pipeOpen
    BY <1>3 DEF ProgramEnds, Executor!End, Executor!fieldVars
  <2> QED BY <1>3, <2>1 DEF Inv, FlowTypes, StartInv, EndInv, NoByteLost, InHand,
          Produced, ProgramEnds, mainVars
<1> QED BY <1>1, <1>2, <1>3

LEMMA StepPumpCall ==
  ASSUME Inv, PumpCall \/ PumpCallClosed \/ PumpFails PROVE Inv'
<1>1. CASE PumpCall
  BY <1>1 DEF Inv, FlowTypes, StartInv, EndInv, NoByteLost, InHand, Produced,
     PumpCall, executorVars, mainVars
<1>2. CASE PumpCallClosed
  <2>1. /\ chunk' = chunk \/ chunk' = <<0>>
        /\ ~pipeOpen'
        /\ pump = "calling"
        /\ UNCHANGED <<child, holders, produced, pipe, output, mainPc, closed>>
    BY <1>2 DEF PumpCallClosed, executorVars, mainVars, Foreign
  <2>2. chunk' \in Seq(Nat)
    <3>1. chunk \in Seq(Nat) /\ <<0>> \in Seq(Nat)
      BY DEF Inv, FlowTypes
    <3> QED BY <2>1, <3>1
  <2> QED BY <2>1, <2>2 DEF Inv, FlowTypes, StartInv, EndInv, NoByteLost
<1>3. CASE PumpFails
  BY <1>3 DEF Inv, FlowTypes, StartInv, EndInv, NoByteLost, InHand, Produced,
     PumpFails, executorVars, mainVars
<1> QED BY <1>1, <1>2, <1>3

LEMMA StepPumpRead ==
  ASSUME Inv, PumpRead PROVE Inv'
<1> DEFINE count == IF Len(pipe) < PumpSize THEN Len(pipe) ELSE PumpSize
<1>1. /\ pump = "reading"
      /\ count > 0 \/ holders = {}
      /\ chunk' = SubSeq(pipe, 1, count)
      /\ pipe' = SubSeq(pipe, count + 1, Len(pipe))
      /\ pump' = IF count > 0 THEN "writing" ELSE "ended"
      /\ UNCHANGED <<executorVars, holders, produced, output, mainVars>>
  BY DEF PumpRead, AfterRead
<1>2. pipe \in Seq(Nat) /\ Len(pipe) \in Nat /\ output \in Seq(Nat)
  BY DEF Inv, FlowTypes
<1>3. count \in 0..Len(pipe)
  BY <1>2, SizeAssumption
<1>4. /\ chunk' \in Seq(Nat)
      /\ pipe' \in Seq(Nat)
      /\ (output \o chunk') \o pipe' = output \o pipe
  BY <1>1, <1>2, <1>3, ReadSplits
<1>5. count = 0 => pipe = <<>> /\ pipe' = <<>>
  <2> SUFFICES ASSUME count = 0 PROVE pipe = <<>> /\ pipe' = <<>>
    OBVIOUS
  <2>1. Len(pipe) = 0
    BY <1>2, SizeAssumption
  <2>2. pipe = <<>>
    BY <1>2, <2>1
  <2>3. pipe' = <<>>
    BY <1>1, <2>1, SubSeqEmpty
  <2> QED BY <2>2, <2>3
<1> HIDE DEF count
<1>6. FlowTypes'
  BY <1>1, <1>4 DEF Inv, FlowTypes
<1>7. StartInv' /\ EndInv'
  BY <1>1, <1>3, <1>5 DEF Inv, StartInv, EndInv, executorVars, mainVars
<1>8. NoByteLost'
  <2> SUFFICES ASSUME pipeOpen' PROVE output' \o InHand' \o pipe' = Produced'
    BY DEF NoByteLost
  <2>1. output \o pipe = Produced
    <3>1. output \o <<>> \o pipe = Produced
      BY <1>1 DEF Inv, NoByteLost, InHand, executorVars
    <3> QED BY <1>2, <3>1
  <2>2. output' = output /\ Produced' = Produced
    BY <1>1 DEF Produced
  <2>3. CASE count > 0
    <3>1. InHand' = chunk'
      BY <1>1, <2>3 DEF InHand
    <3> QED BY <1>4, <2>1, <2>2, <3>1
  <2>4. CASE ~(count > 0)
    <3>1. count = 0
      BY <1>2, <1>3, <2>4
    <3>2. InHand' = <<>> /\ pipe' = <<>> /\ pipe = <<>>
      BY <1>1, <1>5, <3>1 DEF InHand
    <3> QED BY <1>2, <2>1, <2>2, <3>2
  <2> QED BY <2>3, <2>4
<1> QED BY <1>6, <1>7, <1>8 DEF Inv

LEMMA StepPumpWrite ==
  ASSUME Inv, PumpWrite PROVE Inv'
<1>1. /\ pump = "writing" /\ ~closed
      /\ pump' = "calling" /\ output' = output \o chunk
      /\ UNCHANGED <<executorVars, holders, produced, pipe, chunk, mainVars>>
  BY DEF PumpWrite, Inv, StartInv
<1>2. output \in Seq(Nat) /\ chunk \in Seq(Nat) /\ pipe \in Seq(Nat)
  BY DEF Inv, FlowTypes
<1>3. FlowTypes'
  BY <1>1, <1>2 DEF Inv, FlowTypes
<1>4. StartInv' /\ EndInv'
  BY <1>1 DEF Inv, StartInv, EndInv, executorVars, mainVars
<1>5. NoByteLost'
  <2> SUFFICES ASSUME pipeOpen' PROVE output' \o InHand' \o pipe' = Produced'
    BY DEF NoByteLost
  <2>1. output \o chunk \o pipe = Produced
    BY <1>1 DEF Inv, NoByteLost, InHand, executorVars
  <2>2. output' = output \o chunk /\ InHand' = <<>> /\ pipe' = pipe /\ Produced' = Produced
    BY <1>1 DEF InHand, Produced
  <2>3. output \o chunk \in Seq(Nat)
    BY <1>2
  <2>4. (output \o chunk) \o <<>> = output \o chunk
    BY <2>3, ConcatEmptySeq
  <2> QED BY <2>1, <2>2, <2>4
<1> QED BY <1>3, <1>4, <1>5 DEF Inv

LEMMA StepMain ==
  ASSUME Inv, MainStep PROVE Inv'
<1> USE DEF Inv, FlowTypes, StartInv, EndInv, NoByteLost, InHand, Produced
<1>1. CASE MainStart
  <2>1. /\ pipe = <<>> /\ output = <<>> /\ produced = 0 /\ pump = "none"
        /\ child = "none" /\ ~closed
    BY <1>1 DEF MainStart
  <2>2. /\ child' = "alive" => holders' = {"program"}
        /\ mainPc' = "startIO"
        /\ UNCHANGED <<produced, pipe, pump, chunk, output, closed>>
    BY <1>1, <2>1 DEF MainStart, Executor!Start, Executor!StartWithoutFork,
       Executor!childVars
  <2>3. [n \in 1..0 |-> n] = <<>>
    OBVIOUS
  <2> QED BY <2>1, <2>2, <2>3
<1>2. CASE MainStartIO
  BY <1>2 DEF MainStartIO, executorVars
<1>3. CASE MainWait
  <2>1. pipeOpen' = pipeOpen /\ child' = child
    BY <1>3 DEF MainWait, Executor!Wait, Executor!fieldVars, Executor!childVars
  <2> QED BY <1>3, <2>1, FlowUnchanged DEF MainWait
<1>4. CASE MainWaited
  BY <1>4 DEF MainWaited, executorVars, pumpVars
<1>5. CASE MainJoin
  BY <1>5 DEF MainJoin, Joined, executorVars, pumpVars
<1>6. CASE MainOpenFile
  BY <1>6 DEF MainOpenFile, executorVars, pumpVars
<1>7. CASE MainSave
  BY <1>7 DEF MainSave, executorVars, pumpVars
<1>8. CASE MainSaved
  BY <1>8 DEF MainSaved, executorVars, pumpVars
<1> QED BY <1>1, <1>2, <1>3, <1>4, <1>5, <1>6, <1>7, <1>8 DEF MainStep

LEMMA NextInv == Inv /\ [Next]_vars => Inv'
<1> SUFFICES ASSUME Inv, [Next]_vars PROVE Inv'
  OBVIOUS
<1>1. CASE Produce
  BY <1>1, StepProduce
<1>2. CASE Spawn \/ DescendantEnds \/ \E how \in Executor!Ends : ProgramEnds(how)
  BY <1>2, StepProcesses
<1>3. CASE PumpStep \/ PumpFails
  BY <1>3, StepPumpCall, StepPumpRead, StepPumpWrite DEF PumpStep
<1>4. CASE MainStep
  BY <1>4, StepMain
<1>5. CASE ExecutorStep
  BY <1>5, ExecutorKeeps, FlowUnchanged
<1>6. CASE UNCHANGED vars
  BY <1>6, FlowUnchanged DEF vars, executorVars
<1> QED BY <1>1, <1>2, <1>3, <1>4, <1>5, <1>6 DEF Next

-------------------------------------------------------------------------------
(* Theorems. *)

\* No byte of the program is lost, repeated or reordered on its way to the
\* buffer while the pipe is open: the pump loop of IOController::_run, under any
\* interleaving with the ends, kills and waits of ProgramExecutor.
THEOREM FlowCorrect == Spec => []NoByteLost
<1>1. Inv => NoByteLost
  BY DEF Inv
<1> QED BY <1>1, InitInv, NextInv, PTL DEF Spec

\* The buffer is closed by main() only when it has all of the output, unless
\* kill() has given up or the read of the I/O thread was interrupted.
THEOREM OutputKept == Spec => []OutputComplete
<1>1. Inv => OutputComplete
  <2> SUFFICES ASSUME Inv, closed, pipeOpen, pump # "failed"
               PROVE  holders = {} /\ output = Produced
    BY DEF OutputComplete
  <2>1. pump = "ended" /\ holders = {} /\ pipe = <<>>
    BY DEF Inv, StartInv, EndInv
  <2>2. output \o <<>> \o <<>> = Produced
    BY <2>1 DEF Inv, NoByteLost, InHand
  <2>3. output \in Seq(Nat)
    BY DEF Inv, FlowTypes
  <2> QED BY <2>1, <2>2, <2>3, ConcatEmptySeq
<1> QED BY <1>1, InitInv, NextInv, PTL DEF Spec
-------------------------------------------------------------------------------
(* Saving the output. *)

\* While main() saves, the output does not grow any more, and what is saved is
\* what the buffer keeps, up to the position of the next read.
SaveInv ==
  /\ mainPc \in {"save", "saving", "done"} => closed
  /\ mainPc = "save" => begin = 0
  /\ mainPc \in {"saving", "done"} =>
       /\ discarded = Oldest
       /\ \/ begin = 0 /\ saved = <<>>
          \/ /\ begin \in Oldest..Len(output)
             /\ saved = SubSeq(output, discarded + 1, begin)
  /\ mainPc = "done" => begin >= Len(output)

LEMMA OldestIs ==
  ASSUME Inv
  PROVE  /\ Len(output) \in Nat /\ Oldest \in 0..Len(output)
         /\ Oldest > 0 => Len(output) - Oldest = MaxCapacity
<1>1. output \in Seq(Nat)
  BY DEF Inv, FlowTypes
<1>2. Len(output) \in Nat
  BY <1>1
<1> QED BY <1>2, SizeAssumption DEF Oldest

\* Only main() writes what it saves, and nobody writes to a closed buffer.
LEMMA SaveUnchanged ==
  ASSUME Inv, SaveInv, UNCHANGED <<mainPc, closed, begin, discarded, saved>>,
         closed => UNCHANGED output
  PROVE  SaveInv'
BY DEF SaveInv, Oldest

LEMMA SaveMain ==
  ASSUME Inv, SaveInv, MainStep
  PROVE  SaveInv'
<1>1. CASE MainStart \/ MainStartIO \/ MainWaited
  BY <1>1 DEF MainStart, MainStartIO, MainWaited, SaveInv
<1>2. CASE MainWait
  BY <1>2, SaveUnchanged DEF MainWait, pumpVars, mainVars
<1>3. CASE MainJoin
  BY <1>3 DEF MainJoin, SaveInv
<1>4. CASE MainOpenFile
  <2>1. /\ mainPc = "save" /\ mainPc' = "saving" /\ saved' = <<>>
        /\ discarded' = Oldest /\ UNCHANGED <<closed, begin, output>>
    BY <1>4 DEF MainOpenFile, pumpVars
  <2> QED BY <2>1 DEF SaveInv, Oldest
<1>5. CASE MainSave
  <2> DEFINE from == IF begin > Oldest THEN begin ELSE Oldest
             left == Len(output) - from
             count == IF left < SaveSize THEN left ELSE SaveSize
  <2>1. /\ mainPc = "saving" /\ begin < Len(output)
        /\ saved' = saved \o SubSeq(output, from + 1, from + count)
        /\ begin' = from + count
        /\ UNCHANGED <<mainPc, closed, discarded, output>>
    BY <1>5 DEF MainSave, NextBegin, pumpVars
  <2>2. /\ output \in Seq(Nat) /\ Len(output) \in Nat /\ Oldest \in 0..Len(output)
        /\ SaveSize \in Nat
    BY OldestIs, SizeAssumption DEF Inv, FlowTypes
  <2>3. closed /\ discarded = Oldest
    BY <2>1 DEF SaveInv
  <2>4. begin \in Nat
    BY <2>1, <2>2 DEF SaveInv
  <2>5. from \in Oldest..Len(output) /\ from + count \in from..Len(output)
    <3>1. from \in Oldest..Len(output)
      <4>1. CASE begin > Oldest
        BY <2>1, <2>2, <2>4, <4>1
      <4>2. CASE ~(begin > Oldest)
        BY <2>2, <4>2
      <4> QED BY <4>1, <4>2
    <3> HIDE DEF from
    <3>2. left \in Nat
      BY <2>2, <3>1
    <3>3. count \in 0..left
      <4> HIDE DEF left
      <4> QED BY <2>2, <3>2
    <3> HIDE DEF count
    <3> QED BY <2>2, <3>1, <3>3
  <2>6. saved' = SubSeq(output, Oldest + 1, from + count)
    <3>1. CASE begin = 0 /\ saved = <<>>
      <4>1. from = Oldest
        BY <2>2, <3>1
      <4> DEFINE piece == SubSeq(output, from + 1, from + count)
      <4>2. piece \in Seq(Nat)
        <5>1. \A i \in (from + 1)..(from + count) : output[i] \in Nat
          <6>1. \A i \in (from + 1)..(from + count) : i \in 1..Len(output)
            BY <2>2, <2>5
          <6> QED BY <2>2, <6>1, ElementOfSeq
        <5>2. from + 1 \in Nat /\ from + count \in Nat
          BY <2>2, <2>5
        <5> HIDE DEF from, count
        <5> QED BY <2>2, <2>5, <5>1, <5>2, SubSeqProperties
      <4> HIDE DEF piece
      <4>3. <<>> \o piece = piece
        BY <4>2, ConcatEmptySeq
      <4> QED BY <2>1, <3>1, <4>1, <4>3 DEF piece
    <3>2. CASE /\ begin \in Oldest..Len(output)
               /\ saved = SubSeq(output, discarded + 1, begin)
      <4>1. from = begin
        BY <2>2, <3>2
      <4> HIDE DEF from, count
      <4>2. SubSeq(output, Oldest + 1, from) \o SubSeq(output, from + 1, from + count)
              = SubSeq(output, Oldest + 1, from + count)
        <5>1. /\ Oldest + 1 \in 1..(Len(output) + 1)
              /\ from \in ((Oldest + 1) - 1)..Len(output)
              /\ from + count \in from..Len(output)
          BY <2>2, <2>5
        <5> QED BY <2>2, <5>1, ConcatAdjacentSubSeq, Zenon
      <4> QED BY <2>1, <2>3, <3>2, <4>1, <4>2
    <3> QED BY <2>1, <3>1, <3>2 DEF SaveInv
  <2>7. begin' \in Oldest..Len(output)
    BY <2>1, <2>2, <2>5
  <2> HIDE DEF from, count
  <2>8. Oldest' = Oldest
    BY <2>1 DEF Oldest
  <2> QED BY <2>1, <2>3, <2>6, <2>7, <2>8 DEF SaveInv
<1>6. CASE MainSaved
  <2>1. /\ mainPc = "saving" /\ mainPc' = "done" /\ begin >= Len(output)
        /\ UNCHANGED <<closed, begin, discarded, saved, output>>
    BY <1>6 DEF MainSaved, pumpVars
  <2> QED BY <2>1 DEF SaveInv, Oldest
<1> QED BY <1>1, <1>2, <1>3, <1>4, <1>5, <1>6 DEF MainStep

LEMMA NextSave == Inv /\ SaveInv /\ [Next]_vars => SaveInv'
<1> SUFFICES ASSUME Inv, SaveInv, [Next]_vars PROVE SaveInv'
  OBVIOUS
<1>1. CASE Produce \/ Spawn \/ DescendantEnds \/ \E how \in Executor!Ends : ProgramEnds(how)
  BY <1>1, SaveUnchanged DEF Produce, Spawn, DescendantEnds, ProgramEnds, mainVars
<1>2. CASE PumpCall \/ PumpCallClosed \/ PumpRead \/ PumpFails
  BY <1>2, SaveUnchanged DEF PumpCall, PumpCallClosed, PumpRead, PumpFails, mainVars
<1>3. CASE PumpWrite
  BY <1>3, SaveUnchanged DEF PumpWrite, mainVars
<1>4. CASE MainStep
  BY <1>4, SaveMain
<1>5. CASE ExecutorStep
  BY <1>5, SaveUnchanged DEF ExecutorStep, pumpVars, mainVars
<1>6. CASE UNCHANGED vars
  BY <1>6, SaveUnchanged DEF vars, pumpVars, mainVars
<1> QED BY <1>1, <1>2, <1>3, <1>4, <1>5, <1>6 DEF Next, PumpStep

\* The file that MainApp::runApp saves has the last MaxCapacity bytes of the
\* output, each once and in order, whatever the sizes of the buffer and of the
\* reads, and says how many came before.
THEOREM SavedIsTail == Spec => []SavedTail
<1>1. Init => SaveInv
  BY DEF Init, SaveInv
<1>2. Inv /\ SaveInv => SavedTail
  <2> SUFFICES ASSUME Inv, SaveInv, mainPc = "done"
               PROVE  /\ saved = SubSeq(output, discarded + 1, Len(output))
                      /\ discarded > 0 => Len(saved) = MaxCapacity
    BY DEF SavedTail
  <2>1. /\ output \in Seq(Nat) /\ Len(output) \in Nat /\ Oldest \in 0..Len(output)
        /\ Oldest > 0 => Len(output) - Oldest = MaxCapacity
    BY OldestIs DEF Inv, FlowTypes
  <2>2. discarded = Oldest /\ begin >= Len(output)
    BY DEF SaveInv
  <2>3. saved = SubSeq(output, Oldest + 1, Len(output))
    <3>1. CASE begin = 0 /\ saved = <<>>
      <4>1. Len(output) = 0 /\ Oldest = 0
        BY <2>1, <2>2, <3>1
      <4>2. SubSeq(output, 1, 0) = <<>>
        BY <2>1, SubSeqEmpty
      <4> QED BY <3>1, <4>1, <4>2
    <3>2. CASE /\ begin \in Oldest..Len(output)
               /\ saved = SubSeq(output, discarded + 1, begin)
      <4>1. begin = Len(output)
        BY <2>1, <2>2, <3>2
      <4> QED BY <2>2, <3>2, <4>1
    <3> QED BY <3>1, <3>2 DEF SaveInv
  <2>4. Len(SubSeq(output, Oldest + 1, Len(output))) = Len(output) - Oldest
    <3>1. \A i \in (Oldest + 1)..Len(output) : output[i] \in Nat
      <4>1. \A i \in (Oldest + 1)..Len(output) : i \in 1..Len(output)
        BY <2>1
      <4> QED BY <2>1, <4>1, ElementOfSeq
    <3> QED BY <2>1, <3>1, SubSeqProperties
  <2> QED BY <2>1, <2>2, <2>3, <2>4
<1> QED BY <1>1, <1>2, InitInv, NextInv, NextSave, PTL DEF Spec

-------------------------------------------------------------------------------
(* Types. *)

\* Bytes written by the program's processes, and all that the buffer may get.
Own == 1..MaxOutput
Any == 0..MaxOutput

PumpTypes ==
  /\ holders \subseteq {"program", "descendant"}
  /\ produced \in 0..MaxOutput
  /\ pipe \in Seq(Own) /\ Len(pipe) <= PipeCapacity
  /\ pump \in {"none", "calling", "reading", "writing", "ended", "failed", "stuck"}
  /\ chunk \in Seq(Any) /\ Len(chunk) <= PumpSize
  /\ output \in Seq(Any)

MainTypes ==
  /\ closed \in BOOLEAN
  /\ mainPc \in {"start", "startIO", "wait", "join", "save", "saving", "done"}
  /\ begin \in 0..MaxOutput
  /\ discarded \in 0..MaxOutput
  /\ saved \in Seq(Any)

\* There is no more in the buffer than could be written: what the I/O thread reads
\* comes from the pipe of the program as long as that is open or being read, and
\* only then may bytes of others follow.
Room ==
  /\ Len(output) + Len(InHand) <= MaxOutput
  /\ pipeOpen \/ pump = "reading" => Len(output) + Len(InHand) + Len(pipe) <= produced

LEMMA TypeParts == TypeOK <=> PumpTypes /\ MainTypes
BY DEF TypeOK, PumpTypes, MainTypes, Own, Any

\* A part of a sequence.
LEMMA PartOf ==
  ASSUME NEW S, NEW s \in Seq(S), NEW a \in Nat \ {0}, NEW b \in 0..Len(s)
  PROVE  /\ SubSeq(s, a, b) \in Seq(S)
         /\ Len(SubSeq(s, a, b)) = IF a <= b THEN b - a + 1 ELSE 0
<1>1. Len(s) \in Nat
  OBVIOUS
<1>2. \A i \in a..b : s[i] \in S
  <2>1. \A i \in a..b : i \in 1..Len(s)
    BY <1>1
  <2> QED BY <2>1, ElementOfSeq
<1> QED BY <1>1, <1>2, SubSeqProperties

\* Own bytes are bytes.
LEMMA OwnAny ==
  ASSUME NEW s \in Seq(Own)
  PROVE  s \in Seq(Any)
<1>1. Own \subseteq Any
  BY SizeAssumption DEF Own, Any
<1>2. Len(s) \in Nat /\ s \in [1..Len(s) -> Own]
  OBVIOUS
<1>3. s \in [1..Len(s) -> Any]
  BY <1>1, <1>2
<1> QED BY <1>2, <1>3

LEMMA Lengths ==
  ASSUME PumpTypes
  PROVE  /\ Len(output) \in Nat /\ Len(pipe) \in Nat /\ Len(chunk) \in Nat
         /\ Len(InHand) = IF pump = "writing" THEN Len(chunk) ELSE 0
<1>1. Len(<<>>) = 0
  OBVIOUS
<1> QED BY <1>1 DEF PumpTypes, InHand

\* A process writes a byte.
LEMMA ProduceTypes ==
  ASSUME PumpTypes, Room, Produce
  PROVE  PumpTypes' /\ Room'
<1>1. /\ produced' = produced + 1 /\ produced < MaxOutput
      /\ Len(pipe) < PipeCapacity
      /\ pipe' = Append(pipe, produced + 1)
      /\ UNCHANGED <<pipeOpen, holders, pump, chunk, output>>
  BY DEF Produce, executorVars
<1>2. produced + 1 \in Own /\ produced' \in 0..MaxOutput /\ produced \in Nat
  BY <1>1, SizeAssumption DEF PumpTypes, Own
<1>3. pipe' \in Seq(Own) /\ Len(pipe') = Len(pipe) + 1
  <2>1. pipe \in Seq(Own)
    BY DEF PumpTypes
  <2> QED BY <1>1, <1>2, <2>1
<1>4. Len(pipe') <= PipeCapacity
  BY <1>1, <1>3, Lengths, SizeAssumption
<1>5. Room'
  <2>1. InHand' = InHand /\ Len(InHand) \in Nat
    BY <1>1, Lengths DEF InHand
  <2> QED BY <1>1, <1>2, <1>3, <2>1, Lengths DEF Room
<1> QED BY <1>1, <1>2, <1>3, <1>4, <1>5 DEF PumpTypes

\* The I/O thread reads.
LEMMA ReadTypes ==
  ASSUME PumpTypes, Room, PumpRead
  PROVE  PumpTypes' /\ Room'
<1> DEFINE count == IF Len(pipe) < PumpSize THEN Len(pipe) ELSE PumpSize
<1>1. /\ pump = "reading"
      /\ chunk' = SubSeq(pipe, 1, count)
      /\ pipe' = SubSeq(pipe, count + 1, Len(pipe))
      /\ pump' = IF count > 0 THEN "writing" ELSE "ended"
      /\ UNCHANGED <<pipeOpen, holders, produced, output>>
  BY DEF PumpRead, AfterRead, executorVars
<1>2. /\ Len(pipe) \in Nat /\ Len(output) \in Nat /\ produced \in Nat /\ MaxOutput \in Nat
      /\ PumpSize \in Nat /\ PipeCapacity \in Nat /\ produced <= MaxOutput
  BY Lengths, SizeAssumption DEF PumpTypes
<1>3. pipe \in Seq(Own) /\ Len(pipe) <= PipeCapacity
  BY DEF PumpTypes
<1>4. count \in 0..Len(pipe) /\ count <= PumpSize
  BY <1>2
<1> HIDE DEF count
<1>5. chunk' \in Seq(Own) /\ Len(chunk') = count
  <2>1. 1 \in Nat \ {0}
    OBVIOUS
  <2>2. chunk' \in Seq(Own) /\ Len(chunk') = IF 1 <= count THEN count - 1 + 1 ELSE 0
    BY <1>1, <1>3, <1>4, <2>1, PartOf
  <2> QED BY <1>2, <1>4, <2>2
<1>6. pipe' \in Seq(Own) /\ Len(pipe') = Len(pipe) - count
  <2>1. count + 1 \in Nat \ {0} /\ Len(pipe) \in 0..Len(pipe)
    BY <1>2, <1>4
  <2>2. /\ pipe' \in Seq(Own)
        /\ Len(pipe') = IF count + 1 <= Len(pipe) THEN Len(pipe) - (count + 1) + 1 ELSE 0
    BY <1>1, <1>3, <2>1, PartOf
  <2> QED BY <1>2, <1>4, <2>2
<1>7. Len(chunk') <= PumpSize /\ Len(pipe') <= PipeCapacity
  BY <1>2, <1>3, <1>4, <1>5, <1>6
<1>8. chunk' \in Seq(Any)
  BY <1>5, OwnAny
<1>9. PumpTypes'
  BY <1>1, <1>6, <1>7, <1>8 DEF PumpTypes
<1>10. Room'
  <2>1. Len(output) + Len(pipe) <= produced
    BY <1>1, <1>2, Lengths DEF Room
  <2>2. Len(InHand') = count
    <3>1. Len(<<>>) = 0
      OBVIOUS
    <3>2. InHand' = IF count > 0 THEN chunk' ELSE <<>>
      BY <1>1 DEF InHand
    <3> QED BY <1>2, <1>4, <1>5, <3>1, <3>2
  <2>3. Len(InHand') + Len(pipe') = Len(pipe)
    BY <1>2, <1>4, <1>6, <2>2
  <2>4. Len(InHand') \in Nat /\ Len(pipe') \in Nat
    BY <1>2, <1>4, <1>6, <2>2
  <2>5. output' = output /\ produced' = produced
    BY <1>1
  <2>6. Len(output') + Len(InHand') + Len(pipe') <= produced'
    BY <1>2, <2>1, <2>3, <2>4, <2>5
  <2>7. Len(output') + Len(InHand') <= MaxOutput
    BY <1>2, <2>1, <2>3, <2>4, <2>5
  <2> QED BY <2>6, <2>7 DEF Room
<1> QED BY <1>9, <1>10

\* The I/O thread writes what it has read.
LEMMA WriteTypes ==
  ASSUME Inv, PumpTypes, Room, PumpWrite
  PROVE  PumpTypes' /\ Room'
<1>1. /\ pump = "writing" /\ pump' = "calling" /\ output' = output \o chunk
      /\ UNCHANGED <<pipeOpen, holders, produced, pipe, chunk>>
  BY DEF PumpWrite, Inv, StartInv, executorVars
<1>2. output' \in Seq(Any) /\ Len(output') = Len(output) + Len(chunk)
  <2>1. output \in Seq(Any) /\ chunk \in Seq(Any)
    BY DEF PumpTypes
  <2> QED BY <1>1, <2>1
<1>3. Len(InHand) = Len(chunk) /\ Len(InHand)' = 0
  <2>1. InHand' = <<>> /\ InHand = chunk /\ Len(<<>>) = 0
    BY <1>1 DEF InHand
  <2> QED BY <2>1
<1>4. Room'
  BY <1>1, <1>2, <1>3, Lengths, SizeAssumption DEF Room, PumpTypes
<1> QED BY <1>1, <1>2, <1>4 DEF PumpTypes

\* It calls, or fails.
LEMMA CallTypes ==
  ASSUME PumpTypes, Room, PumpCall \/ PumpCallClosed \/ PumpFails
  PROVE  PumpTypes' /\ Room'
<1>0. Len(<<>>) = 0
  OBVIOUS
<1>1. CASE PumpCall \/ PumpFails
  <2>1. /\ pump' \in {"reading", "failed"} /\ pump # "writing"
        /\ pipeOpen \/ pump = "reading"
        /\ UNCHANGED <<holders, produced, pipe, chunk, output>>
    BY <1>1 DEF PumpCall, PumpFails
  <2>2. InHand = <<>> /\ InHand' = <<>>
    BY <2>1 DEF InHand
  <2> QED BY <2>1, <2>2 DEF PumpTypes, Room
<1>2. CASE PumpCallClosed
  <2>1. /\ ~pipeOpen' /\ UNCHANGED <<holders, produced, pipe, output>>
        /\ pump = "calling"
        /\ \/ pump' \in {"ended", "stuck"} /\ UNCHANGED chunk
           \/ pump' = "writing" /\ chunk' = <<0>> /\ Len(output) < MaxOutput
    BY <1>2 DEF PumpCallClosed, executorVars, Foreign
  <2>2. CASE pump' \in {"ended", "stuck"} /\ UNCHANGED chunk
    <3>1. InHand = <<>> /\ InHand' = <<>>
      BY <2>1, <2>2 DEF InHand
    <3> QED BY <2>1, <2>2, <3>1 DEF PumpTypes, Room
  <2>3. CASE pump' = "writing" /\ chunk' = <<0>> /\ Len(output) < MaxOutput
    <3>1. InHand' = <<0>> /\ Len(<<0>>) = 1
      BY <2>3 DEF InHand
    <3>2. <<0>> \in Seq(Any)
      <4>1. 0 \in Any
        BY SizeAssumption DEF Any
      <4> QED BY <4>1
    <3>3. Room'
      <4>1. Len(InHand)' = 1
        BY <3>1
      <4>2. Len(output) + 1 <= MaxOutput
        BY <2>3, Lengths, SizeAssumption
      <4> QED BY <2>1, <2>3, <4>1, <4>2 DEF Room
    <3>4. Len(chunk') <= PumpSize
      BY <2>3, <3>1, SizeAssumption
    <3> QED BY <2>1, <2>3, <3>2, <3>3, <3>4 DEF PumpTypes
  <2> QED BY <2>1, <2>2, <2>3
<1> QED BY <1>1, <1>2

\* Steps that leave the bytes where they are.
LEMMA StillTypes ==
  ASSUME PumpTypes, Room, UNCHANGED <<produced, pipe, pump, chunk, output>>,
         pipeOpen' => pipeOpen, holders' \subseteq {"program", "descendant"}
  PROVE  PumpTypes' /\ Room'
<1>1. InHand' = InHand
  BY DEF InHand
<1> QED BY <1>1 DEF PumpTypes, Room

\* main() does not touch the bytes: it starts the program while there are none.
LEMMA MainPumpTypes ==
  ASSUME Inv, PumpTypes, Room, MainStep
  PROVE  PumpTypes' /\ Room'
<1>0. Len(<<>>) = 0
  OBVIOUS
<1>1. CASE MainStart
  <2>1. /\ pipe = <<>> /\ output = <<>> /\ produced = 0 /\ pump = "none"
        /\ UNCHANGED <<produced, pipe, pump, chunk, output>>
        /\ holders' \subseteq {"program", "descendant"}
    BY <1>1 DEF MainStart, Inv, StartInv
  <2>2. InHand' = <<>>
    BY <2>1 DEF InHand
  <2>3. Room'
    BY <1>0, <2>1, <2>2, SizeAssumption DEF Room
  <2> QED BY <2>1, <2>3 DEF PumpTypes
<1>2. CASE MainStartIO
  <2>1. /\ pump = "none" /\ pump' = "calling"
        /\ UNCHANGED <<pipeOpen, holders, produced, pipe, chunk, output>>
    BY <1>2 DEF MainStartIO, executorVars, Inv, StartInv
  <2>2. InHand' = <<>> /\ InHand = <<>>
    BY <2>1 DEF InHand
  <2> QED BY <2>1, <2>2 DEF PumpTypes, Room
<1>3. CASE MainWait
  <2>1. pipeOpen' = pipeOpen /\ UNCHANGED <<holders, produced, pipe, pump, chunk, output>>
    BY <1>3 DEF MainWait, Executor!Wait, Executor!fieldVars, pumpVars
  <2> QED BY <2>1, StillTypes DEF PumpTypes
<1>4. CASE MainWaited \/ MainJoin \/ MainOpenFile \/ MainSave \/ MainSaved
  <2>1. UNCHANGED <<pipeOpen, holders, produced, pipe, pump, chunk, output>>
    BY <1>4 DEF MainWaited, MainJoin, MainOpenFile, MainSave, MainSaved, executorVars, pumpVars
  <2> QED BY <2>1, StillTypes DEF PumpTypes
<1> QED BY <1>1, <1>2, <1>3, <1>4 DEF MainStep

\* The positions of main() stay inside of the output.
LEMMA MainMainTypes ==
  ASSUME Inv, SaveInv, PumpTypes, MainTypes, Room, MainStep
  PROVE  MainTypes'
<1>1. CASE MainStart \/ MainStartIO \/ MainWait \/ MainWaited
  BY <1>1 DEF MainStart, MainStartIO, MainWait, MainWaited, mainVars, MainTypes
<1>2. CASE MainJoin
  BY <1>2, SizeAssumption DEF MainJoin, MainTypes
<1>3. Len(output) \in Nat /\ Len(output) <= MaxOutput /\ Oldest \in 0..Len(output)
  <2>1. Len(InHand) \in Nat
    BY Lengths
  <2>2. Len(output) \in Nat /\ MaxOutput \in Nat
    BY Lengths, SizeAssumption
  <2> QED BY <2>1, <2>2, OldestIs DEF Room
<1>4. CASE MainOpenFile
  <2>1. discarded' \in 0..MaxOutput /\ saved' \in Seq(Any)
    BY <1>3, <1>4, SizeAssumption DEF MainOpenFile
  <2> QED BY <1>4, <2>1 DEF MainOpenFile, MainTypes
<1>5. CASE MainSave
  <2> DEFINE from == IF begin > Oldest THEN begin ELSE Oldest
             left == Len(output) - from
             count == IF left < SaveSize THEN left ELSE SaveSize
  <2>1. /\ begin < Len(output)
        /\ saved' = saved \o SubSeq(output, from + 1, from + count)
        /\ begin' = from + count
        /\ UNCHANGED <<closed, mainPc, discarded>>
    BY <1>5 DEF MainSave, NextBegin
  <2>2. from \in 0..Len(output)
    BY <1>3, <2>1 DEF MainTypes
  <2> HIDE DEF from
  <2>3. left \in Nat /\ from + left = Len(output)
    BY <1>3, <2>2
  <2> HIDE DEF left
  <2>4. count \in 0..left
    BY <2>3, SizeAssumption
  <2> HIDE DEF count
  <2>5. from + 1 \in Nat \ {0} /\ from + count \in 0..Len(output)
    BY <1>3, <2>2, <2>3, <2>4
  <2>6. SubSeq(output, from + 1, from + count) \in Seq(Any)
    <3>1. output \in Seq(Any)
      BY DEF PumpTypes
    <3> QED BY <2>5, <3>1, PartOf
  <2>7. saved' \in Seq(Any)
    <3>1. saved \in Seq(Any)
      BY DEF MainTypes
    <3> QED BY <2>1, <2>6, <3>1
  <2>8. begin' \in 0..MaxOutput
    BY <1>3, <2>1, <2>5, SizeAssumption
  <2> QED BY <2>1, <2>7, <2>8 DEF MainTypes
<1>6. CASE MainSaved
  BY <1>6 DEF MainSaved, MainTypes
<1> QED BY <1>1, <1>2, <1>4, <1>5, <1>6 DEF MainStep

LEMMA NextTypes ==
  Inv /\ SaveInv /\ TypeOK /\ Room /\ [Next]_vars => TypeOK' /\ Room'
<1> SUFFICES ASSUME Inv, SaveInv, PumpTypes, MainTypes, Room, [Next]_vars
             PROVE  PumpTypes' /\ MainTypes' /\ Room'
  <2>1. PumpTypes' /\ MainTypes' => TypeOK'
    BY DEF TypeOK, PumpTypes, MainTypes, Own, Any
  <2> QED BY <2>1, TypeParts
<1>0. UNCHANGED mainVars => MainTypes'
  BY DEF mainVars, MainTypes
<1>1. CASE Produce
  BY <1>0, <1>1, ProduceTypes DEF Produce
<1>2. CASE Spawn \/ DescendantEnds \/ \E how \in Executor!Ends : ProgramEnds(how)
  <2>1. /\ pipeOpen' = pipeOpen /\ UNCHANGED <<produced, pipe, pump, chunk, output, mainVars>>
        /\ holders' \subseteq holders \cup {"descendant"}
    BY <1>2 DEF Spawn, DescendantEnds, ProgramEnds, Executor!End, Executor!fieldVars, executorVars
  <2>2. holders' \subseteq {"program", "descendant"}
    BY <2>1 DEF PumpTypes
  <2> QED BY <1>0, <2>1, <2>2, StillTypes
<1>3. CASE PumpStep \/ PumpFails
  <2>1. UNCHANGED mainVars
    BY <1>3 DEF PumpStep, PumpCall, PumpCallClosed, PumpRead, PumpWrite, PumpFails
  <2> QED BY <1>0, <1>3, <2>1, ReadTypes, WriteTypes, CallTypes DEF PumpStep
<1>4. CASE MainStep
  BY <1>4, MainPumpTypes, MainMainTypes
<1>5. CASE ExecutorStep
  BY <1>0, <1>5, ExecutorKeeps, StillTypes DEF pumpVars, PumpTypes
<1>6. CASE UNCHANGED vars
  BY <1>0, <1>6, StillTypes DEF vars, executorVars, pumpVars, PumpTypes
<1> QED BY <1>1, <1>2, <1>3, <1>4, <1>5, <1>6 DEF Next

LEMMA InitTypes == Init => TypeOK /\ Room
<1> SUFFICES ASSUME Init PROVE PumpTypes /\ MainTypes /\ Room
  BY TypeParts
<1>1. Len(<<>>) = 0 /\ <<>> \in Seq(Own) /\ <<>> \in Seq(Any)
  OBVIOUS
<1>2. /\ holders = {} /\ produced = 0 /\ pipe = <<>> /\ pump = "none" /\ chunk = <<>>
      /\ output = <<>> /\ closed = FALSE /\ mainPc = "start" /\ begin = 0
      /\ discarded = 0 /\ saved = <<>>
  BY DEF Init
<1>3. InHand = <<>>
  BY <1>2 DEF InHand
<1>4. PumpTypes
  BY <1>1, <1>2, SizeAssumption DEF PumpTypes
<1>5. MainTypes
  <2>1. closed \in BOOLEAN
    BY <1>2, Zenon
  <2>2. 0 \in 0..MaxOutput
    BY SizeAssumption
  <2> QED BY <1>1, <1>2, <2>1, <2>2 DEF MainTypes
<1>6. Len(output) = 0 /\ Len(InHand) = 0 /\ Len(pipe) = 0
  BY <1>1, <1>2, <1>3
<1>7. Room
  BY <1>2, <1>6, SizeAssumption DEF Room
<1> QED BY <1>4, <1>5, <1>7

\* Every variable always has its type: in particular no read of the I/O thread
\* overruns its buffer, and main() never saves from beyond the end of the output.
THEOREM TypeCorrect == Spec => []TypeOK
<1>1. Init => SaveInv
  BY DEF Init, SaveInv
<1> QED BY <1>1, InitInv, InitTypes, NextInv, NextSave, NextTypes, PTL DEF Spec

-------------------------------------------------------------------------------
(* The executor: what is proved of it holds of the program that IOController  *)
(* describes, whose every step is one of the executor or leaves it alone.     *)

Proved == INSTANCE ProgramExecutorProofs WITH Waiters <- {Main}

\* The variables of the executor, all of them changed by a step of its own only.
LEMMA LeavesExecutor == UNCHANGED executorVars => UNCHANGED Executor!vars
BY DEF executorVars, Executor!vars, Executor!fieldVars, Executor!childVars,
   Executor!callVars

LEMMA StepExecutor == [Next]_vars => [Executor!Next]_(Executor!vars)
<1> SUFFICES ASSUME [Next]_vars
             PROVE  Executor!Next \/ UNCHANGED executorVars
  BY LeavesExecutor
<1>1. CASE Produce \/ Spawn \/ DescendantEnds
  BY <1>1 DEF Produce, Spawn, DescendantEnds
<1>2. CASE \E how \in Executor!Ends : ProgramEnds(how)
  BY <1>2 DEF ProgramEnds, Executor!Next
<1>3. CASE PumpStep \/ PumpFails
  BY <1>3 DEF PumpStep, PumpCall, PumpCallClosed, PumpRead, PumpWrite, PumpFails
<1>4. CASE MainStart
  BY <1>4 DEF MainStart, Executor!Next
<1>5. CASE MainWait
  <2>1. FALSE \in BOOLEAN /\ Executor!Wait(Main, FALSE)
    BY <1>5 DEF MainWait
  <2> QED BY <2>1 DEF Executor!Next, Executor!WaiterStep
<1>6. CASE MainStep /\ ~MainStart /\ ~MainWait
  BY <1>6 DEF MainStep, MainStartIO, MainWaited, MainJoin, MainOpenFile, MainSave, MainSaved
<1>7. CASE ExecutorStep
  BY <1>7 DEF ExecutorStep, Executor!Next, Executor!WaiterStep
<1>8. CASE UNCHANGED vars
  BY <1>8 DEF vars
<1> QED BY <1>1, <1>2, <1>3, <1>4, <1>5, <1>6, <1>7, <1>8 DEF Next

\* The program with its I/O thread and main(), as src/src/main.cpp puts them
\* together, uses ProgramExecutor as that module describes it: whatever the I/O
\* thread does, the executor takes its own steps only, each as a whole.
THEOREM ImplementsExecutor == Spec => Executor!Spec
<1>1. Init => Executor!Init
  BY DEF Init
<1> QED BY <1>1, StepExecutor, PTL DEF Spec, Executor!Spec

\* The executor that is proved about is the one that is executed.
LEMMA SameExecutor == Executor!Spec => Proved!Spec
<1>1. Executor!Threads = Proved!Threads
  BY DEF Executor!Threads, Proved!Threads
<1>2. Executor!Init => Proved!Init
  BY <1>1 DEF Executor!Init, Proved!Init, Executor!NoWaitStatus, Proved!NoWaitStatus
<1>3. Executor!Broadcast = Proved!Broadcast
  BY <1>1 DEF Executor!Broadcast, Proved!Broadcast
<1>4. ASSUME NEW t, NEW ok
      PROVE  Executor!Returned(t, ok) = Proved!Returned(t, ok)
  BY Zenon DEF Executor!Returned, Proved!Returned, Executor!Attempts, Proved!Attempts
<1>5. Executor!WaitMutexFree = Proved!WaitMutexFree
  BY DEF Executor!WaitMutexFree, Proved!WaitMutexFree
<1>6. ASSUME NEW t, NEW limited
      PROVE  Executor!EnterWait(t, limited) = Proved!EnterWait(t, limited)
  BY <1>4, <1>5, Zenon DEF Executor!EnterWait, Proved!EnterWait
<1>7. ASSUME NEW t
      PROVE  /\ Executor!Expire(t) = Proved!Expire(t)
             /\ Executor!LeaveWait(t) = Proved!LeaveWait(t)
  BY <1>4, <1>5, Zenon DEF Executor!Expire, Proved!Expire, Executor!LeaveWait,
     Proved!LeaveWait, Executor!fieldVars, Proved!fieldVars, Executor!childVars,
     Proved!childVars
<1>8. ASSUME NEW w
      PROVE  Executor!WaiterStep(w) = Proved!WaiterStep(w)
  <2>1. ASSUME NEW limited
        PROVE  Executor!Wait(w, limited) = Proved!Wait(w, limited)
    BY <1>6, Zenon DEF Executor!Wait, Proved!Wait, Executor!fieldVars,
       Proved!fieldVars, Executor!childVars, Proved!childVars
  <2> QED BY <1>7, <2>1, Zenon DEF Executor!WaiterStep, Proved!WaiterStep
<1>9. /\ Executor!Start = Proved!Start
       /\ Executor!StartWithoutFork = Proved!StartWithoutFork
       /\ \A how : Executor!End(how) = Proved!End(how)
       /\ Executor!Ends = Proved!Ends
  BY Zenon DEF Executor!Start, Proved!Start, Executor!StartWithoutFork,
     Proved!StartWithoutFork, Executor!End, Proved!End, Executor!Ends, Proved!Ends,
     Executor!Exited, Proved!Exited, Executor!Signalled, Proved!Signalled,
     Executor!callVars, Proved!callVars, Executor!childVars, Proved!childVars,
     Executor!fieldVars, Proved!fieldVars
<1>10. Executor!Background = Proved!Background
  BY <1>3, Zenon DEF Executor!Background, Proved!Background, Executor!WaitPid,
     Proved!WaitPid, Executor!WaitPidFails, Proved!WaitPidFails,
     Executor!StoreStatus, Proved!StoreStatus, Executor!StoreWaitStatus,
     Proved!StoreWaitStatus, Executor!callVars, Proved!callVars,
     Executor!childVars, Proved!childVars, Executor!fieldVars, Proved!fieldVars
<1>11. ASSUME NEW k
       PROVE  Executor!KillerStep(k) = Proved!KillerStep(k)
  <2> USE DEF Executor!callVars, Proved!callVars, Executor!childVars,
      Proved!childVars, Executor!fieldVars, Proved!fieldVars
  <2>1. /\ Executor!Kill(k) = Proved!Kill(k)
        /\ Executor!LockKillMutex(k) = Proved!LockKillMutex(k)
    BY Zenon DEF Executor!Kill, Proved!Kill, Executor!LockKillMutex,
       Proved!LockKillMutex, Executor!KillMutexFree, Proved!KillMutexFree
  <2>2. Executor!KillIfRunning(k) = Proved!KillIfRunning(k)
    BY <1>5, Zenon DEF Executor!KillIfRunning, Proved!KillIfRunning, Executor!Send,
       Proved!Send, Executor!Escalation, Proved!Escalation
  <2>3. Executor!KillWait(k) = Proved!KillWait(k)
    BY <1>6, Zenon DEF Executor!KillWait, Proved!KillWait
  <2>4. Executor!GiveUp(k) = Proved!GiveUp(k)
    BY <1>3, <1>5, Zenon DEF Executor!GiveUp, Proved!GiveUp
  <2> QED BY <1>7, <2>1, <2>2, <2>3, <2>4, Zenon DEF Executor!KillerStep, Proved!KillerStep
<1>12. Executor!Next => Proved!Next
  BY <1>8, <1>9, <1>10, <1>11, Zenon DEF Executor!Next, Proved!Next
<1>13. UNCHANGED Executor!vars => UNCHANGED Proved!vars
  BY DEF Executor!vars, Executor!fieldVars, Executor!childVars, Executor!callVars,
     Proved!vars, Proved!fieldVars, Proved!childVars, Proved!callVars
<1>14. [Executor!Next]_(Executor!vars) => [Proved!Next]_(Proved!vars)
  BY <1>12, <1>13, Zenon
<1> QED BY <1>2, <1>14, PTL DEF Executor!Spec, Proved!Spec

\* What is proved of the executor alone.
LEMMA ExecutorInvariant == Spec => [](Proved!Inv /\ Proved!OutcomeKnown)
<1>1. /\ Proved!ThreadsAssumption
      /\ Proved!EndAssumption
      /\ Proved!OptionAssumption
  BY ThreadsAssumption, EndAssumption, OptionAssumption
  DEF Proved!ThreadsAssumption, Proved!EndAssumption, Proved!OptionAssumption
<1>2. Proved!Spec => []Proved!Inv
  BY <1>1, Proved!Invariance
<1>3. Proved!Spec => []Proved!OutcomeKnown
  BY <1>1, Proved!OutcomeRead
<1> QED BY <1>2, <1>3, ImplementsExecutor, SameExecutor, PTL

\* The wait of main() has no limit, so that it returns true; and main() goes on
\* only after it.
WaitedInv ==
  /\ ~timed[Main]
  /\ pc[Main] # "expired"
  /\ pc[Main] = "done" => told[Main]
  /\ mainPc \notin {"start", "startIO", "wait"} => told[Main]

\* The steps of others move main() from its wait at most.
WaitKept ==
  /\ timed'[Main] = timed[Main]
  /\ told'[Main] = told[Main]
  /\ pc'[Main] = pc[Main] \/ pc'[Main] = "signalled"

LEMMA BackgroundKeeps ==
  ASSUME Proved!Inv, Executor!Background
  PROVE  WaitKept
<1>1. UNCHANGED <<timed, told>> /\ (UNCHANGED pc \/ pc' = Executor!Broadcast)
  BY DEF Executor!Background, Executor!WaitPid, Executor!WaitPidFails,
     Executor!StoreStatus, Executor!StoreWaitStatus, Executor!callVars
<1>2. Main \in Executor!Threads
  BY DEF Executor!Threads
<1> QED BY <1>1, <1>2 DEF WaitKept, Executor!Broadcast

LEMMA KillerKeeps ==
  ASSUME Proved!Inv, NEW k \in Killers, Executor!KillerStep(k)
  PROVE  WaitKept
<1>1. /\ Main \in Executor!Threads /\ k # Main
      /\ Executor!Threads = {Main} \cup Killers
      /\ pc \in [Executor!Threads -> Proved!Places]
      /\ timed \in [Executor!Threads -> BOOLEAN]
  BY ThreadsAssumption DEF Executor!Threads, Proved!Threads, Proved!Inv, Proved!TypeOK
<1>2. ASSUME NEW ok \in BOOLEAN, Executor!Returned(k, ok)
      PROVE  pc'[Main] = pc[Main] /\ told'[Main] = told[Main]
  BY <1>1, <1>2 DEF Executor!Returned
<1>3. CASE Executor!Kill(k) \/ Executor!LockKillMutex(k) \/ Executor!KillIfRunning(k)
           \/ Executor!Expire(k)
  BY <1>1, <1>3 DEF WaitKept, Executor!Kill, Executor!LockKillMutex,
     Executor!KillIfRunning, Executor!Expire
<1>4. CASE Executor!KillWait(k)
  <2>1. PICK limited \in BOOLEAN : Executor!EnterWait(k, limited)
    BY <1>4, (stage[k] \notin Untimed) \in BOOLEAN, Zenon DEF Executor!KillWait
  <2> QED BY <1>1, <1>2, <2>1 DEF WaitKept, Executor!EnterWait
<1>5. CASE Executor!LeaveWait(k)
  <2>1. PICK ok \in BOOLEAN : Executor!Returned(k, ok)
    BY <1>5, (pc[k] = "signalled") \in BOOLEAN, Zenon DEF Executor!LeaveWait
  <2>2. UNCHANGED timed
    BY <1>5 DEF Executor!LeaveWait
  <2> QED BY <1>2, <2>1, <2>2 DEF WaitKept
<1>6. CASE Executor!GiveUp(k)
  <2>1. UNCHANGED <<timed, told>> /\ pc' = [Executor!Broadcast EXCEPT ![k] = "done"]
    BY <1>6 DEF Executor!GiveUp
  <2>2. Executor!Broadcast[Main] = pc[Main] \/ Executor!Broadcast[Main] = "signalled"
    BY <1>1 DEF Executor!Broadcast
  <2>3. pc'[Main] = Executor!Broadcast[Main]
    BY <1>1, <2>1 DEF Executor!Broadcast
  <2> QED BY <2>1, <2>2, <2>3 DEF WaitKept
<1> QED BY <1>3, <1>4, <1>5, <1>6 DEF Executor!KillerStep

LEMMA StepWaited ==
  ASSUME Proved!Inv, WaitedInv, [Next]_vars
  PROVE  WaitedInv'
<1>1. /\ Main \in Executor!Threads /\ Main \in {Main}
      /\ pc \in [Executor!Threads -> Proved!Places]
      /\ timed \in [Executor!Threads -> BOOLEAN]
      /\ told \in [Executor!Threads -> BOOLEAN]
  BY DEF Executor!Threads, Proved!Threads, Proved!Inv, Proved!TypeOK
<1>2. WaitKept /\ UNCHANGED mainPc => WaitedInv'
  BY DEF WaitKept, WaitedInv
<1>3. UNCHANGED <<pc, timed, told>> => WaitKept
  BY DEF WaitKept
<1>4. ASSUME Executor!Returned(Main, TRUE)
      PROVE  pc'[Main] = "done" /\ told'[Main]
  BY <1>1, <1>4 DEF Executor!Returned
<1>5. CASE Produce \/ Spawn \/ DescendantEnds \/ PumpStep \/ PumpFails
  BY <1>2, <1>3, <1>5 DEF Produce, Spawn, DescendantEnds, PumpStep, PumpCall,
     PumpCallClosed, PumpRead, PumpWrite, PumpFails, executorVars, mainVars
<1>6. CASE \E how \in Executor!Ends : ProgramEnds(how)
  BY <1>2, <1>3, <1>6 DEF ProgramEnds, Executor!End, Executor!callVars, mainVars
<1>7. CASE MainStart
  BY <1>7 DEF MainStart, Executor!Start, Executor!StartWithoutFork,
     Executor!callVars, WaitedInv
<1>8. CASE MainStartIO
  BY <1>8 DEF MainStartIO, executorVars, WaitedInv
<1>9. CASE MainWait
  <2>1. Executor!EnterWait(Main, FALSE) /\ UNCHANGED mainPc /\ mainPc = "wait"
    BY <1>9 DEF MainWait, Executor!Wait, mainVars
  <2>2. CASE status = "RUNNING"
    BY <1>1, <2>1, <2>2 DEF Executor!EnterWait, WaitedInv
  <2>3. CASE status # "RUNNING"
    BY <1>1, <1>4, <2>1, <2>3 DEF Executor!EnterWait, WaitedInv
  <2> QED BY <2>2, <2>3
<1>10. CASE MainWaited
  BY <1>10 DEF MainWaited, executorVars, WaitedInv
<1>11. CASE MainJoin \/ MainOpenFile \/ MainSave \/ MainSaved
  BY <1>11 DEF MainJoin, MainOpenFile, MainSave, MainSaved, executorVars, WaitedInv
<1>12. CASE ExecutorStep
  <2>1. UNCHANGED mainPc
    BY <1>12 DEF ExecutorStep, mainVars
  <2>2. CASE Executor!LeaveWait(Main)
    <3>1. pc[Main] = "signalled"
      BY <2>2 DEF Executor!LeaveWait, WaitedInv
    <3>2. Executor!Returned(Main, TRUE) /\ UNCHANGED timed
      <4>1. (pc[Main] = "signalled") = TRUE
        BY <3>1
      <4> QED BY <2>2, <4>1, Zenon DEF Executor!LeaveWait
    <3> QED BY <1>4, <2>1, <3>2 DEF WaitedInv
  <2>3. CASE Executor!Background
    BY <1>2, <2>1, <2>3, BackgroundKeeps
  <2>4. CASE \E k \in Killers : Executor!KillerStep(k)
    BY <1>2, <2>1, <2>4, KillerKeeps
  <2> QED BY <1>12, <2>2, <2>3, <2>4 DEF ExecutorStep
<1>13. CASE UNCHANGED vars
  BY <1>2, <1>3, <1>13 DEF vars, executorVars, mainVars
<1> QED BY <1>5, <1>6, <1>7, <1>8, <1>9, <1>10, <1>11, <1>12, <1>13 DEF Next, MainStep

\* The file that main() has saved and the status that it goes on to report are
\* those of the whole run: every byte of every process but the discarded ones, and
\* what waitpid() returned, whatever the order in which the two threads of the
\* executor and the I/O controller, main() and the killers get there.
THEOREM RunIsRecorded == Spec => []RunRecorded
<1>1. Init => WaitedInv
  BY DEF Init, Executor!Init, Executor!Threads, WaitedInv
<1>2. Init => SaveInv
  BY DEF Init, SaveInv
<1>3. /\ Inv /\ SaveInv /\ OutputComplete /\ SavedTail
      /\ Proved!OutcomeKnown /\ WaitedInv
      => RunRecorded
  <2> SUFFICES ASSUME Inv, SaveInv, OutputComplete, SavedTail,
                      Proved!OutcomeKnown, WaitedInv,
                      mainPc = "done", pipeOpen, pump # "failed"
               PROVE  /\ saved = SubSeq(Produced, discarded + 1, produced)
                      /\ discarded = IF produced > MaxCapacity
                                     THEN produced - MaxCapacity ELSE 0
                      /\ child = "reaped" /\ status = end.how /\ waitStatus = end
    BY DEF RunRecorded
  <2>1. output = Produced
    BY DEF SaveInv, OutputComplete
  <2>2. Len(Produced) = produced
    BY DEF Produced, Inv, FlowTypes
  <2>3. saved = SubSeq(Produced, discarded + 1, produced)
    BY <2>1, <2>2 DEF SavedTail
  <2>4. discarded = IF produced > MaxCapacity THEN produced - MaxCapacity ELSE 0
    BY <2>1, <2>2 DEF SaveInv, Oldest
  <2>5. child = "reaped" /\ status = end.how /\ waitStatus = end
    BY DEF WaitedInv, Proved!OutcomeKnown
  <2> QED BY <2>3, <2>4, <2>5
<1> QED BY <1>1, <1>2, <1>3, InitInv, NextInv, NextSave, StepWaited,
        ExecutorInvariant, OutputKept, SavedIsTail, PTL DEF Spec

===============================================================================
