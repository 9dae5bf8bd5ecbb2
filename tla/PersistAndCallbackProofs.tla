------------------------ MODULE PersistAndCallbackProofs ------------------------
(***************************************************************************)
(* Proofs about PersistAndCallback: what the callback server knows of the  *)
(* status is on the disk, a final status stays there, the watcher and      *)
(* main() never post at the same time, and a server that has recovered     *)
(* knows the status and the files; for any number of files, documents,     *)
(* retries, outages and restarts.                                          *)
(***************************************************************************)
EXTENDS PersistAndCallback, TLAPS

USE DEF diskVars

-------------------------------------------------------------------------------
(* The invariant. *)

\* What the last save of s has left on the disk.
Saved(s) == disk = (IF unsaved THEN "empty" ELSE s)

\* What is on the disk before s is saved.
Before(s) == IF s = "RUNNING" THEN disk = "none" ELSE Saved("RUNNING")

\* What is on the disk, at each place of main().
DiskInv ==
  /\ mainPc = "report" =>
       /\ report \in {"RUNNING"} \cup Finals
       /\ step = 1 => Before(report)
       /\ step = 2 => disk = "empty"
       /\ step = 3 => Saved(report)
  /\ mainPc \in {"wait", "stop", "collect"} => Saved("RUNNING")
  /\ mainPc \in {"stop", "collect"} => report \in Finals
  /\ mainPc = "done" => \E s \in Finals : Saved(s)

\* A status that could not be written is posted all the same; the file is there,
\* and after a final one no other run comes to write it.
UnsavedInv ==
  unsaved =>
    /\ disk = "empty"
    /\ knownStatus \in Finals =>
         \/ mainPc \in {"start", "done", "crashed"}
         \/ mainPc = "report" /\ step = 3 /\ report \in Finals

\* Where main() is while main() itself posts.
MainJobInv ==
  job[Main] # NoJob =>
    \/ mainPc = "report" /\ step = 3 /\ job[Main] = Event("status", report)
    \/ mainPc = "collect" /\ job[Main].tag \in Tags

\* Where main() is while the watcher's thread runs, or posts.
WatcherInv ==
  /\ watching => /\ mainPc \in {"report", "wait", "stop"}
                 /\ mainPc = "report" => report = "RUNNING"
  /\ job[Watcher] # NoJob => watching /\ job[Watcher].tag \in Tags

Inv == TypeOK /\ DiskInv /\ UnsavedInv /\ MainJobInv /\ WatcherInv /\ SavedBeforeKnown

LEMMA Phase ==
  /\ Phases[1] = "truncate" /\ Phases[2] = "write" /\ Phases[3] = "post"
  /\ \A n \in 1..3 : /\ Phases[n] = "truncate" => n = 1
                     /\ Phases[n] = "write" => n = 2
                     /\ Phases[n] = "post" => n = 3
BY DEF Phases

\* What an event is.
LEMMA EventCases ==
  ASSUME NEW e \in Events, e # NoJob
  PROVE  \/ e.tag = "status" /\ e.doc \in Statuses
         \/ e.tag \in Tags /\ e.tag # "status" /\ e.doc \in Docs
BY NameAssumption DEF Events, NoJob, Event

LEMMA EventTypes ==
  /\ NoJob \in Events
  /\ \A d \in Statuses : Event("status", d) \in Events
  /\ \A t \in Tags, d \in Docs : Event(t, d) \in Events
BY DEF Events, Event

-------------------------------------------------------------------------------
(* Types. *)

LEMMA ReportTypes ==
  ASSUME TypeOK, NEW s \in Statuses, NEW n \in 1..4, ReportFrom(s, n)
  PROVE  /\ mainPc' \in {"report", "wait", "done"}
         /\ report' \in Statuses
         /\ step' \in 1..3
BY DEF TypeOK, ReportFrom

LEMMA PostedTypes ==
  ASSUME TypeOK, NEW thr \in {Main, Watcher}, job[thr] # NoJob,
         Posted(thr, job[thr])
  PROVE  /\ mainPc' \in {"start", "report", "wait", "stop", "collect", "done", "crashed"}
         /\ report' \in Statuses /\ step' \in 1..3
         /\ job' \in [{Main, Watcher} -> Events]
         /\ tries' \in [{Main, Watcher} -> 0..MaxRetry]
         /\ lastPosted' \in [Tags -> Docs \cup {"absent"}]
         /\ posted' \in Statuses
<1>1. job' \in [{Main, Watcher} -> Events]
  BY EventTypes DEF TypeOK, Posted
<1>2. tries' \in [{Main, Watcher} -> 0..MaxRetry]
  BY RetryAssumption DEF TypeOK, Posted
<1>3. job[thr] \in Events
  BY DEF TypeOK
<1>4. CASE job[thr].tag = "status"
  <2>1. job[thr].doc \in Statuses
    BY <1>3, <1>4, EventCases, NameAssumption
  <2>2. ReportFrom(report, step + 1) /\ posted' = job[thr].doc /\ UNCHANGED lastPosted
    BY <1>4 DEF Posted
  <2>3. step + 1 \in 1..4 /\ report \in Statuses
    BY DEF TypeOK
  <2> QED BY <1>1, <1>2, <2>1, <2>2, <2>3, ReportTypes DEF TypeOK
<1>5. CASE job[thr].tag # "status"
  <2>1. job[thr].tag \in Tags /\ job[thr].doc \in Docs
    BY <1>3, <1>5, EventCases
  <2> QED BY <1>1, <1>2, <1>5, <2>1 DEF TypeOK, Posted
<1> QED BY <1>4, <1>5

LEMMA FailedTypes ==
  ASSUME TypeOK, NEW thr \in {Main, Watcher}, job[thr] # NoJob, Failed(thr)
  PROVE  /\ mainPc' \in {"start", "report", "wait", "stop", "collect", "done", "crashed"}
         /\ report' \in Statuses /\ step' \in 1..3
         /\ job' \in [{Main, Watcher} -> Events]
         /\ tries' \in [{Main, Watcher} -> 0..MaxRetry]
         /\ lastPosted' \in [Tags -> Docs \cup {"absent"}]
         /\ posted' \in Statuses
<1>1. CASE LastTry(thr)
  BY <1>1, PostedTypes DEF Failed
<1>2. CASE ~LastTry(thr)
  <2>1. tries[thr] + 1 \in 0..MaxRetry
    BY <1>2, RetryAssumption DEF LastTry, TypeOK
  <2> QED BY <1>2, <2>1 DEF Failed, TypeOK
<1> QED BY <1>1, <1>2

LEMMA ReceiveTypes ==
  ASSUME TypeOK, NEW e \in Events, e # NoJob, Receive(e)
  PROVE  /\ knownStatus' \in Statuses
         /\ knownFiles' \in [Tags -> Docs \cup {"absent"}]
         /\ server' \in {"down", "open", "ready"}
BY EventCases, NameAssumption DEF TypeOK, Receive

LEMMA PostTypes ==
  ASSUME TypeOK, NEW thr \in {Main, Watcher}, Post(thr)
  PROVE  TypeOK'
<1>0. job[thr] \in Events
  BY DEF TypeOK
<1>1. CASE PostSucceeds(thr)
  <2>1. job[thr] # NoJob /\ Receive(job[thr]) /\ Posted(thr, job[thr])
        /\ UNCHANGED <<todo, watching, missed, child, diskVars, fileVars>>
    BY <1>1 DEF PostSucceeds
  <2> QED BY <1>0, <2>1, PostedTypes, ReceiveTypes DEF TypeOK, fileVars
<1>2. CASE PostUnanswered(thr)
  <2>1. job[thr] # NoJob /\ Receive(job[thr]) /\ Failed(thr)
        /\ UNCHANGED <<todo, watching, missed, child, diskVars, fileVars>>
    BY <1>2 DEF PostUnanswered
  <2> QED BY <1>0, <2>1, FailedTypes, ReceiveTypes DEF TypeOK, fileVars
<1>3. CASE PostFails(thr)
  <2>1. job[thr] # NoJob /\ Failed(thr) /\ missed' \in BOOLEAN
        /\ UNCHANGED <<todo, watching, child, diskVars, fileVars, serverVars>>
    <3>1. missed \in BOOLEAN
      BY DEF TypeOK
    <3> QED BY <1>3, <3>1, Zenon DEF PostFails
  <2> QED BY <1>0, <2>1, FailedTypes DEF TypeOK, fileVars, serverVars
<1> QED BY <1>1, <1>2, <1>3 DEF Post

LEMMA ServerTypes ==
  ASSUME TypeOK, ServerFails \/ ServerOpens \/ ServerChecks
  PROVE  TypeOK'
<1>1. CASE ServerFails
  BY <1>1 DEF ServerFails, TypeOK, mainVars, postVars, fileVars, Statuses
<1>2. CASE ServerOpens
  BY <1>2 DEF ServerOpens, TypeOK, mainVars, postVars, fileVars
<1>3. CASE ServerChecks
  <2>1. disk \in Statuses \/ Rank(disk) = 0
    <3>1. disk \in Statuses \/ disk = "empty"
      BY DEF TypeOK
    <3>2. Rank("empty") = 0
      BY DEF Rank, Finals
    <3> QED BY <3>1, <3>2
  <2>2. Rank(knownStatus) >= 0
    BY DEF Rank
  <2>3. knownStatus' \in Statuses
    <3>1. knownStatus \in Statuses
      BY DEF TypeOK
    <3>2. knownStatus' = IF Rank(disk) > Rank(knownStatus) THEN disk ELSE knownStatus
      BY <1>3 DEF ServerChecks
    <3>3. CASE disk \in Statuses
      BY <3>1, <3>2, <3>3
    <3>4. CASE Rank(disk) = 0
      <4>1. ~(Rank(disk) > Rank(knownStatus))
        BY <2>2, <3>4 DEF Rank
      <4> QED BY <3>1, <3>2, <4>1
    <3> QED BY <2>1, <3>3, <3>4
  <2>4. knownFiles' \in [Tags -> Docs \cup {"absent"}]
    BY <1>3 DEF ServerChecks, TypeOK
  <2> QED BY <1>3, <2>3, <2>4
          DEF ServerChecks, TypeOK, mainVars, postVars, fileVars
<1> QED BY <1>1, <1>2, <1>3

LEMMA ProcessTypes ==
  ASSUME TypeOK, NEW thr \in {Main, Watcher}, NEW t \in Tags, ProcessFile(thr, t)
  PROVE  job' \in [{Main, Watcher} -> Events]
BY EventTypes DEF TypeOK, ProcessFile, New

LEMMA MainTypes ==
  ASSUME TypeOK, MainStep
  PROVE  TypeOK'
<1> USE DEF postVars, fileVars, serverVars
<1>1. CASE Start
  <2>1. ReportFrom("RUNNING", 1) /\ "RUNNING" \in Statuses
    BY <1>1 DEF Start, Statuses
  <2> QED BY <1>1, <2>1, ReportTypes DEF Start, TypeOK
<1>2. CASE SaveTruncate
  <2>1. ReportFrom(report, step + 1) /\ report \in Statuses /\ step + 1 \in 1..4
    BY <1>2 DEF SaveTruncate, TypeOK
  <2> QED BY <1>2, <2>1, ReportTypes DEF SaveTruncate, TypeOK
<1>3. CASE SaveWrite
  <2>1. ReportFrom(report, step + 1) /\ report \in Statuses /\ step + 1 \in 1..4
    BY <1>3 DEF SaveWrite, TypeOK
  <2>2. disk' \in Statuses \cup {"empty"} /\ unsaved' \in BOOLEAN
    BY <1>3, <2>1 DEF SaveWrite
  <2> QED BY <1>3, <2>1, <2>2, ReportTypes DEF SaveWrite, TypeOK
<1>4. CASE PostStatus
  <2>1. job' \in [{Main, Watcher} -> Events]
    BY <1>4, EventTypes DEF PostStatus, TypeOK
  <2> QED BY <1>4, <2>1 DEF PostStatus, TypeOK, mainVars
<1>5. CASE Waited
  BY <1>5 DEF Waited, TypeOK, Statuses, Finals
<1>6. CASE StopWatcher
  BY <1>6 DEF StopWatcher, TypeOK
<1>7. ASSUME NEW t \in Tags, CollectFile(t) PROVE TypeOK'
  <2>1. job' \in [{Main, Watcher} -> Events]
    BY <1>7, ProcessTypes DEF CollectFile
  <2>2. UNCHANGED <<tries, lastPosted, posted, missed>>
    BY <1>7 DEF CollectFile, ProcessFile
  <2> QED BY <1>7, <2>1, <2>2 DEF CollectFile, TypeOK
<1>8. CASE Collected
  <2>1. ReportFrom(report, 1) /\ report \in Statuses
    BY <1>8 DEF Collected, TypeOK
  <2> QED BY <1>8, <2>1, ReportTypes DEF Collected, TypeOK
<1>9. CASE Post(Main)
  BY <1>9, PostTypes
<1> QED BY <1>1, <1>2, <1>3, <1>4, <1>5, <1>6, <1>7, <1>8, <1>9 DEF MainStep

LEMMA WatcherTypes ==
  ASSUME TypeOK, WatcherStep
  PROVE  TypeOK'
<1>1. CASE Post(Watcher)
  BY <1>1, PostTypes
<1>2. ASSUME NEW t \in Tags, FileUpdated(t) PROVE TypeOK'
  <2>1. job' \in [{Main, Watcher} -> Events]
    BY <1>2, ProcessTypes DEF FileUpdated
  <2>2. UNCHANGED <<tries, lastPosted, posted, missed>>
    BY <1>2 DEF FileUpdated, ProcessFile
  <2> QED BY <1>2, <2>1, <2>2 DEF FileUpdated, TypeOK, mainVars, serverVars
<1> QED BY <1>1, <1>2 DEF WatcherStep

LEMMA BeginTypes ==
  ASSUME TypeOK, Begin
  PROVE  /\ report' \in Statuses /\ step' \in 1..3 /\ todo' \subseteq Tags
         /\ tries' \in [{Main, Watcher} -> 0..MaxRetry]
         /\ lastPosted' \in [Tags -> Docs \cup {"absent"}]
         /\ reverted' \subseteq Tags
         /\ [thr \in {Main, Watcher} |-> NoJob] \in [{Main, Watcher} -> Events]
BY EventTypes, RetryAssumption DEF Begin, Statuses

\* Type correctness of a step.
LEMMA StepTypes == TypeOK /\ [Next]_vars => TypeOK'
<1> SUFFICES ASSUME TypeOK, [Next]_vars PROVE TypeOK'
  OBVIOUS
<1> USE DEF mainVars, postVars, fileVars, serverVars
<1>1. ASSUME NEW t \in Tags, NEW content \in Docs \cup {"torn"}, WriteFile(t, content)
      PROVE  TypeOK'
  BY <1>1 DEF WriteFile, TypeOK, Contents
<1>2. CASE ProgramEnds
  BY <1>2 DEF ProgramEnds, TypeOK
<1>3. CASE ServerFails \/ ServerOpens \/ ServerChecks
  BY <1>3, ServerTypes
<1>4. CASE MainStep
  BY <1>4, MainTypes
<1>5. CASE WatcherStep
  BY <1>5, WatcherTypes
<1>6. CASE Crash
  BY <1>6, BeginTypes DEF Crash, TypeOK
<1>7. CASE Restart
  BY <1>7, BeginTypes DEF Restart, TypeOK
<1>8. CASE UNCHANGED vars
  BY <1>8 DEF vars, TypeOK
<1> QED BY <1>1, <1>2, <1>3, <1>4, <1>5, <1>6, <1>7, <1>8 DEF Next

LEMMA InitTypes == Init => TypeOK
<1> SUFFICES ASSUME Init PROVE TypeOK
  OBVIOUS
<1>1. job \in [{Main, Watcher} -> Events]
  BY EventTypes DEF Init
<1>2. tries \in [{Main, Watcher} -> 0..MaxRetry]
  BY RetryAssumption DEF Init
<1>3. /\ lastPosted \in [Tags -> Docs \cup {"absent"}]
      /\ files \in [Tags -> Contents]
      /\ knownFiles \in [Tags -> Docs \cup {"absent"}]
  BY DEF Init, Contents
<1>4. report \in Statuses /\ disk \in Statuses \cup {"empty"}
      /\ knownStatus \in Statuses /\ posted \in Statuses
  BY DEF Init, Statuses
<1>5. mainPc = "start" /\ step = 1 /\ child = "none" /\ server = "ready"
  BY DEF Init
<1>6. todo = {} /\ pending = {} /\ reverted = {}
  BY DEF Init
<1>7. watching \in BOOLEAN /\ missed \in BOOLEAN /\ unsaved \in BOOLEAN
  <2>1. watching = FALSE /\ missed = FALSE /\ unsaved = FALSE
    BY Zenon DEF Init
  <2> QED BY <2>1
<1> QED BY <1>1, <1>2, <1>3, <1>4, <1>5, <1>6, <1>7 DEF TypeOK

\* Every variable always has its type: in particular, _postEvent never tries an
\* event more than MaxRetry + 1 times.
THEOREM TypeCorrect == Spec => []TypeOK
<1>1. Init => TypeOK
  BY InitTypes
<1>2. TypeOK /\ [Next]_vars => TypeOK'
  BY StepTypes
<1> QED BY <1>1, <1>2, PTL DEF Spec

-------------------------------------------------------------------------------
(* The disk and main(). *)

\* What is on the disk when a report has got from step n to the next.
LEMMA ReportDisk ==
  ASSUME NEW s \in {"RUNNING"} \cup Finals, NEW n \in 1..4, ReportFrom(s, n),
         n < 4 \/ (report = s /\ step = 3),
         n = 1 => Before(s)',
         n = 2 => disk' = "empty",
         n = 3 => Saved(s)',
         n = 4 => Saved(s)'
  PROVE  DiskInv'
BY DEF ReportFrom, DiskInv, Before, Saved, Finals

\* An event that the server has got.
LEMMA ReceiveSaved ==
  ASSUME Inv, NEW thr \in {Main, Watcher}, job[thr] # NoJob, Receive(job[thr]),
         UNCHANGED <<disk, unsaved>>
  PROVE  SavedBeforeKnown'
<1>1. CASE job[thr].tag = "status"
  <2>1. thr = Main /\ mainPc = "report" /\ step = 3 /\ job[thr] = Event("status", report)
    BY <1>1, NameAssumption DEF Inv, MainJobInv, WatcherInv
  <2>2. knownStatus' = report /\ Saved(report) /\ report \in {"RUNNING"} \cup Finals
    BY <2>1 DEF Inv, DiskInv, Receive, Event
  <2> QED BY <1>1, <2>2 DEF Saved, SavedBeforeKnown, Finals
<1>2. CASE job[thr].tag # "status"
  BY <1>2 DEF Receive, Inv, SavedBeforeKnown
<1> QED BY <1>1, <1>2

\* What main() does when its post, or one of the watcher's, has come to an end.
LEMMA PostedInv ==
  ASSUME Inv, NEW thr \in {Main, Watcher}, job[thr] # NoJob,
         Posted(thr, job[thr]), UNCHANGED <<disk, unsaved, watching>>
  PROVE  DiskInv' /\ MainJobInv' /\ WatcherInv'
<1>0. job'[thr] = NoJob /\ \A u \in {Main, Watcher} : u # thr => job'[u] = job[u]
  BY DEF Inv, TypeOK, Posted
<1>1. CASE job[thr].tag = "status"
  <2>1. thr = Main /\ mainPc = "report" /\ step = 3
    BY <1>1, NameAssumption DEF Inv, MainJobInv, WatcherInv
  <2>2. ReportFrom(report, 4)
    BY <1>1, <2>1 DEF Posted
  <2>3. report \in {"RUNNING"} \cup Finals /\ Saved(report)
    BY <2>1 DEF Inv, DiskInv
  <2>4. DiskInv'
    BY <2>1, <2>2, <2>3, ReportDisk DEF Saved
  <2>5. mainPc' = (IF report = "RUNNING" THEN "wait" ELSE "done")
    BY <2>2 DEF ReportFrom
  <2>6. WatcherInv'
    BY <1>0, <2>1, <2>5, ThreadAssumption DEF Inv, WatcherInv
  <2>7. MainJobInv'
    BY <1>0, <2>1 DEF MainJobInv
  <2> QED BY <2>4, <2>6, <2>7
<1>2. CASE job[thr].tag # "status"
  <2>1. UNCHANGED <<mainPc, report, step, disk, unsaved, watching>>
    BY <1>2 DEF Posted
  <2> QED BY <1>0, <2>1 DEF Inv, DiskInv, Before, Saved, MainJobInv, WatcherInv
<1> QED BY <1>1, <1>2

LEMMA FailedInv ==
  ASSUME Inv, NEW thr \in {Main, Watcher}, job[thr] # NoJob, Failed(thr),
         UNCHANGED <<disk, unsaved, watching>>
  PROVE  DiskInv' /\ MainJobInv' /\ WatcherInv'
<1>1. CASE LastTry(thr)
  BY <1>1, PostedInv DEF Failed
<1>2. CASE ~LastTry(thr)
  BY <1>2 DEF Failed, Inv, DiskInv, Before, Saved, MainJobInv, WatcherInv
<1> QED BY <1>1, <1>2

\* A post leaves the disk alone, and only a final report tells the server of an end.
LEMMA PostUnsaved ==
  ASSUME Inv, NEW thr \in {Main, Watcher}, Post(thr)
  PROVE  UnsavedInv'
<1>1. job[thr] # NoJob /\ UNCHANGED <<disk, unsaved>>
  BY DEF Post, PostSucceeds, PostUnanswered, PostFails
<1>2. \/ Posted(thr, job[thr])
      \/ UNCHANGED <<mainPc, report, step>>
  BY DEF Post, PostSucceeds, PostUnanswered, PostFails, Failed
<1>3. CASE job[thr].tag = "status"
  <2>1. thr = Main /\ mainPc = "report" /\ step = 3 /\ job[thr] = Event("status", report)
    BY <1>1, <1>3, NameAssumption DEF Inv, MainJobInv, WatcherInv
  <2>2. knownStatus' \in {knownStatus, report}
    BY <2>1 DEF Post, PostSucceeds, PostUnanswered, PostFails, Receive, Event, serverVars
  <2>3. mainPc' = "done" \/ report = "RUNNING" \/ UNCHANGED <<mainPc, report, step>>
    BY <1>2, <1>3, <2>1 DEF Posted, ReportFrom
  <2>4. report \in {"RUNNING"} \cup Finals /\ Saved(report)
    BY <2>1 DEF Inv, DiskInv
  <2>5. knownStatus \in Finals /\ unsaved => report # "RUNNING"
    BY <2>1 DEF Inv, UnsavedInv, Finals
  <2>6. "RUNNING" \notin Finals
    BY DEF Finals
  <2> QED BY <1>1, <2>1, <2>2, <2>3, <2>4, <2>5, <2>6 DEF UnsavedInv, Saved
<1>4. CASE job[thr].tag # "status"
  <2>1. UNCHANGED <<mainPc, report, step>>
    BY <1>2, <1>4 DEF Posted
  <2>2. knownStatus' = knownStatus
    BY <1>4 DEF Post, PostSucceeds, PostUnanswered, PostFails, Receive, serverVars
  <2> QED BY <1>1, <2>1, <2>2 DEF Inv, UnsavedInv
<1> QED BY <1>3, <1>4

LEMMA PostInv ==
  ASSUME Inv, NEW thr \in {Main, Watcher}, Post(thr)
  PROVE  DiskInv' /\ UnsavedInv' /\ MainJobInv' /\ WatcherInv' /\ SavedBeforeKnown'
<1>0. UnsavedInv'
  BY PostUnsaved
<1>1. job[thr] # NoJob /\ UNCHANGED <<disk, unsaved, watching>>
  BY DEF Post, PostSucceeds, PostUnanswered, PostFails
<1>2. CASE PostSucceeds(thr)
  BY <1>0, <1>1, <1>2, PostedInv, ReceiveSaved DEF PostSucceeds
<1>3. CASE PostUnanswered(thr)
  BY <1>0, <1>1, <1>3, FailedInv, ReceiveSaved DEF PostUnanswered
<1>4. CASE PostFails(thr)
  <2>1. Failed(thr) /\ UNCHANGED knownStatus
    BY <1>4 DEF PostFails, serverVars
  <2> QED BY <1>0, <1>1, <2>1, FailedInv DEF Inv, SavedBeforeKnown
<1> QED BY <1>0, <1>2, <1>3, <1>4 DEF Post

-------------------------------------------------------------------------------
(* The invariant is kept by every step. *)

\* Steps of main() that are not posts.
LEMMA MainInv ==
  ASSUME Inv, MainStep
  PROVE  DiskInv' /\ UnsavedInv' /\ MainJobInv' /\ WatcherInv' /\ SavedBeforeKnown'
<1> USE DEF mainVars, postVars, fileVars, serverVars
<1>1. CASE Start
  <2>1. ReportFrom("RUNNING", 1) /\ disk' = "none"
    BY <1>1 DEF Start, MayStart
  <2>2. DiskInv'
    BY <2>1, ReportDisk DEF Before
  <2>3. mainPc' = "report" /\ report' = "RUNNING"
    BY <2>1 DEF ReportFrom
  <2>4. UNCHANGED <<job, disk, unsaved, knownStatus>> /\ mainPc = "start"
    BY <1>1 DEF Start
  <2>5. job[Main] = NoJob /\ job[Watcher] = NoJob
    BY <2>4 DEF Inv, MainJobInv, WatcherInv
  <2> QED BY <2>1, <2>2, <2>3, <2>4, <2>5
          DEF Inv, UnsavedInv, MainJobInv, WatcherInv, SavedBeforeKnown
<1>2. CASE SaveTruncate
  <2>1. mainPc = "report" /\ step = 1
    BY <1>2, Phase DEF SaveTruncate, Inv, TypeOK
  <2>2. /\ disk' = "empty" /\ ReportFrom(report, 2)
        /\ UNCHANGED <<watching, job, unsaved, knownStatus>>
    BY <1>2, <2>1 DEF SaveTruncate
  <2>3. report \in {"RUNNING"} \cup Finals /\ disk \in {"none", "RUNNING", "empty"}
    BY <2>1 DEF Inv, DiskInv, Before, Saved
  <2>4. DiskInv'
    BY <2>2, <2>3, ReportDisk
  <2>5. mainPc' = "report" /\ report' = report
    BY <2>2 DEF ReportFrom
  <2>6. job[Main] = NoJob
    BY <2>1 DEF Inv, MainJobInv
  <2>7. knownStatus \notin Finals
    BY <2>1, <2>3 DEF Inv, UnsavedInv, SavedBeforeKnown, Finals
  <2>8. SavedBeforeKnown' /\ UnsavedInv'
    BY <2>1, <2>2, <2>7 DEF SavedBeforeKnown, UnsavedInv
  <2> QED BY <2>1, <2>2, <2>4, <2>5, <2>6, <2>8 DEF Inv, MainJobInv, WatcherInv
<1>3. CASE SaveWrite
  <2>1. mainPc = "report" /\ step = 2
    BY <1>3, Phase DEF SaveWrite, Inv, TypeOK
  <2>2. /\ disk' = (IF unsaved' THEN "empty" ELSE report) /\ ReportFrom(report, 3)
        /\ UNCHANGED <<watching, job, knownStatus>>
    BY <1>3, <2>1 DEF SaveWrite
  <2>3. report \in {"RUNNING"} \cup Finals /\ disk = "empty"
    BY <2>1 DEF Inv, DiskInv
  <2>4. DiskInv'
    BY <2>2, <2>3, ReportDisk DEF Saved
  <2>5. mainPc' = "report" /\ report' = report
    BY <2>2 DEF ReportFrom
  <2>6. job[Main] = NoJob
    BY <2>1 DEF Inv, MainJobInv
  <2>7. knownStatus \notin Finals
    BY <2>1, <2>3 DEF Inv, UnsavedInv, SavedBeforeKnown, Finals
  <2>8. SavedBeforeKnown' /\ UnsavedInv'
    <3>1. disk' # "none"
      BY <2>2, <2>3, <2>5 DEF Saved, Finals
    <3> QED BY <2>2, <2>7, <3>1 DEF SavedBeforeKnown, UnsavedInv, Saved
  <2> QED BY <2>1, <2>2, <2>4, <2>5, <2>6, <2>8 DEF Inv, MainJobInv, WatcherInv
<1>4. CASE PostStatus
  <2>1. mainPc = "report" /\ step = 3
    BY <1>4, Phase DEF PostStatus, Inv, TypeOK
  <2>2. /\ job'[Main] = Event("status", report) /\ job'[Watcher] = job[Watcher]
        /\ UNCHANGED <<mainPc, report, step, watching, disk, unsaved, knownStatus>>
    BY <1>4, ThreadAssumption DEF PostStatus, Inv, TypeOK
  <2> QED BY <2>1, <2>2 DEF Inv, DiskInv, Before, Saved, UnsavedInv, MainJobInv, WatcherInv,
              SavedBeforeKnown
<1>5. CASE Waited
  <2>1. /\ mainPc = "wait" /\ mainPc' = "stop" /\ report' \in Finals
        /\ UNCHANGED <<watching, job, disk, unsaved, knownStatus>>
    BY <1>5 DEF Waited, Finals
  <2> QED BY <2>1 DEF Inv, DiskInv, Before, Saved, UnsavedInv, MainJobInv, WatcherInv,
              SavedBeforeKnown
<1>6. CASE StopWatcher
  <2>1. /\ mainPc = "stop" /\ mainPc' = "collect" /\ ~watching'
        /\ job[Watcher] = NoJob
        /\ UNCHANGED <<job, report, disk, unsaved, knownStatus>>
    BY <1>6 DEF StopWatcher, WatcherIdle
  <2> QED BY <2>1 DEF Inv, DiskInv, Before, Saved, UnsavedInv, MainJobInv, WatcherInv,
              SavedBeforeKnown
<1>7. ASSUME NEW t \in Tags, CollectFile(t)
      PROVE  DiskInv' /\ UnsavedInv' /\ MainJobInv' /\ WatcherInv' /\ SavedBeforeKnown'
  <2>1. /\ mainPc = "collect" /\ UNCHANGED <<mainPc, report, step, watching, disk, unsaved, knownStatus>>
        /\ ProcessFile(Main, t) /\ job[Main] = NoJob
    BY <1>7 DEF CollectFile
  <2>2. job'[Watcher] = job[Watcher]
    BY <2>1, ThreadAssumption DEF ProcessFile, Inv, TypeOK
  <2>3. job'[Main] = NoJob \/ job'[Main].tag \in Tags
    BY <2>1 DEF ProcessFile, Inv, TypeOK, Event
  <2> QED BY <2>1, <2>2, <2>3
          DEF Inv, DiskInv, Before, Saved, UnsavedInv, MainJobInv, WatcherInv,
              SavedBeforeKnown
<1>8. CASE Collected
  <2>1. /\ mainPc = "collect" /\ job[Main] = NoJob /\ ReportFrom(report, 1)
        /\ UNCHANGED <<watching, job, disk, unsaved, knownStatus>>
    BY <1>8 DEF Collected
  <2>2. report \in Finals /\ Saved("RUNNING") /\ ~watching
    BY <2>1 DEF Inv, DiskInv, WatcherInv
  <2>3. DiskInv'
    BY <2>1, <2>2, ReportDisk DEF Before, Saved, Finals
  <2> QED BY <2>1, <2>2, <2>3 DEF Inv, UnsavedInv, MainJobInv, WatcherInv, SavedBeforeKnown
<1>9. CASE Post(Main)
  BY <1>9, PostInv
<1> QED BY <1>1, <1>2, <1>3, <1>4, <1>5, <1>6, <1>7, <1>8, <1>9 DEF MainStep

LEMMA StepInv == Inv /\ [Next]_vars => Inv'
<1> SUFFICES ASSUME Inv, [Next]_vars
             PROVE  DiskInv' /\ UnsavedInv' /\ MainJobInv' /\ WatcherInv' /\ SavedBeforeKnown'
  BY StepTypes DEF Inv
<1> USE DEF mainVars, postVars, fileVars, serverVars
<1>1. ASSUME UNCHANGED <<mainPc, report, step, watching, job, disk, unsaved>>,
             UNCHANGED knownStatus \/ knownStatus' = "none" \/ ServerChecks
      PROVE  DiskInv' /\ UnsavedInv' /\ MainJobInv' /\ WatcherInv' /\ SavedBeforeKnown'
  <2>1. SavedBeforeKnown'
    <3>1. knownStatus' \in {"none", knownStatus, disk}
      BY <1>1 DEF ServerChecks
    <3> QED BY <1>1, <3>1 DEF Inv, SavedBeforeKnown, Finals
  <2>2. UnsavedInv'
    <3>1. knownStatus' \in {"none", knownStatus, disk}
      BY <1>1 DEF ServerChecks
    <3>2. knownStatus' \in Finals /\ unsaved => knownStatus' = knownStatus
      BY <3>1 DEF Inv, UnsavedInv, Finals
    <3> QED BY <1>1, <3>2 DEF Inv, UnsavedInv
  <2> QED BY <1>1, <2>1, <2>2 DEF Inv, DiskInv, Before, Saved, MainJobInv, WatcherInv
<1>2. ASSUME NEW t \in Tags, NEW content \in Docs \cup {"torn"}, WriteFile(t, content)
      PROVE  DiskInv' /\ UnsavedInv' /\ MainJobInv' /\ WatcherInv' /\ SavedBeforeKnown'
  BY <1>1, <1>2 DEF WriteFile
<1>3. CASE ProgramEnds
  BY <1>1, <1>3 DEF ProgramEnds
<1>4. CASE ServerFails \/ ServerOpens \/ ServerChecks
  BY <1>1, <1>4 DEF ServerFails, ServerOpens, ServerChecks
<1>5. CASE MainStep
  BY <1>5, MainInv
<1>6. CASE Post(Watcher)
  BY <1>6, PostInv
<1>7. ASSUME NEW t \in Tags, FileUpdated(t)
      PROVE  DiskInv' /\ UnsavedInv' /\ MainJobInv' /\ WatcherInv' /\ SavedBeforeKnown'
  <2>1. /\ watching /\ UNCHANGED <<mainPc, report, step, watching, disk, unsaved, knownStatus>>
        /\ ProcessFile(Watcher, t)
    BY <1>7 DEF FileUpdated
  <2>2. job'[Main] = job[Main]
    BY <2>1, ThreadAssumption DEF ProcessFile, Inv, TypeOK
  <2>3. job'[Watcher] = job[Watcher] \/ job'[Watcher].tag \in Tags
    BY <2>1 DEF ProcessFile, Inv, TypeOK, Event
  <2> QED BY <2>1, <2>2, <2>3
          DEF Inv, DiskInv, Before, Saved, UnsavedInv, MainJobInv, WatcherInv,
              SavedBeforeKnown
<1>8. CASE Crash
  <2>1. /\ mainPc' = "crashed" /\ ~watching' /\ UNCHANGED <<disk, unsaved, knownStatus>>
        /\ job'[Main] = NoJob /\ job'[Watcher] = NoJob
    BY <1>8 DEF Crash
  <2> QED BY <2>1 DEF Inv, DiskInv, Before, Saved, UnsavedInv, MainJobInv, WatcherInv,
              SavedBeforeKnown
<1>9. CASE Restart
  <2>1. /\ mainPc \in {"done", "crashed"} /\ mainPc' = "start"
        /\ UNCHANGED <<watching, job, disk, unsaved, knownStatus>>
    BY <1>9 DEF Restart
  <2> QED BY <2>1 DEF Inv, DiskInv, Before, Saved, UnsavedInv, MainJobInv, WatcherInv,
              SavedBeforeKnown
<1>10. CASE UNCHANGED vars
  BY <1>1, <1>10 DEF vars
<1> QED BY <1>2, <1>3, <1>4, <1>5, <1>6, <1>7, <1>8, <1>9, <1>10 DEF Next, WatcherStep

LEMMA InitInv == Init => Inv
<1>1. Init => TypeOK
  BY InitTypes
<1>2. Init => DiskInv /\ UnsavedInv /\ MainJobInv /\ WatcherInv /\ SavedBeforeKnown
  BY DEF Init, DiskInv, UnsavedInv, MainJobInv, WatcherInv, SavedBeforeKnown, Finals
<1> QED BY <1>1, <1>2 DEF Inv

LEMMA Invariance == Spec => []Inv
<1>1. Inv /\ [Next]_vars => Inv'
  BY StepInv
<1> QED BY <1>1, InitInv, PTL DEF Spec

\* The server never knows a status that is not on the disk, or was not there
\* before a later one: both of the reports in programStarted and programFinished
\* save before they post, whenever the server fails, recovers or misses a try.
THEOREM SavedFirst == Spec => []SavedBeforeKnown
<1>1. Inv => SavedBeforeKnown
  BY DEF Inv
<1> QED BY <1>1, Invariance, PTL

\* The watcher's thread posts only while main() is not in collectAll and before
\* the final report: _lastPostedGeneratedFiles needs no lock.
THEOREM OnePosterAtATime == Spec => []OnePoster
<1>1. Inv => OnePoster
  BY DEF Inv, WatcherInv, OnePoster
<1> QED BY <1>1, Invariance, PTL

\* A final status on the disk is never truncated or overwritten, by this run of
\* the executor or by any later one: the next run does not start.
THEOREM FinalKept == Spec => FinalStays
<1>1. Inv /\ [Next]_vars => [(disk \in Finals) => (disk' = disk)]_vars
  <2> SUFFICES ASSUME Inv, Next, disk \in Finals PROVE disk' = disk
    BY DEF vars
  <2> USE DEF mainVars, postVars, fileVars, serverVars
  <2>1. ~SaveTruncate
    <3>1. SaveTruncate => step = 1
      BY Phase DEF SaveTruncate, Inv, TypeOK
    <3> QED BY <3>1 DEF SaveTruncate, Inv, DiskInv, Before, Saved, Finals
  <2>2. ~SaveWrite
    <3>1. SaveWrite => step = 2
      BY Phase DEF SaveWrite, Inv, TypeOK
    <3> QED BY <3>1 DEF SaveWrite, Inv, DiskInv, Finals
  <2>3. \A thr : Post(thr) => disk' = disk
    BY DEF Post, PostSucceeds, PostUnanswered, PostFails
  <2>4. MainStep => disk' = disk
    BY <2>1, <2>2, <2>3
    DEF MainStep, Start, PostStatus, Waited, StopWatcher, CollectFile, Collected
  <2>5. WatcherStep => disk' = disk
    BY <2>3 DEF WatcherStep, FileUpdated
  <2> QED BY <2>4, <2>5
          DEF Next, WriteFile, ProgramEnds, ServerFails, ServerOpens, ServerChecks,
              Crash, Restart
<1> QED BY <1>1, Invariance, PTL DEF Spec, FinalStays

-------------------------------------------------------------------------------
(* What a server that has recovered knows. *)

\* Besides the property itself: nothing is posted before something is saved, and
\* nothing final before the program is over.
KnownInv ==
  /\ StatusRecovered
  /\ disk = "none" => posted = "none"
  /\ mainPc \in {"wait", "stop", "collect"} \/ (mainPc = "report" /\ report = "RUNNING") =>
       Rank(posted) <= 1

LEMMA Ranks ==
  /\ \A s : Rank(s) \in 0..2
  /\ Rank("none") = 0 /\ Rank("RUNNING") = 1
  /\ \A s \in Finals : Rank(s) = 2
BY DEF Rank, Finals

\* Steps that change nothing of what the invariant is about.
LEMMA KnownSame ==
  ASSUME KnownInv, UNCHANGED <<mainPc, report, diskVars, posted, server, knownStatus>>,
         missed => missed'
  PROVE  KnownInv'
BY DEF KnownInv, StatusRecovered, Rank

\* An event has been posted or given up.
LEMMA KnownPosted ==
  ASSUME Inv, KnownInv, NEW thr \in {Main, Watcher}, job[thr] # NoJob,
         Posted(thr, job[thr]), UNCHANGED <<disk, unsaved, server>>, missed => missed',
         IF job[thr].tag = "status"
         THEN knownStatus' = job[thr].doc \/ missed' \/ server # "ready"
         ELSE knownStatus' = knownStatus
  PROVE  KnownInv'
<1>1. CASE job[thr].tag = "status"
  <2>1. thr = Main /\ mainPc = "report" /\ step = 3 /\ job[thr] = Event("status", report)
    BY <1>1, NameAssumption DEF Inv, MainJobInv, WatcherInv
  <2>2. Saved(report) /\ report \in {"RUNNING"} \cup Finals
    BY <2>1 DEF Inv, DiskInv
  <2>3. /\ posted' = report
        /\ mainPc' = (IF report = "RUNNING" THEN "wait" ELSE "done")
    BY <1>1, <2>1 DEF Posted, ReportFrom, Event
  <2>4. knownStatus' = report \/ missed' \/ server' # "ready"
    BY <1>1, <2>1 DEF Event
  <2>5. StatusRecovered'
    <3>1. Rank(report) >= Rank(report)
      BY Ranks
    <3> QED BY <2>3, <2>4, <3>1 DEF StatusRecovered, Rank
  <2>6. disk' # "none"
    BY <2>2 DEF Saved, Finals
  <2>7. mainPc' # "report" /\ (mainPc' \in {"wait", "stop", "collect"} => report = "RUNNING")
    BY <2>3
  <2> QED BY <2>3, <2>5, <2>6, <2>7, Ranks DEF KnownInv, Rank
<1>2. CASE job[thr].tag # "status"
  <2>1. UNCHANGED <<mainPc, report, posted, diskVars, server, knownStatus>>
    BY <1>2 DEF Posted
  <2> QED BY <2>1, KnownSame
<1> QED BY <1>1, <1>2

LEMMA KnownPost ==
  ASSUME Inv, KnownInv, NEW thr \in {Main, Watcher}, Post(thr)
  PROVE  KnownInv'
<1>1. job[thr] # NoJob /\ UNCHANGED <<disk, unsaved, server>>
  BY DEF Post, PostSucceeds, PostUnanswered, PostFails, Receive, serverVars
<1>2. CASE PostSucceeds(thr)
  <2>1. /\ Posted(thr, job[thr]) /\ UNCHANGED missed
        /\ IF job[thr].tag = "status" THEN knownStatus' = job[thr].doc
                                      ELSE knownStatus' = knownStatus
    BY <1>2 DEF PostSucceeds, Receive
  <2> QED BY <1>1, <2>1, KnownPosted
<1>3. CASE PostUnanswered(thr)
  <2>1. /\ Failed(thr) /\ UNCHANGED missed
        /\ IF job[thr].tag = "status" THEN knownStatus' = job[thr].doc
                                      ELSE knownStatus' = knownStatus
    BY <1>3 DEF PostUnanswered, Receive
  <2>2. CASE LastTry(thr)
    BY <1>1, <2>1, <2>2, KnownPosted DEF Failed
  <2>3. CASE ~LastTry(thr)
    <3>1. UNCHANGED <<mainPc, report, posted, diskVars, server>>
      BY <1>1, <2>1, <2>3 DEF Failed
    <3>2. CASE job[thr].tag = "status"
      <4>1. mainPc = "report"
        BY <1>1, <3>2, NameAssumption DEF Inv, MainJobInv, WatcherInv
      <4> QED BY <3>1, <4>1 DEF KnownInv, StatusRecovered, Rank
    <3>3. CASE job[thr].tag # "status"
      BY <2>1, <3>1, <3>3, KnownSame
    <3> QED BY <3>2, <3>3
  <2> QED BY <2>2, <2>3
<1>4. CASE PostFails(thr)
  <2>1. /\ Failed(thr) /\ UNCHANGED knownStatus
        /\ missed' = (missed \/ (LastTry(thr) /\ server # "down"))
    BY <1>4 DEF PostFails, serverVars
  <2>2. CASE LastTry(thr)
    <3>1. missed' \/ server # "ready"
      BY <2>1, <2>2
    <3> QED BY <1>1, <2>1, <2>2, <3>1, KnownPosted DEF Failed
  <2>3. CASE ~LastTry(thr)
    BY <1>1, <2>1, <2>3, KnownSame DEF Failed
  <2> QED BY <2>2, <2>3
<1> QED BY <1>2, <1>3, <1>4 DEF Post

LEMMA KnownMain ==
  ASSUME Inv, KnownInv, MainStep
  PROVE  KnownInv'
<1> USE DEF mainVars, postVars, serverVars
<1>1. CASE Start
  <2>1. /\ mainPc' = "report" /\ disk = "none" /\ UNCHANGED <<disk, posted>>
    BY <1>1 DEF Start, MayStart, ReportFrom
  <2>2. posted' = "none" /\ Rank(posted') <= 1
    BY <2>1, Ranks DEF KnownInv
  <2> QED BY <2>1, <2>2 DEF KnownInv, StatusRecovered, Rank
<1>2. CASE SaveTruncate \/ SaveWrite
  <2>1. mainPc = "report" /\ step \in 1..2
    BY <1>2, Phase DEF SaveTruncate, SaveWrite, Inv, TypeOK
  <2>2. mainPc' = "report" /\ UNCHANGED <<report, posted>>
    BY <1>2, <2>1 DEF SaveTruncate, SaveWrite, ReportFrom
  <2>3. disk' # "none"
    BY <1>2, <2>1 DEF SaveTruncate, SaveWrite, Inv, DiskInv, Finals
  <2> QED BY <2>1, <2>2, <2>3 DEF KnownInv, StatusRecovered, Rank
<1>3. CASE PostStatus \/ \E t \in Tags : CollectFile(t)
  BY <1>3, KnownSame DEF PostStatus, CollectFile, ProcessFile
<1>4. CASE Waited \/ StopWatcher
  <2>1. /\ mainPc \in {"wait", "stop"} /\ mainPc' \in {"stop", "collect"}
        /\ UNCHANGED <<diskVars, posted, server, knownStatus, missed>>
    BY <1>4 DEF Waited, StopWatcher
  <2> QED BY <2>1 DEF KnownInv, StatusRecovered, Rank
<1>5. CASE Collected
  <2>1. /\ mainPc' = "report" /\ report' = report /\ mainPc = "collect"
        /\ UNCHANGED <<disk, posted>>
    BY <1>5 DEF Collected, ReportFrom
  <2>2. report # "RUNNING"
    BY <2>1 DEF Inv, DiskInv, Finals
  <2> QED BY <2>1, <2>2 DEF KnownInv, StatusRecovered, Rank
<1>6. CASE Post(Main)
  BY <1>6, KnownPost
<1> QED BY <1>1, <1>2, <1>3, <1>4, <1>5, <1>6 DEF MainStep

LEMMA StepKnown == Inv /\ KnownInv /\ [Next]_vars => KnownInv'
<1> SUFFICES ASSUME Inv, KnownInv, [Next]_vars PROVE KnownInv'
  OBVIOUS
<1> USE DEF mainVars, postVars, serverVars
<1>1. ASSUME NEW t \in Tags, NEW content \in Docs \cup {"torn"}, WriteFile(t, content)
      PROVE  KnownInv'
  BY <1>1, KnownSame DEF WriteFile
<1>2. CASE ProgramEnds
  BY <1>2, KnownSame DEF ProgramEnds
<1>3. CASE ServerFails \/ ServerOpens
  <2>1. server' # "ready" /\ UNCHANGED <<mainPc, report, disk, posted>>
    BY <1>3 DEF ServerFails, ServerOpens
  <2> QED BY <2>1 DEF KnownInv, StatusRecovered, Rank
<1>4. CASE ServerChecks
  <2>1. /\ UNCHANGED <<mainPc, report, diskVars, posted>>
        /\ knownStatus' = IF Rank(disk) > Rank(knownStatus) THEN disk ELSE knownStatus
    BY <1>4 DEF ServerChecks
  <2>2. Rank(knownStatus') >= Rank(disk)
    BY <2>1, Ranks
  <2>3. mainPc \in {"wait", "stop", "collect"} /\ ~unsaved =>
          Rank(disk) = 1 /\ Rank(posted) <= 1
    BY Ranks DEF Inv, DiskInv, Saved, KnownInv
  <2>4. mainPc = "done" /\ ~unsaved => Rank(disk) = 2
    BY Ranks DEF Inv, DiskInv, Saved
  <2>5. mainPc \in {"wait", "stop", "collect", "done"} /\ ~unsaved => Rank(knownStatus') >= Rank(posted)
    BY <2>2, <2>3, <2>4, Ranks
  <2> QED BY <2>1, <2>5 DEF KnownInv, StatusRecovered, Rank
<1>5. CASE MainStep
  BY <1>5, KnownMain
<1>6. CASE Post(Watcher)
  BY <1>6, KnownPost
<1>7. ASSUME NEW t \in Tags, FileUpdated(t) PROVE KnownInv'
  BY <1>7, KnownSame DEF FileUpdated, ProcessFile
<1>8. CASE Crash \/ Restart
  <2>1. mainPc' \in {"crashed", "start"} /\ UNCHANGED <<disk, posted>>
    BY <1>8 DEF Crash, Restart
  <2> QED BY <2>1 DEF KnownInv, StatusRecovered, Rank
<1>9. CASE UNCHANGED vars
  BY <1>9, KnownSame DEF vars
<1> QED BY <1>1, <1>2, <1>3, <1>4, <1>5, <1>6, <1>7, <1>8, <1>9 DEF Next, WatcherStep

\* A server that has recovered from an outage knows the status that was posted
\* last when the executor goes on after a report, whether it was down during the
\* save, during the tries of _postEvent or in between; unless its last try was lost.
THEOREM StatusComesBack == Spec => []StatusRecovered
<1>1. Init => KnownInv
  BY Ranks DEF Init, KnownInv, StatusRecovered
<1>2. KnownInv => StatusRecovered
  BY DEF KnownInv
<1>3. Init => Inv
  BY InitInv
<1> QED BY <1>1, <1>2, <1>3, StepInv, StepKnown, PTL DEF Spec

-------------------------------------------------------------------------------
(* What a server that has recovered knows of the generated files. *)

\* Main has waited for a program that has ended.
Over == mainPc \in {"stop", "collect", "report", "done"} /\ report = "EXITED"

\* A thread is posting the file t.
Posting(t) == \E thr \in {Main, Watcher} : job[thr] # NoJob /\ job[thr].tag = t

\* Nothing is written into the files any more.
EndedInv == Over => child = "ended"

\* collectAll has posted what is in file t, or is posting it, or comes to it.
FileCollected(t) ==
  /\ mainPc = "collect" =>
       t \in todo \/ lastPosted[t] = files[t] \/ (job[Main] # NoJob /\ job[Main].tag = t)
  /\ mainPc \in {"report", "done"} => lastPosted[t] = files[t]

\* And what it is posting is what is in the file.
CollectInv ==
  Over => /\ \A t \in Tags : files[t] \in Docs => FileCollected(t)
          /\ mainPc = "collect" /\ job[Main] # NoJob => job[Main].doc = files[job[Main].tag]

OutageInv == outages \in Nat /\ (outages = 0 => server = "ready")

\* The server has to know what was posted last of the file t: it has never failed;
\* or the file still holds that document, and has done so since it was posted.
Due(t) ==
  /\ ~missed
  /\ mainPc # "crashed"
  /\ lastPosted[t] # "absent"
  /\ outages = 0 \/ (server = "ready" /\ t \notin reverted /\ files[t] = lastPosted[t])

\* It does, except while the next document of that file is on its way: a try that
\* was not answered may have told the server of that one.
FileKnown(t) == knownFiles[t] = lastPosted[t] \/ Posting(t)

KnowsInv == \A t \in Tags : Due(t) => FileKnown(t)

FilesInv == EndedInv /\ CollectInv /\ OutageInv /\ KnowsInv

LEMMA NoJobAtEnd == Inv /\ mainPc = "done" => \A thr \in {Main, Watcher} : job[thr] = NoJob
BY DEF Inv, MainJobInv, WatcherInv

\* The invariant implies the property: when main is done nothing is on its way,
\* and what collectAll has posted is what is in the files.
LEMMA FilesInvEnough == Inv /\ FilesInv => FilesRecovered
<1> SUFFICES ASSUME Inv, FilesInv, server = "ready", ~missed, mainPc = "done",
                    report = "EXITED", NEW t \in Tags, files[t] \in Docs,
                    outages = 0 \/ t \notin reverted
             PROVE  knownFiles[t] = files[t]
  BY DEF FilesRecovered
<1>1. lastPosted[t] = files[t]
  BY DEF FilesInv, CollectInv, FileCollected, Over
<1>2. Due(t)
  BY <1>1, NameAssumption DEF Due
<1>3. ~Posting(t)
  BY NoJobAtEnd DEF Posting
<1> QED BY <1>1, <1>2, <1>3 DEF FilesInv, KnowsInv, FileKnown

\* Steps after which no more is due, and nothing is forgotten.
LEMMA KnowsSame ==
  ASSUME KnowsInv, UNCHANGED <<lastPosted, knownFiles>>,
         \A t \in Tags : Due(t)' => Due(t),
         \A t \in Tags : Posting(t) => Posting(t)'
  PROVE  KnowsInv'
BY DEF KnowsInv, FileKnown

\* What is due does not depend on where main is, before a crash.
LEMMA DueSame ==
  ASSUME NEW t \in Tags,
         UNCHANGED <<missed, lastPosted, outages, server, reverted, files>>,
         mainPc # "crashed" \/ UNCHANGED mainPc
  PROVE  Due(t)' => Due(t)
BY DEF Due

\* A new job replaces no other.
LEMMA ProcessPosting ==
  ASSUME Inv, NEW thr \in {Main, Watcher}, NEW t \in Tags, job[thr] = NoJob,
         ProcessFile(thr, t)
  PROVE  \A u \in Tags : Posting(u) => Posting(u)'
BY DEF Inv, TypeOK, ProcessFile, Posting

-------------------------------------------------------------------------------
(* Posting, and what is known of the files. *)

\* The end of thr's post of an event that the server knows of, or that is not due.
LEMMA PostedKnows ==
  ASSUME Inv, KnowsInv, NEW thr \in {Main, Watcher}, job[thr] # NoJob,
         Posted(thr, job[thr]),
         UNCHANGED <<outages, server, reverted, files>>, missed => missed',
         \A t \in Tags : job[thr].tag # t => knownFiles'[t] = knownFiles[t],
         \A t \in Tags : job[thr].tag = t => knownFiles'[t] = job[thr].doc \/ ~Due(t)'
  PROVE  KnowsInv'
<1> SUFFICES ASSUME NEW t \in Tags, Due(t)' PROVE FileKnown(t)'
  BY DEF KnowsInv
<1>0. /\ job[thr] \in Events
      /\ job' = [job EXCEPT ![thr] = NoJob]
      /\ \A u \in {Main, Watcher} : u # thr => job'[u] = job[u]
  BY DEF Inv, TypeOK, Posted
<1>1. CASE job[thr].tag = t
  <2>1. t # "status"
    BY NameAssumption
  <2>2. lastPosted'[t] = job[thr].doc
    BY <1>1, <2>1 DEF Posted, Inv, TypeOK
  <2> QED BY <1>1, <2>2 DEF FileKnown
<1>2. CASE job[thr].tag # t
  <2>1. lastPosted'[t] = lastPosted[t]
    BY <1>0, <1>2, EventCases DEF Posted, Inv, TypeOK
  <2>2. mainPc # "crashed"
    <3>1. CASE job[thr].tag = "status"
      BY <3>1, NameAssumption DEF Inv, MainJobInv, WatcherInv
    <3>2. CASE job[thr].tag # "status"
      BY <3>2 DEF Posted, Due
    <3> QED BY <3>1, <3>2
  <2>3. FileKnown(t)
    BY <2>1, <2>2 DEF Due, KnowsInv
  <2>4. Posting(t) => Posting(t)'
    BY <1>0, <1>2 DEF Posting
  <2> QED BY <1>2, <2>1, <2>3, <2>4 DEF FileKnown
<1> QED BY <1>1, <1>2

\* A try that is not the last: whatever the server has got is still being posted.
LEMMA RetryKnows ==
  ASSUME Inv, KnowsInv, NEW thr \in {Main, Watcher}, job[thr] # NoJob,
         Failed(thr), ~LastTry(thr),
         UNCHANGED <<outages, server, reverted, files>>, missed => missed',
         \A t \in Tags : job[thr].tag # t => knownFiles'[t] = knownFiles[t]
  PROVE  KnowsInv'
<1> SUFFICES ASSUME NEW t \in Tags, Due(t)' PROVE FileKnown(t)'
  BY DEF KnowsInv
<1>1. UNCHANGED <<job, lastPosted, mainPc>>
  BY DEF Failed
<1>2. CASE job[thr].tag = t
  BY <1>1, <1>2 DEF FileKnown, Posting
<1>3. CASE job[thr].tag # t
  <2>1. Due(t)
    BY <1>1 DEF Due
  <2>2. FileKnown(t)
    BY <2>1 DEF KnowsInv
  <2> QED BY <1>1, <1>3, <2>2 DEF FileKnown, Posting
<1> QED BY <1>2, <1>3

LEMMA ReceiveFiles ==
  ASSUME Inv, NEW e \in Events, e # NoJob, Receive(e)
  PROVE  /\ UNCHANGED <<server, outages>>
         /\ \A t \in Tags : e.tag # t => knownFiles'[t] = knownFiles[t]
         /\ \A t \in Tags : e.tag = t => knownFiles'[t] = e.doc
BY EventCases, NameAssumption DEF Receive, Inv, TypeOK

LEMMA PostKnows ==
  ASSUME Inv, FilesInv, NEW thr \in {Main, Watcher}, Post(thr)
  PROVE  KnowsInv'
<1> USE DEF fileVars
<1>0. job[thr] # NoJob /\ job[thr] \in Events /\ KnowsInv
  BY DEF Post, PostSucceeds, PostUnanswered, PostFails, Inv, TypeOK, FilesInv
<1>1. CASE PostSucceeds(thr)
  BY <1>0, <1>1, ReceiveFiles, PostedKnows DEF PostSucceeds
<1>2. CASE PostUnanswered(thr)
  <2>1. Receive(job[thr]) /\ Failed(thr) /\ UNCHANGED <<missed, reverted, files>>
    BY <1>2 DEF PostUnanswered
  <2>2. CASE LastTry(thr)
    BY <1>0, <2>1, <2>2, ReceiveFiles, PostedKnows DEF Failed
  <2>3. CASE ~LastTry(thr)
    BY <1>0, <2>1, <2>3, ReceiveFiles, RetryKnows
  <2> QED BY <2>2, <2>3
<1>3. CASE PostFails(thr)
  <2>1. /\ Failed(thr)
        /\ missed' = (missed \/ (LastTry(thr) /\ server # "down"))
        /\ UNCHANGED <<outages, server, knownFiles, reverted, files>>
    BY <1>3 DEF PostFails, serverVars
  <2>2. CASE LastTry(thr)
    <3>1. missed' \/ (server = "down" /\ outages # 0)
      BY <2>1, <2>2 DEF FilesInv, OutageInv
    <3>2. \A t \in Tags : ~Due(t)'
      BY <2>1, <3>1 DEF Due
    <3> QED BY <3>2 DEF KnowsInv
  <2>3. CASE ~LastTry(thr)
    BY <1>0, <2>1, <2>3, RetryKnows
  <2> QED BY <2>2, <2>3
<1> QED BY <1>1, <1>2, <1>3 DEF Post

-------------------------------------------------------------------------------
(* Every step keeps what is known of the files. *)

\* The end of a post of main's in collectAll.
LEMMA CollectPosted ==
  ASSUME Inv, FilesInv, Over, mainPc = "collect", job[Main] # NoJob,
         Posted(Main, job[Main]), UNCHANGED <<todo, files>>
  PROVE  CollectInv'
<1>1. /\ job[Main] \in Events /\ job[Main].tag \in Tags /\ job[Main].tag # "status"
      /\ job'[Main] = NoJob
      /\ UNCHANGED <<mainPc, report>>
      /\ lastPosted' = [lastPosted EXCEPT ![job[Main].tag] = job[Main].doc]
  BY NameAssumption DEF Inv, TypeOK, MainJobInv, Posted
<1>2. ASSUME NEW t \in Tags, files[t] \in Docs PROVE FileCollected(t)'
  <2>1. CASE job[Main].tag = t
    <3>1. job[Main].doc = files[t]
      BY <2>1 DEF FilesInv, CollectInv
    <3> QED BY <1>1, <2>1, <3>1 DEF FileCollected, Inv, TypeOK
  <2>2. CASE job[Main].tag # t
    <3>1. t \in todo \/ lastPosted[t] = files[t]
      BY <1>2, <2>2 DEF FilesInv, CollectInv, FileCollected
    <3>2. lastPosted'[t] = lastPosted[t]
      BY <1>1, <2>2 DEF Inv, TypeOK
    <3> QED BY <1>1, <3>1, <3>2 DEF FileCollected
  <2> QED BY <2>1, <2>2
<1> QED BY <1>1, <1>2 DEF CollectInv

\* A post changes neither the files nor what has been looked at.
LEMMA PostCollect ==
  ASSUME Inv, FilesInv, NEW thr \in {Main, Watcher}, Post(thr)
  PROVE  EndedInv' /\ CollectInv' /\ OutageInv'
<1> USE DEF fileVars, serverVars
<1>1. /\ job[thr] # NoJob
      /\ Posted(thr, job[thr]) \/ UNCHANGED <<job, lastPosted, mainPc, report>>
      /\ UNCHANGED <<todo, child, files, server, outages>>
  BY DEF Post, PostSucceeds, PostUnanswered, PostFails, Failed, Receive
<1>2. OutageInv'
  BY <1>1 DEF FilesInv, OutageInv
<1>3. CASE UNCHANGED <<job, lastPosted, mainPc, report>>
  BY <1>1, <1>2, <1>3 DEF FilesInv, EndedInv, CollectInv, FileCollected, Over
<1>4. CASE Posted(thr, job[thr]) /\ job[thr].tag = "status"
  <2>1. mainPc = "report" /\ step = 3
    BY <1>1, <1>4, NameAssumption DEF Inv, MainJobInv, WatcherInv
  <2>2. mainPc' \in {"wait", "done"} /\ UNCHANGED <<report, lastPosted>>
    BY <1>4, <2>1 DEF Posted, ReportFrom
  <2> QED BY <1>1, <1>2, <2>1, <2>2
          DEF FilesInv, EndedInv, CollectInv, FileCollected, Over
<1>5. CASE Posted(thr, job[thr]) /\ job[thr].tag # "status"
  <2>1. UNCHANGED <<mainPc, report>>
    BY <1>5 DEF Posted
  <2>2. EndedInv'
    BY <1>1, <2>1 DEF FilesInv, EndedInv, Over
  <2>3. CASE thr = Main
    <3>1. mainPc = "collect"
      BY <1>1, <1>5, <2>3, NameAssumption DEF Inv, MainJobInv, Event
    <3>2. CollectInv'
      <4>1. CASE Over
        BY <1>1, <1>5, <2>3, <3>1, <4>1, CollectPosted
      <4>2. CASE ~Over
        BY <2>1, <4>2 DEF CollectInv, Over
      <4> QED BY <4>1, <4>2
    <3> QED BY <1>2, <2>2, <3>2
  <2>4. CASE thr = Watcher
    <3>1. mainPc \in {"stop", "wait"} \/ (mainPc = "report" /\ report = "RUNNING")
      BY <1>1, <2>4 DEF Inv, WatcherInv
    <3>2. CollectInv'
      BY <2>1, <3>1 DEF CollectInv, FileCollected, Over
    <3> QED BY <1>2, <2>2, <3>2
  <2> QED BY <2>3, <2>4
<1> QED BY <1>1, <1>3, <1>4, <1>5

\* The same, of the step of a thread that looks at a file.
LEMMA CollectFileCollect ==
  ASSUME Inv, FilesInv, NEW t \in Tags, CollectFile(t)
  PROVE  CollectInv'
<1>1. /\ mainPc = "collect" /\ job[Main] = NoJob /\ todo' = todo \ {t}
      /\ ProcessFile(Main, t)
      /\ UNCHANGED <<mainPc, report, lastPosted, files>>
  BY DEF CollectFile, ProcessFile, fileVars
<1>2. CASE New(t)
  <2>1. job'[Main] = Event(t, files[t])
    BY <1>1, <1>2 DEF ProcessFile, Inv, TypeOK
  <2>2. job'[Main] # NoJob /\ job'[Main].tag = t /\ job'[Main].doc = files[t]
    BY <1>2, <2>1, NameAssumption DEF New, Event, NoJob
  <2> QED BY <1>1, <2>2 DEF FilesInv, CollectInv, FileCollected, Over
<1>3. CASE ~New(t)
  <2>1. job' = job
    BY <1>1, <1>3 DEF ProcessFile
  <2>2. files[t] \in Docs => lastPosted[t] = files[t]
    BY <1>3 DEF New
  <2> QED BY <1>1, <2>1, <2>2 DEF FilesInv, CollectInv, FileCollected, Over
<1> QED BY <1>2, <1>3

\* Steps of main() that neither post nor look at a file.
LEMMA MainFiles ==
  ASSUME Inv, FilesInv,
         \/ Start \/ SaveTruncate \/ SaveWrite \/ PostStatus \/ Waited \/ StopWatcher
         \/ Collected
  PROVE  FilesInv'
<1> USE DEF mainVars, postVars, fileVars, serverVars
<1>0. UNCHANGED <<lastPosted, knownFiles, missed, outages, server, reverted, files>>
  BY DEF Start, SaveTruncate, SaveWrite, PostStatus, Waited, StopWatcher, Collected
<1>1. mainPc # "crashed"
  BY DEF Start, SaveTruncate, SaveWrite, PostStatus, Waited, StopWatcher, Collected
<1>2. \A t \in Tags : Posting(t) => Posting(t)'
  <2>1. CASE PostStatus
    <3>1. /\ job[Main] = NoJob
          /\ job'[Main] # NoJob /\ job'[Watcher] = job[Watcher]
      BY <2>1, ThreadAssumption, NameAssumption
      DEF PostStatus, Inv, TypeOK, Event, NoJob
    <3> QED BY <3>1 DEF Posting
  <2>2. CASE ~PostStatus
    <3>1. job' = job
      BY <2>2 DEF Start, SaveTruncate, SaveWrite, Waited, StopWatcher, Collected
    <3> QED BY <3>1 DEF Posting
  <2> QED BY <2>1, <2>2
<1>3. KnowsInv'
  <2>1. \A t \in Tags : Due(t)' => Due(t)
    BY <1>0, <1>1, DueSame
  <2> QED BY <1>0, <1>2, <2>1, KnowsSame DEF FilesInv
<1>4. OutageInv'
  BY <1>0 DEF FilesInv, OutageInv
<1>5. EndedInv' /\ CollectInv'
  <2>1. CASE Start
    <3>1. mainPc' = "report" /\ report' = "RUNNING"
      BY <2>1 DEF Start, ReportFrom
    <3> QED BY <3>1 DEF EndedInv, CollectInv, Over
  <2>2. CASE SaveTruncate \/ SaveWrite
    <3>1. step \in 1..2 /\ mainPc = "report"
      BY <2>2, Phase DEF SaveTruncate, SaveWrite, Inv, TypeOK
    <3>2. mainPc' = "report" /\ UNCHANGED <<report, child>>
      BY <2>2, <3>1 DEF SaveTruncate, SaveWrite, ReportFrom
    <3> QED BY <1>0, <3>1, <3>2 DEF FilesInv, EndedInv, CollectInv, FileCollected, Over
  <2>3. CASE PostStatus
    <3>1. mainPc = "report" /\ UNCHANGED <<mainPc, report, child>>
      BY <2>3 DEF PostStatus
    <3> QED BY <1>0, <3>1 DEF FilesInv, EndedInv, CollectInv, FileCollected, Over
  <2>4. CASE Waited
    <3>1. mainPc' = "stop" /\ (report' = "EXITED" => child' = "ended")
      BY <2>4 DEF Waited
    <3> QED BY <3>1 DEF EndedInv, CollectInv, FileCollected, Over
  <2>5. CASE StopWatcher
    <3>1. /\ mainPc = "stop" /\ mainPc' = "collect" /\ todo' = Tags
          /\ UNCHANGED <<report, child, job>>
      BY <2>5 DEF StopWatcher
    <3>2. job[Main] = NoJob
      BY <3>1 DEF Inv, MainJobInv
    <3> QED BY <3>1, <3>2 DEF FilesInv, EndedInv, CollectInv, FileCollected, Over
  <2>6. CASE Collected
    <3>1. /\ mainPc = "collect" /\ mainPc' = "report" /\ todo = {} /\ job[Main] = NoJob
          /\ UNCHANGED <<report, child>>
      BY <2>6 DEF Collected, ReportFrom
    <3> QED BY <1>0, <3>1 DEF FilesInv, EndedInv, CollectInv, FileCollected, Over
  <2> QED BY <2>1, <2>2, <2>3, <2>4, <2>5, <2>6
<1> QED BY <1>3, <1>4, <1>5 DEF FilesInv

\* A thread looks at a file.
LEMMA LookFiles ==
  ASSUME Inv, FilesInv, NEW t \in Tags, CollectFile(t) \/ FileUpdated(t)
  PROVE  FilesInv'
<1> USE DEF mainVars, postVars, fileVars, serverVars
<1>1. /\ UNCHANGED <<mainPc, report, child, lastPosted, knownFiles, missed, outages,
                     server, reverted, files>>
      /\ \E thr \in {Main, Watcher} : job[thr] = NoJob /\ ProcessFile(thr, t)
  BY DEF CollectFile, FileUpdated, ProcessFile
<1>2. KnowsInv'
  <2>1. \A u \in Tags : Posting(u) => Posting(u)'
    BY <1>1, ProcessPosting
  <2>2. \A u \in Tags : Due(u)' => Due(u)
    BY <1>1, DueSame
  <2> QED BY <1>1, <2>1, <2>2, KnowsSame DEF FilesInv
<1>3. EndedInv' /\ OutageInv'
  BY <1>1 DEF FilesInv, EndedInv, OutageInv, Over
<1>4. CollectInv'
  <2>1. CASE CollectFile(t)
    BY <2>1, CollectFileCollect
  <2>2. CASE FileUpdated(t)
    <3>1. mainPc \in {"stop", "wait"} \/ (mainPc = "report" /\ report = "RUNNING")
      BY <2>2 DEF FileUpdated, Inv, WatcherInv
    <3> QED BY <1>1, <3>1 DEF CollectInv, FileCollected, Over
  <2> QED BY <2>1, <2>2
<1> QED BY <1>2, <1>3, <1>4 DEF FilesInv

LEMMA ServerFiles ==
  ASSUME Inv, FilesInv, ServerFails \/ ServerOpens \/ ServerChecks
  PROVE  FilesInv'
<1> USE DEF mainVars, postVars, fileVars
<1>1. UNCHANGED <<mainPc, report, todo, child, job, lastPosted, missed, reverted, files>>
  BY DEF ServerFails, ServerOpens, ServerChecks
<1>2. EndedInv' /\ CollectInv'
  BY <1>1 DEF FilesInv, EndedInv, CollectInv, FileCollected, Over
<1>3. outages' \in Nat /\ outages' # 0
  <2>1. CASE ServerFails
    BY <2>1 DEF ServerFails, FilesInv, OutageInv
  <2>2. CASE ServerOpens \/ ServerChecks
    BY <2>2 DEF ServerOpens, ServerChecks, FilesInv, OutageInv
  <2> QED BY <2>1, <2>2
<1>4. KnowsInv'
  <2>1. CASE ServerFails \/ ServerOpens
    <3>1. server' # "ready"
      BY <2>1 DEF ServerFails, ServerOpens
    <3> QED BY <1>3, <3>1 DEF KnowsInv, Due
  <2>2. CASE ServerChecks
    <3> SUFFICES ASSUME NEW t \in Tags, Due(t)' PROVE FileKnown(t)'
      BY DEF KnowsInv
    <3>1. files[t] = lastPosted[t] /\ lastPosted[t] # "absent"
      BY <1>1, <1>3 DEF Due
    <3>2. files[t] \in Docs
      BY <3>1 DEF Inv, TypeOK
    <3>3. knownFiles'[t] = files[t]
      BY <2>2, <3>2 DEF ServerChecks
    <3> QED BY <1>1, <3>1, <3>3 DEF FileKnown
  <2> QED BY <2>1, <2>2
<1> QED BY <1>2, <1>3, <1>4 DEF FilesInv, OutageInv

\* The program writes a file.  What it writes is not what was posted last, or it
\* is written back.
LEMMA WriteFiles ==
  ASSUME Inv, FilesInv, NEW t \in Tags, NEW content \in Docs \cup {"torn"},
         WriteFile(t, content)
  PROVE  FilesInv'
<1> USE DEF mainVars, postVars, serverVars
<1>1. /\ child = "alive" /\ files' = [files EXCEPT ![t] = content]
      /\ UNCHANGED <<mainPc, report, child, job, lastPosted, knownFiles, missed,
                     outages, server>>
  BY DEF WriteFile
<1>2. ~Over /\ ~Over'
  BY <1>1 DEF FilesInv, EndedInv, Over
<1>3. \A u \in Tags : Due(u)' => Due(u)
  <2> SUFFICES ASSUME NEW u \in Tags, Due(u)' PROVE Due(u)
    OBVIOUS
  <2>1. CASE u = t
    <3>1. content = lastPosted[t] => t \in reverted'
      BY DEF WriteFile
    <3>2. files'[t] = content
      BY <1>1 DEF Inv, TypeOK
    <3> QED BY <1>1, <2>1, <3>1, <3>2 DEF Due
  <2>2. CASE u # t
    <3>1. files'[u] = files[u]
      BY <1>1, <2>2 DEF Inv, TypeOK
    <3>2. u \notin reverted' => u \notin reverted
      BY DEF WriteFile
    <3> QED BY <1>1, <3>1, <3>2 DEF Due
  <2> QED BY <2>1, <2>2
<1>4. KnowsInv'
  <2>1. \A u \in Tags : Posting(u) => Posting(u)'
    BY <1>1 DEF Posting
  <2> QED BY <1>1, <1>3, <2>1, KnowsSame DEF FilesInv
<1>5. EndedInv' /\ CollectInv' /\ OutageInv'
  BY <1>1, <1>2 DEF FilesInv, EndedInv, CollectInv, OutageInv
<1> QED BY <1>4, <1>5 DEF FilesInv

LEMMA StepFiles == Inv /\ FilesInv /\ [Next]_vars => FilesInv'
<1> SUFFICES ASSUME Inv, FilesInv, [Next]_vars PROVE FilesInv'
  OBVIOUS
<1> USE DEF mainVars, postVars, fileVars, serverVars
<1>1. ASSUME NEW t \in Tags, NEW content \in Docs \cup {"torn"}, WriteFile(t, content)
      PROVE  FilesInv'
  BY <1>1, WriteFiles
<1>2. ASSUME UNCHANGED <<mainVars, job, lastPosted, missed, files, reverted, serverVars>>,
             child = child' \/ child' = "ended"
      PROVE  FilesInv'
  BY <1>2 DEF FilesInv, EndedInv, CollectInv, OutageInv, KnowsInv, FileCollected, Over,
              Due, FileKnown, Posting
<1>3. CASE ProgramEnds
  BY <1>2, <1>3 DEF ProgramEnds
<1>4. CASE ServerFails \/ ServerOpens \/ ServerChecks
  BY <1>4, ServerFiles
<1>5. ASSUME NEW thr \in {Main, Watcher}, Post(thr) PROVE FilesInv'
  BY <1>5, PostKnows, PostCollect DEF FilesInv
<1>6. CASE MainStep
  BY <1>5, <1>6, MainFiles, LookFiles DEF MainStep
<1>7. CASE WatcherStep
  BY <1>5, <1>7, LookFiles DEF WatcherStep
<1>8. CASE Crash
  <2>1. mainPc' = "crashed" /\ UNCHANGED <<outages, server>>
    BY <1>8 DEF Crash
  <2> QED BY <2>1 DEF FilesInv, EndedInv, CollectInv, OutageInv, KnowsInv, Over, Due
<1>9. CASE Restart
  <2>1. /\ mainPc' = "start" /\ lastPosted' = [t \in Tags |-> "absent"]
        /\ UNCHANGED <<outages, server>>
    BY <1>9 DEF Restart, Begin
  <2> QED BY <2>1 DEF FilesInv, EndedInv, CollectInv, OutageInv, KnowsInv, Over, Due
<1>10. CASE UNCHANGED vars
  BY <1>2, <1>10 DEF vars
<1> QED BY <1>1, <1>3, <1>4, <1>6, <1>7, <1>8, <1>9, <1>10 DEF Next

LEMMA InitFiles == Init => FilesInv
<1> SUFFICES ASSUME Init PROVE FilesInv
  OBVIOUS
<1>1. EndedInv /\ CollectInv /\ OutageInv
  BY DEF Init, EndedInv, CollectInv, OutageInv, Over
<1>2. KnowsInv
  BY DEF Init, KnowsInv, Due
<1> QED BY <1>1, <1>2 DEF FilesInv

\* When the executor is done with a program that has ended, a server that is up
\* knows what the program left in each file, through collectAll's last posts, or
\* from the disk after an outage: for any number of files, rewrites, retries,
\* outages and restarts; unless the network lost the last try of an event, or the
\* file was written back to what had been posted last while the server was down.
THEOREM FilesComeBack == Spec => []FilesRecovered
<1> QED BY InitInv, InitFiles, StepInv, StepFiles, FilesInvEnough, PTL DEF Spec

===============================================================================
