--------------------------- MODULE PersistAndCallback ---------------------------
(***************************************************************************)
(* What others learn of the program: the status file, the callbacks with   *)
(* their retries (src/src/PersistAndCallbackManager.cpp), the watcher that *)
(* posts the files the program generates                                   *)
(* (src/src/GeneratedFilesWatcher.cpp), and the order in which             *)
(* src/src/main.cpp uses both.                                             *)
(*                                                                         *)
(* The callback server is not part of the repository.  It is modelled as   *)
(* src/src/PersistAndCallbackManager.h requires it to be: when launched    *)
(* from scratch it first opens its HTTP server, then checks the files on   *)
(* the disk.  The status file, the callback URI and the watching of        *)
(* generated files are all configured.                                     *)
(***************************************************************************)
EXTENDS Integers

CONSTANTS
  Main, Watcher,  \* the threads that post
  Tags,           \* the generated files that are watched
  Docs,           \* the documents that the program writes into them
  MaxRetry,       \* _maxRetry
  MaxWrites,      \* bound on the times that the program writes into a file
  MaxOutages,     \* bound on the failures of the callback server
  Faults          \* what may go wrong: "request", "response", "save", "crash", "kill"

ASSUME ThreadAssumption == Main # Watcher
ASSUME NameAssumption ==
  "status" \notin Tags /\ Docs \cap {"absent", "torn"} = {}
ASSUME RetryAssumption == MaxRetry \in Nat

VARIABLES
  mainPc,      \* where main() is
  report,      \* the status that it reports
  step,        \* how far it has got with that
  todo,        \* the files that collectAll has not looked at yet
  watching,    \* whether the watcher runs
  job,         \* the event that each thread is posting
  tries,       \* how often it has tried before
  lastPosted,  \* _lastPostedGeneratedFiles
  child,       \* the program: "none", "alive" or "ended"
  disk,        \* the status file: "none", "empty" (or cut short) or a status
  files,       \* the generated files: "absent", "torn" or a document
  pending,     \* the files with a change that the watcher is not told of yet
  server,      \* the callback server: "down", "open" (not checked yet), "ready"
  knownStatus, \* the status that it knows
  knownFiles,  \* the documents that it knows
  unsaved,     \* history: whether the last save of a status failed
  posted,      \* history: the last status that was posted, or given up
  missed,      \* history: whether an event was given up with the server running
  reverted,    \* history: the files that were written back to what was posted last
  writes, outages  \* counters of what is bounded

mainVars == <<mainPc, report, step, todo>>
diskVars == <<disk, unsaved>>
postVars == <<job, tries, lastPosted, posted, missed>>
fileVars == <<files, pending, writes, reverted>>
serverVars == <<server, knownStatus, knownFiles, outages>>
vars == <<mainVars, watching, postVars, child, diskVars, fileVars, serverVars>>

Finals == {"EXITED", "CANNOT_KILL"}
Rank(s) == IF s \in Finals THEN 2 ELSE IF s = "RUNNING" THEN 1 ELSE 0

Event(tag, doc) == [tag |-> tag, doc |-> doc]
NoJob == Event("none", "absent")

-------------------------------------------------------------------------------
(* The program and its files. *)

\* The program writes a file: it is truncated first, and complete later.
WriteFile(t, content) ==
  /\ child = "alive"
  /\ writes < MaxWrites
  /\ content \in Docs \cup {"torn"}
  /\ files' = [files EXCEPT ![t] = content]
  /\ pending' = IF watching THEN pending \cup {t} ELSE pending
  /\ writes' = writes + 1
  /\ reverted' = IF content = lastPosted[t] THEN reverted \cup {t} ELSE reverted
  /\ UNCHANGED <<mainVars, watching, postVars, child, diskVars, serverVars>>

ProgramEnds ==
  /\ child = "alive"
  /\ child' = "ended"
  /\ UNCHANGED <<mainVars, watching, postVars, diskVars, fileVars, serverVars>>

-------------------------------------------------------------------------------
(* The callback server. *)

\* It fails, and forgets what it knew.
ServerFails ==
  /\ server # "down"
  /\ outages < MaxOutages
  /\ server' = "down"
  /\ outages' = outages + 1
  /\ knownStatus' = "none"
  /\ knownFiles' = [t \in Tags |-> "absent"]
  /\ UNCHANGED <<mainVars, watching, postVars, child, diskVars, fileVars>>

ServerOpens ==
  /\ server = "down"
  /\ server' = "open"
  /\ UNCHANGED <<mainVars, watching, postVars, child, diskVars, fileVars,
                 knownStatus, knownFiles, outages>>

\* It checks the files on the disk.
ServerChecks ==
  /\ server = "open"
  /\ server' = "ready"
  /\ knownStatus' = IF Rank(disk) > Rank(knownStatus) THEN disk ELSE knownStatus
  /\ knownFiles' = [t \in Tags |-> IF files[t] \in Docs THEN files[t] ELSE knownFiles[t]]
  /\ UNCHANGED <<mainVars, watching, postVars, child, diskVars, fileVars, outages>>

\* It is told of an event.
Receive(e) ==
  /\ server # "down"
  /\ IF e.tag = "status"
     THEN knownStatus' = e.doc /\ UNCHANGED knownFiles
     ELSE knownFiles' = [knownFiles EXCEPT ![e.tag] = e.doc] /\ UNCHANGED knownStatus
  /\ UNCHANGED <<server, outages>>

-------------------------------------------------------------------------------
(* Reporting a status, in programStarted and programFinished. *)

\* Fault: the status is posted before it is saved.
PostFirst == <<"post", "truncate", "write">>

\* The steps of a report.
Phases == <<"truncate", "write", "post">>

\* Main goes on with the report of s.
ReportFrom(s, n) ==
  IF n <= 3
  THEN mainPc' = "report" /\ report' = s /\ step' = n
  ELSE mainPc' = (IF s = "RUNNING" THEN "wait" ELSE "done") /\ UNCHANGED <<report, step>>

\* saveFile opens the file, which truncates it.
SaveTruncate ==
  /\ mainPc = "report" /\ Phases[step] = "truncate"
  /\ disk' = "empty"
  /\ ReportFrom(report, step + 1)
  /\ UNCHANGED <<todo, watching, postVars, child, unsaved, fileVars, serverVars>>

\* saveFile writes and closes the file, and does not look at the stream: after a
\* failure (a full disk), main() goes on as if the status were there.
SaveWrite ==
  /\ mainPc = "report" /\ Phases[step] = "write"
  /\ unsaved' \in BOOLEAN /\ (unsaved' => "save" \in Faults)
  /\ disk' = IF unsaved' THEN "empty" ELSE report
  /\ ReportFrom(report, step + 1)
  /\ UNCHANGED <<todo, watching, postVars, child, fileVars, serverVars>>

PostStatus ==
  /\ mainPc = "report" /\ Phases[step] = "post"
  /\ job[Main] = NoJob
  /\ job' = [job EXCEPT ![Main] = Event("status", report)]
  /\ UNCHANGED <<mainVars, watching, tries, lastPosted, posted, missed, child,
                 diskVars, fileVars, serverVars>>

-------------------------------------------------------------------------------
(* Posting: _postEvent. *)

\* What follows when thread thr has posted e, or given up.  A document counts as
\* posted in both cases.
Posted(thr, e) ==
  /\ job' = [job EXCEPT ![thr] = NoJob]
  /\ tries' = [tries EXCEPT ![thr] = 0]
  /\ IF e.tag = "status"
     THEN /\ ReportFrom(report, step + 1)
          /\ posted' = e.doc
          /\ UNCHANGED lastPosted
     ELSE /\ lastPosted' = [lastPosted EXCEPT ![e.tag] = e.doc]
          /\ UNCHANGED <<mainPc, report, step, posted>>

\* Fault: there is no end of the retries.
NeverLastTry(thr) == FALSE

LastTry(thr) == tries[thr] >= MaxRetry

\* The server answers 200.
PostSucceeds(thr) ==
  /\ job[thr] # NoJob
  /\ Receive(job[thr])
  /\ Posted(thr, job[thr])
  /\ UNCHANGED <<todo, watching, missed, child, diskVars, fileVars>>

\* Fault: the tries are not counted.
FailedUncounted(thr) ==
  IF LastTry(thr)
  THEN Posted(thr, job[thr])
  ELSE UNCHANGED <<tries, job, lastPosted, mainPc, report, step, posted>>

\* What an unsuccessful try leads to.
Failed(thr) ==
  IF LastTry(thr)
  THEN Posted(thr, job[thr])
  ELSE /\ tries' = [tries EXCEPT ![thr] = @ + 1]
       /\ UNCHANGED <<job, lastPosted, mainPc, report, step, posted>>

\* The server has got the event, but its answer is lost or too late.
PostUnanswered(thr) ==
  /\ job[thr] # NoJob
  /\ "response" \in Faults
  /\ Receive(job[thr])
  /\ Failed(thr)
  /\ UNCHANGED <<todo, watching, missed, child, diskVars, fileVars>>

\* The event does not reach the server.
PostFails(thr) ==
  /\ job[thr] # NoJob
  /\ server = "down" \/ "request" \in Faults
  /\ Failed(thr)
  /\ missed' = (missed \/ (LastTry(thr) /\ server # "down"))
  /\ UNCHANGED <<todo, watching, child, diskVars, fileVars, serverVars>>

Post(thr) == PostSucceeds(thr) \/ PostUnanswered(thr) \/ PostFails(thr)

-------------------------------------------------------------------------------
(* The watcher. *)

\* Fault: a document is posted once, whatever follows it.
NewFile(t) == lastPosted[t] = "absent"

\* Whether fileGenerated has something to post of a file that could be parsed.
New(t) == files[t] \in Docs /\ lastPosted[t] # files[t]

\* fileGenerated, called by thread thr with what is in the file now.
ProcessFile(thr, t) ==
  /\ job' = IF New(t) THEN [job EXCEPT ![thr] = Event(t, files[t])] ELSE job
  /\ UNCHANGED <<tries, lastPosted, posted, missed>>

\* The watcher's thread is told of a change of a file.
FileUpdated(t) ==
  /\ watching
  /\ job[Watcher] = NoJob
  /\ t \in pending
  /\ pending' = pending \ {t}
  /\ ProcessFile(Watcher, t)
  /\ UNCHANGED <<mainVars, watching, child, diskVars, files, writes, reverted, serverVars>>

-------------------------------------------------------------------------------
(* main(). *)

\* Fault: an existing status file does not matter.
MayStartAlways == TRUE

\* The executor refuses to run if the status file exists.
MayStart == disk = "none"

\* The watcher, the program and the report of RUNNING.
Start ==
  /\ mainPc = "start"
  /\ MayStart
  /\ watching' = TRUE
  /\ child' = "alive"
  /\ ReportFrom("RUNNING", 1)
  /\ UNCHANGED <<todo, postVars, diskVars, fileVars, serverVars>>

\* executor.wait() returns: the program has ended, or cannot be killed.
Waited ==
  /\ mainPc = "wait"
  /\ child = "ended" \/ "kill" \in Faults
  /\ report' = IF child = "ended" THEN "EXITED" ELSE "CANNOT_KILL"
  /\ mainPc' = "stop"
  /\ UNCHANGED <<step, todo, watching, postVars, child, diskVars, fileVars,
                 serverVars>>

\* Fault: the watcher's thread is not waited for.
WatcherBusyToo == TRUE

\* The watcher's thread has finished what it was told of.
WatcherIdle == job[Watcher] = NoJob

\* GeneratedFilesWatcher::stop, which waits for the thread; changes that it was
\* not told of are dropped.
StopWatcher ==
  /\ mainPc = "stop"
  /\ WatcherIdle
  /\ watching' = FALSE
  /\ pending' = {}
  /\ todo' = Tags
  /\ mainPc' = "collect"
  /\ UNCHANGED <<report, step, postVars, child, diskVars, files, writes, reverted, serverVars>>

\* GeneratedFilesWatcher::collectAll, for one file.
CollectFile(t) ==
  /\ mainPc = "collect"
  /\ job[Main] = NoJob
  /\ t \in todo
  /\ todo' = todo \ {t}
  /\ ProcessFile(Main, t)
  /\ UNCHANGED <<mainPc, report, step, watching, child, diskVars, fileVars, serverVars>>

\* All files are collected: programFinished.
Collected ==
  /\ mainPc = "collect"
  /\ job[Main] = NoJob
  /\ todo = {}
  /\ ReportFrom(report, 1)
  /\ UNCHANGED <<todo, watching, postVars, child, diskVars, fileVars, serverVars>>

\* What an executor knows when it begins.
Begin ==
  /\ report' = "none"
  /\ step' = 1
  /\ todo' = {}
  /\ tries' = [thr \in {Main, Watcher} |-> 0]
  /\ lastPosted' = [t \in Tags |-> "absent"]
  /\ reverted' = {}

\* The executor is killed, or its node fails: what it knew is gone.
Crash ==
  /\ "crash" \in Faults
  /\ mainPc \notin {"start", "done", "crashed"}
  /\ mainPc' = "crashed"
  /\ Begin
  /\ watching' = FALSE
  /\ pending' = {}
  /\ job' = [thr \in {Main, Watcher} |-> NoJob]
  /\ child' = "none"
  /\ UNCHANGED <<posted, missed, diskVars, files, writes, serverVars>>

\* The executor is started again with the same status file.
Restart ==
  /\ mainPc \in {"done", "crashed"}
  /\ mainPc' = "start"
  /\ Begin
  /\ child' = "none"
  /\ UNCHANGED <<watching, job, posted, missed, diskVars, files, pending, writes,
                 serverVars>>

-------------------------------------------------------------------------------
Init ==
  /\ mainPc = "start"
  /\ report = "none"
  /\ step = 1
  /\ todo = {}
  /\ watching = FALSE
  /\ job = [thr \in {Main, Watcher} |-> NoJob]
  /\ tries = [thr \in {Main, Watcher} |-> 0]
  /\ lastPosted = [t \in Tags |-> "absent"]
  /\ child = "none"
  /\ disk = "none"
  /\ unsaved = FALSE
  /\ files = [t \in Tags |-> "absent"]
  /\ pending = {}
  /\ server = "ready"
  /\ knownStatus = "none"
  /\ knownFiles = [t \in Tags |-> "absent"]
  /\ posted = "none"
  /\ missed = FALSE
  /\ reverted = {}
  /\ writes = 0
  /\ outages = 0

MainStep ==
  \/ Start \/ SaveTruncate \/ SaveWrite \/ PostStatus \/ Waited \/ StopWatcher
  \/ \E t \in Tags : CollectFile(t)
  \/ Collected
  \/ Post(Main)

WatcherStep == Post(Watcher) \/ \E t \in Tags : FileUpdated(t)

Next ==
  \/ \E t \in Tags : \E content \in Docs \cup {"torn"} : WriteFile(t, content)
  \/ ProgramEnds
  \/ ServerFails \/ ServerOpens \/ ServerChecks
  \/ MainStep \/ WatcherStep
  \/ Crash \/ Restart

Spec == Init /\ [][Next]_vars

\* The threads of the executor go on; the program, the server and the network
\* owe nothing.
Fairness == WF_vars(MainStep) /\ WF_vars(WatcherStep)

FairSpec == Spec /\ Fairness

-------------------------------------------------------------------------------
(* Properties. *)

Statuses == {"none", "RUNNING"} \cup Finals
Contents == Docs \cup {"absent", "torn"}
Events ==
  {NoJob} \cup [tag : Tags, doc : Docs] \cup [tag : {"status"}, doc : Statuses]

\* Type invariant.
TypeOK ==
  /\ mainPc \in {"start", "report", "wait", "stop", "collect", "done", "crashed"}
  /\ report \in Statuses
  /\ step \in 1..3
  /\ todo \subseteq Tags
  /\ watching \in BOOLEAN
  /\ job \in [{Main, Watcher} -> Events]
  /\ tries \in [{Main, Watcher} -> 0..MaxRetry]
  /\ lastPosted \in [Tags -> Docs \cup {"absent"}]
  /\ child \in {"none", "alive", "ended"}
  /\ disk \in Statuses \cup {"empty"}
  /\ unsaved \in BOOLEAN
  /\ files \in [Tags -> Contents]
  /\ pending \subseteq Tags
  /\ server \in {"down", "open", "ready"}
  /\ knownStatus \in Statuses
  /\ knownFiles \in [Tags -> Docs \cup {"absent"}]
  /\ posted \in Statuses
  /\ missed \in BOOLEAN
  /\ reverted \subseteq Tags

\* The server never knows a status that a reader of the disk could not know: not
\* even if the executor fails before, between or after its tries.  Only a save
\* that failed without a word makes an exception.
SavedBeforeKnown ==
  /\ knownStatus \in Finals /\ ~unsaved => disk = knownStatus
  /\ knownStatus = "RUNNING" => disk # "none"

\* A server that has recovered knows the status that the executor has reported
\* when the executor goes on, whether it was down during the save, during all
\* tries, or in between; unless the network loses the last try, or the status
\* could not be written.
StatusRecovered ==
  /\ server = "ready" /\ ~missed /\ ~unsaved
  /\ mainPc \in {"wait", "stop", "collect", "done"}
  => Rank(knownStatus) >= Rank(posted)

\* When the executor is done with a program that has ended, a server that is up
\* knows what is in the files in the end, however often they were rewritten and
\* whatever was posted of them before; after an outage of the server, this needs
\* that a file was not written back to what had been posted of it last.
FilesRecovered ==
  server = "ready" /\ ~missed /\ mainPc = "done" /\ report = "EXITED" =>
    \A t \in Tags :
      files[t] \in Docs /\ (outages = 0 \/ t \notin reverted) => knownFiles[t] = files[t]

\* Files are posted by one thread at a time, and none after the final status: the
\* watcher's thread and collectAll share _lastPostedGeneratedFiles without a lock.
OnePoster ==
  job[Watcher] # NoJob =>
    mainPc \in {"report", "wait", "stop"} /\ (mainPc = "report" => report = "RUNNING")

\* A final status stays on the disk, also when the executor is started again.
FinalStays == [][(disk \in Finals) => (disk' = disk)]_vars

\* Whatever the server and the network do, the executor gets to its end after the
\* program has ended: callbacks are given up.
ReportsEnd == child = "ended" ~> mainPc \in {"done", "crashed"}

\* "By doing this, we can ensure the API server can get the missing events back
\* when it is recovered form a previous shutdown" (PersistAndCallbackManager.h).
MissingEventsBack ==
  server = "ready" /\ ~missed => Rank(knownStatus) >= Rank(posted)

===============================================================================
