------------------------------ MODULE KillHandler ------------------------------
(***************************************************************************)
(* The answer to a request for /_kill (KillHandler of                      *)
(* src/src/WebServerFactory.cpp): some of the threads that call kill() are *)
(* threads of the HTTP server, which read the status of the executor up to *)
(* six times after kill() has returned, each time without the mutex.       *)
(***************************************************************************)
EXTENDS ProgramExecutor

CONSTANT Handlers \* the killers that answer a request

ASSUME HandlersAssumption == Handlers \subseteq Killers

VARIABLES
  reading, \* which of its reads each handler makes next
  answer,  \* what it has answered
  early    \* history: the handlers whose kill() found that nothing was started

handlerVars == <<reading, answer, early>>

\* Fault: one of the tests is forgotten.
TestsButOne == <<"EXITED", "CANNOT_KILL", "CANNOT_KILL">>

\* The statuses that the first three reads are compared with; the next two tell
\* the kinds apart, and the last is that of exitCode(), for either kind.
Tests == <<"EXITED", "SIGNALLED", "CANNOT_KILL">>
ReadKind == 4
ReadSignalled == 5
ReadCode == [exited |-> 6, signalled |-> 7]
Answered == 8

Answer(kind, value) == [kind |-> kind, value |-> value]

Reply(k, kind, value) ==
  /\ reading' = [reading EXCEPT ![k] = Answered]
  /\ answer' = [answer EXCEPT ![k] = Answer(kind, value)]

ReadNext(k, n) == reading' = [reading EXCEPT ![k] = n] /\ UNCHANGED answer

\* The condition for an error: the first test that applies ends it.
TestOver(k) ==
  /\ reading[k] \in DOMAIN Tests
  /\ \/ status = Tests[reading[k]] /\ ReadNext(k, ReadKind)
     \/ status # Tests[reading[k]] /\ reading[k] < 3 /\ ReadNext(k, reading[k] + 1)
     \/ status # Tests[reading[k]] /\ reading[k] = 3 /\ Reply(k, "error", 0)

\* Which answer it is: the status is read again, once or twice.
TestKind(k) ==
  \/ /\ reading[k] = ReadKind
     /\ ReadNext(k, IF status = "EXITED" THEN ReadCode.exited ELSE ReadSignalled)
  \/ /\ reading[k] = ReadSignalled
     /\ IF status = "SIGNALLED" THEN ReadNext(k, ReadCode.signalled)
                                ELSE Reply(k, "cannot_kill", 0)

\* exitCode() reads the status once more; both answers take their value from it.
SendValue(k) ==
  \E kind \in DOMAIN ReadCode :
    reading[k] = ReadCode[kind] /\ Reply(k, kind, ExitCode)

HandlerStep(k) ==
  /\ pc[k] = "done"
  /\ TestOver(k) \/ TestKind(k) \/ SendValue(k)
  /\ UNCHANGED <<vars, early>>

HandlerInit ==
  /\ Init
  /\ reading = [k \in Handlers |-> 1]
  /\ answer = [k \in Handlers |-> Answer("none", 0)]
  /\ early = {}

HandlerNext ==
  \/ /\ Next
     /\ early' = early \cup {k \in Handlers : /\ pc[k] = "idle" /\ pc'[k] = "done"
                                           /\ status = "NOT_STARTED"}
     /\ UNCHANGED <<reading, answer>>
  \/ \E k \in Handlers : HandlerStep(k)

HandlerSpec == HandlerInit /\ [][HandlerNext]_<<vars, handlerVars>> /\ Fairness

-------------------------------------------------------------------------------
(* Properties. *)

\* As long as no call of kill() has given up, the answer to a request is the way
\* in which the process really ended, which has been reaped by then, however the
\* reads and the end interleave; only a request that came before the start of
\* the program may be answered by an error.
KillAnswerSound ==
  \A k \in Handlers :
    answer[k].kind # "none" =>
      \/ status # "NOT_STARTED" /\ ~pipeOpen
      \/ answer[k].kind = "error" /\ k \in early
      \/ /\ child = "reaped"
         /\ answer[k].kind = (IF end.how = "EXITED" THEN "exited" ELSE "signalled")

\* "{'status': 'exited', 'exitCode': 123}" of a program that exits with 123
\* (test_kill.py), and the exit signal where there is one: the value of the
\* answer is that of the end.
KillTellsOutcome ==
  \A k \in Handlers :
    answer[k].kind \in {"exited", "signalled"} => answer[k].value = end.value
===============================================================================
