----------------------------- MODULE OutputStream -----------------------------
(***************************************************************************)
(* What the output buffer promises its callers (the comments of            *)
(* src/src/OutputBuffer.h), without the circular buffer, the mutex and the *)
(* list of readers: an output of which the last MaxCapacity bytes can be   *)
(* read, and calls that are asked and answered.  The k-th byte of the      *)
(* output is the number k.                                                 *)
(***************************************************************************)
EXTENDS Integers, Sequences

CONSTANTS
  Reads,       \* the calls of read() and tryRead(), each made once
  MaxCapacity  \* the number of bytes that are retained

VARIABLES
  written,  \* number of bytes written
  closed,   \* whether the output has ended
  status,   \* of each call: "idle", "asked" or "answered"
  asked,    \* of each call: position, number of bytes, and whether it may time out
  answer    \* of each call: kind, position and bytes

vars == <<written, closed, status, asked, answer>>

Answer(kind, begin, bytes) == [kind |-> kind, begin |-> begin, bytes |-> bytes]
NoAnswer == Answer("none", 0, <<>>)

Bytes(begin, count) == [j \in 1..count |-> begin + j - 1]

\* The oldest byte that is retained.
Oldest == IF written > MaxCapacity THEN written - MaxCapacity ELSE 0

Init ==
  /\ written = 0
  /\ closed = FALSE
  /\ status = [c \in Reads |-> "idle"]
  /\ asked \in [Reads -> [begin : Nat, count : Nat, timed : BOOLEAN]]
  /\ answer = [c \in Reads |-> NoAnswer]

\* The output grows.
Grow ==
  /\ ~closed
  /\ written' \in Nat
  /\ written' >= written
  /\ UNCHANGED <<closed, status, asked, answer>>

\* The output ends.
End ==
  /\ closed' = TRUE
  /\ UNCHANGED <<written, status, asked, answer>>

\* Call c becomes s, having asked for a and been given r; the others do not change.
Becomes(c, s, a, r) ==
  /\ status' = [status EXCEPT ![c] = s]
  /\ asked' = [asked EXCEPT ![c] = a]
  /\ answer' = [answer EXCEPT ![c] = r]
  /\ UNCHANGED <<written, closed>>

\* A call asks for a position that is not written, and waits.
Ask(c) ==
  /\ status[c] = "idle"
  /\ ~closed
  /\ asked'[c].begin >= written
  /\ Becomes(c, "asked", asked'[c], NoAnswer)

\* A call asks for a position that is written: it is given all the bytes there
\* are from that position, or from the oldest one if it has been given up.
Take(c) ==
  LET from  == IF asked'[c].begin < Oldest THEN Oldest ELSE asked'[c].begin
      count == IF asked'[c].count < written - from THEN asked'[c].count
                                                  ELSE written - from
  IN  /\ status[c] = "idle"
      /\ asked'[c].begin < written
      /\ Becomes(c, "answered", asked'[c],
                 Answer("data", from, Bytes(from, count)))

\* A call that waits is given bytes from the position it asked for: those that
\* were there at some moment since, at least one unless it asked for none.
Receive(c) ==
  /\ status[c] = "asked"
  /\ asked[c].begin < written
  /\ LET count == Len(answer'[c].bytes)
     IN  /\ count <= asked[c].count
         /\ asked[c].begin + count <= written
         /\ asked[c].count > 0 => count > 0
         /\ Becomes(c, "answered", asked[c],
                    Answer("data", asked[c].begin, Bytes(asked[c].begin, count)))

\* The output has ended before the position that a call asks for, or waits for.
HitEnd(c) ==
  LET a == IF status[c] = "idle" THEN asked'[c] ELSE asked[c]
  IN  /\ status[c] # "answered"
      /\ closed
      /\ a.begin >= written
      /\ Becomes(c, "answered", a, Answer("closed", 0, <<>>))

\* A call that need not wait asks for a position that is not written.
Decline(c) ==
  /\ status[c] = "idle"
  /\ ~closed
  /\ asked'[c].begin >= written
  /\ asked'[c].timed
  /\ Becomes(c, "answered", asked'[c], Answer("timeout", 0, <<>>))

\* A call waits no longer.
TimeOut(c) ==
  /\ status[c] = "asked"
  /\ asked[c].timed
  /\ Becomes(c, "answered", asked[c], Answer("timeout", 0, <<>>))

Next ==
  \/ Grow \/ End
  \/ \E c \in Reads : \/ Ask(c) \/ Take(c) \/ Receive(c)
                     \/ HitEnd(c) \/ Decline(c) \/ TimeOut(c)

Spec == Init /\ [][Next]_vars
===============================================================================
