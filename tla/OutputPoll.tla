------------------------------- MODULE OutputPoll -------------------------------
(***************************************************************************)
(* Polling the output (OutputPollHandler of src/src/WebServerFactory.cpp): *)
(* a client asks for the output from a position on, the handler answers    *)
(* with what one read() and then as many tryRead() as succeed return, and  *)
(* the client asks on from where it got to.                                *)
(*                                                                         *)
(* The buffer is used as OutputStream promises: the n-th byte is the       *)
(* number n, the last MaxCapacity bytes are kept.  Calls of different      *)
(* clients do not disturb each other, so there is one.  The client is not  *)
(* part of the repository but of its tests (integrated-tests/test_polling) *)
(***************************************************************************)
EXTENDS Integers, Sequences

CONSTANTS
  MaxCapacity,        \* bytes that the buffer keeps
  RequestBufferSize,  \* _requestBufferSize
  ReadCounts,         \* the values of the parameter count; 0: no limit
  Chunks,             \* sizes of the writes into the buffer
  MaxWritten,         \* bound on the bytes written
  MaxBreaks           \* bound on the connections that break

ASSUME SizeAssumption ==
  /\ {MaxCapacity, RequestBufferSize} \subseteq Nat \ {0}
  /\ ReadCounts \subseteq Nat /\ Chunks \subseteq Nat \ {0}
  /\ {MaxWritten, MaxBreaks} \subseteq Nat

VARIABLES
  written,    \* bytes written into the buffer
  closed,     \* whether it is closed
  pc,         \* where the handler is
  readCount,  \* the parameter count of the request
  begin,      \* the position of the next read of the handler
  reply,      \* what the first read returned: a position and bytes
  header,     \* the position that the response names
  response,   \* the bytes in the response
  next,       \* the position that the client asks for next
  got,        \* the bytes that the client has got
  gone,       \* whether the client was told that the program has exited
  breaks      \* number of connections that broke

bufferVars == <<written, closed>>
handlerVars == <<pc, readCount, begin, reply, header, response>>
clientVars == <<next, got, gone, breaks>>
vars == <<bufferVars, handlerVars, clientVars>>

Bytes(from, count) == [j \in 1..count |-> from + j - 1]
Least(a, b) == IF a < b THEN a ELSE b

-------------------------------------------------------------------------------
(* The buffer. *)

\* The oldest position that is kept.
Oldest == IF written > MaxCapacity THEN written - MaxCapacity ELSE 0

\* Where a read of position p starts.
ReadFrom(p) == IF p < Oldest THEN Oldest ELSE p

\* The size of the array of the handler.
BufferSize == IF readCount > 0 THEN Least(RequestBufferSize, readCount)
                               ELSE RequestBufferSize

\* OutputBuffer::write, which serves a handler that waits for these bytes.
Write(count) ==
  /\ ~closed
  /\ written + count <= MaxWritten
  /\ written' = written + count
  /\ IF pc = "waiting" /\ begin < written'
     THEN /\ pc' = "answered"
          /\ reply' = [begin |-> begin,
                       bytes |-> Bytes(begin, Least(BufferSize, written' - begin))]
     ELSE UNCHANGED <<pc, reply>>
  /\ UNCHANGED <<closed, readCount, begin, header, response, clientVars>>

\* OutputBuffer::close
Close ==
  /\ ~closed
  /\ closed' = TRUE
  /\ pc' = IF pc = "waiting" THEN "ended" ELSE pc
  /\ UNCHANGED <<written, readCount, begin, reply, header, response, clientVars>>

-------------------------------------------------------------------------------
(* The handler. *)

\* The client asks for the output from its position on.
Request(count) ==
  /\ pc = "idle"
  /\ ~gone
  /\ readCount' = count
  /\ begin' = next
  /\ pc' = "reading"
  /\ UNCHANGED <<bufferVars, reply, header, response, clientVars>>

\* Fault: closing is not noticed by those who come later.
EndedNever == FALSE

\* The output has ended before the position of the handler.
Ended == closed /\ begin >= written

\* read() returns, or waits.
Read ==
  /\ pc = "reading"
  /\ IF Ended
     THEN pc' = "ended" /\ UNCHANGED reply
     ELSE IF begin < written
     THEN /\ pc' = "answered"
          /\ reply' = [begin |-> ReadFrom(begin),
                       bytes |-> Bytes(ReadFrom(begin),
                                       Least(BufferSize, written - ReadFrom(begin)))]
     ELSE pc' = "waiting" /\ UNCHANGED reply
  /\ UNCHANGED <<bufferVars, readCount, begin, header, response, clientVars>>

\* read() times out: the answer is that there is no content yet.
TimeOut ==
  /\ pc = "waiting"
  /\ pc' = "idle"
  /\ UNCHANGED <<bufferVars, readCount, begin, reply, header, response, clientVars>>

\* The answer is that the program has exited.
SendGone ==
  /\ pc = "ended"
  /\ pc' = "idle"
  /\ gone' = TRUE
  /\ UNCHANGED <<bufferVars, readCount, begin, reply, header, response,
                 next, got, breaks>>

\* Fault: the response names the position that was asked for.
HeaderAsked == begin

\* The position that the response names.
Header == reply.begin

\* Fault: the handler goes on behind what it had room for.
AfterFull == reply.begin + BufferSize

\* Where the handler goes on after the first piece.
AfterFirst == reply.begin + Len(reply.bytes)

\* The header and the first piece.
SendFirst ==
  /\ pc = "answered"
  /\ header' = Header
  /\ response' = reply.bytes
  /\ begin' = AfterFirst
  /\ pc' = "sending"
  /\ UNCHANGED <<bufferVars, readCount, reply, clientVars>>

\* The size of the next piece.
PieceSize == IF readCount > 0 THEN Least(readCount - Len(response), BufferSize)
                              ELSE BufferSize

\* Fault: it does not matter where the next piece begins.
ContiguousAny == TRUE

\* The next piece begins where the one before ended.
Contiguous == ReadFrom(begin) = begin

\* Whether the handler may send another piece, and there is one.
MayRead == readCount = 0 \/ Len(response) < readCount
NextPiece == MayRead /\ begin < written /\ Contiguous

\* tryRead() returns a piece that continues the response.
SendNext ==
  LET count == Least(PieceSize, written - ReadFrom(begin))
  IN  /\ pc = "sending"
      /\ NextPiece
      /\ response' = response \o Bytes(ReadFrom(begin), count)
      /\ begin' = ReadFrom(begin) + count
      /\ UNCHANGED <<bufferVars, pc, readCount, reply, header, clientVars>>

\* There is nothing to continue the response with; the client has got it.
Finish ==
  /\ pc = "sending"
  /\ ~NextPiece
  /\ pc' = "idle"
  /\ got' = got \o response
  /\ next' = header + Len(response)
  /\ UNCHANGED <<bufferVars, readCount, begin, reply, header, response, gone, breaks>>

\* The connection breaks; the client drops what it has got of the response.
Break ==
  /\ pc \in {"answered", "sending", "ended"}
  /\ breaks < MaxBreaks
  /\ breaks' = breaks + 1
  /\ pc' = "idle"
  /\ UNCHANGED <<bufferVars, readCount, begin, reply, header, response, next, got, gone>>

-------------------------------------------------------------------------------
Init ==
  /\ written = 0
  /\ closed = FALSE
  /\ pc = "idle"
  /\ readCount = 0
  /\ begin = 0
  /\ reply = [begin |-> 0, bytes |-> <<>>]
  /\ header = 0
  /\ response = <<>>
  /\ next = 0
  /\ got = <<>>
  /\ gone = FALSE
  /\ breaks = 0

HandlerStep == Read \/ SendGone \/ SendFirst \/ SendNext \/ Finish

Next ==
  \/ \E count \in Chunks : Write(count)
  \/ Close
  \/ \E count \in ReadCounts : Request(count)
  \/ HandlerStep \/ TimeOut \/ Break

Spec == Init /\ [][Next]_vars

\* The handler goes on and the client asks again; nobody has to write or close.
Fairness ==
  /\ WF_vars(HandlerStep)
  /\ WF_vars(\E count \in ReadCounts : Request(count))

FairSpec == Spec /\ Fairness

-------------------------------------------------------------------------------
(* Properties. *)

\* Type invariant.
TypeOK ==
  /\ written \in 0..MaxWritten
  /\ closed \in BOOLEAN
  /\ pc \in {"idle", "reading", "waiting", "answered", "ended", "sending"}
  /\ readCount \in ReadCounts \cup {0}
  /\ begin \in 0..written
  /\ reply \in [begin : 0..MaxWritten, bytes : Seq(0..MaxWritten)]
  /\ header \in 0..written
  /\ response \in Seq(0..MaxWritten)
  /\ next \in 0..written
  /\ got \in Seq(0..MaxWritten)
  /\ gone \in BOOLEAN
  /\ breaks \in 0..MaxBreaks

\* A response is a piece of the output that begins where it says, although it is
\* put together from several reads between which bytes are overwritten.
ResponseFaithful ==
  pc = "sending" => response = Bytes(header, Len(response))

\* A client that asks on from where it got to gets each byte at most once and in
\* order, and all bytes before its position that have not been overwritten,
\* whatever breaks or times out in between; and it is told that the program has
\* exited only when it has got everything that is kept: not while output is left
\* in a closed buffer.
NothingSkipped ==
  /\ \A i, j \in 1..Len(got) : i < j => got[i] < got[j]
  /\ \A n \in 0..(next - 1) : n < Oldest \/ \E i \in 1..Len(got) : got[i] = n
  /\ gone => closed /\ next = written

\* Once the buffer is closed, a client that keeps asking is told so.
ClientGetsToEnd == closed ~> gone
===============================================================================
