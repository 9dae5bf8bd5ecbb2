----------------------------- MODULE OutputBuffer -----------------------------
(***************************************************************************)
(* The in-memory buffer of the program's output (src/src/OutputBuffer.cpp):*)
(* a circular buffer that grows up to MaxCapacity and then overwrites its  *)
(* oldest bytes, together with the list of readers that wait for bytes not *)
(* written yet.                                                            *)
(*                                                                         *)
(* The I/O thread writes, any number of threads of the HTTP server read,   *)
(* and the main thread closes.  Every public method runs under one mutex,  *)
(* so it is one action; the only place where the mutex is given up is the  *)
(* condition wait of read(), which is where calls interleave.              *)
(*                                                                         *)
(* A byte is modelled by its offset in the output: the k-th byte ever      *)
(* written (counted from 0) is the number k.  The code never looks at the  *)
(* value of a byte, and offsets make any loss, duplication or reordering   *)
(* visible.                                                                *)
(***************************************************************************)
EXTENDS Integers, FiniteSets, Sequences

CONSTANTS
  Reads,            \* the calls of read() and tryRead(), each made once
  MaxCapacity,      \* maximum capacity of the circular buffer
  InitialCapacity,  \* initial capacity of the circular buffer
  Begins,           \* positions readers ask for, negative ones included
  Counts,           \* numbers of bytes readers ask for
  Chunks,           \* sizes of the writes
  MaxWritten,       \* bound on the bytes ever written
  PurgeRatio,       \* 8 in ReaderList::cancel
  PurgeThreshold,   \* 1000 in ReaderList::cancel
  SizeMod           \* 2^64: the counters of the reader list are size_t

ASSUME CapacityAssumption ==
  MaxCapacity \in Nat \ {0} /\ InitialCapacity \in Nat \ {0}
ASSUME InputAssumption ==
  Begins \subseteq Int /\ Counts \subseteq Nat /\ Chunks \subseteq Nat
ASSUME ReadsFinite == IsFiniteSet(Reads)
ASSUME BoundAssumption == MaxWritten \in Nat
ASSUME PurgeAssumption ==
  PurgeRatio \in Nat /\ PurgeThreshold \in Nat /\ SizeMod \in Nat \ {0}

VARIABLES
  ring,          \* the circular buffer: buffer, capacity, head and size
  writtenBytes,  \* number of bytes ever written
  closed,        \* whether the buffer has been closed
  heap,          \* the requests in the heap of the reader list
  cancelled,     \* the requests whose cancelled flag is set
  heapSize,      \* the counters that ReaderList keeps beside its heap
  activeCount,
  pc,            \* where each call is
  req,           \* position, count and timeout of each call
  reply,         \* the result field of each call's request
  result,        \* the ReadResult that each call returned
  target,        \* the bytes stored in each caller's array
  raced          \* history: calls cancelled after they had left the heap

ringVars == <<ring, writtenBytes>>
listVars == <<heap, cancelled, heapSize, activeCount, raced>>
callVars == <<pc, req, reply, result, target>>
vars == <<ringVars, closed, listVars, callVars>>

Least(a, b) == IF a <= b THEN a ELSE b
Greatest(a, b) == IF a >= b THEN a ELSE b

Garbage == -1  \* the content of memory nothing has been copied to

-------------------------------------------------------------------------------
(* The circular buffer.  r is the buffer before the operation; the data of a *)
(* write is given by the offset of its first byte and its length.            *)

Ring(buffer, capacity, head, size) ==
  [buffer |-> buffer, capacity |-> capacity, head |-> head, size |-> size]

\* Fault: the buffer grows as far as a write asks for.
NewCapacityUnbounded(r, desired) == Greatest(2 * r.capacity, desired)

NewCapacity(r, desired) ==
  Least(Greatest(2 * r.capacity, desired), MaxCapacity)

\* _expandBuffer: the content is moved to the start of a larger array.
ExpandBuffer(r, desired) ==
  LET newCapacity == NewCapacity(r, desired)
      rightSize   == r.capacity - r.head
      Old(i) == IF r.head + r.size > r.capacity /\ i >= rightSize
                THEN r.buffer[i - rightSize]
                ELSE r.buffer[r.head + i]
  IN  IF newCapacity > r.capacity
      THEN Ring([i \in 0..(newCapacity - 1) |->
                   IF i < r.size THEN Old(i) ELSE Garbage],
                newCapacity, 0, r.size)
      ELSE r

\* _circularWrite: as much of the data as there is room for, after the tail.
CircularWrite(r, first, count) ==
  LET bytes     == Least(count, r.capacity - r.size)
      tail      == (r.head + r.size) % r.capacity
      rightSize == r.capacity - tail
      Byte(i) ==
        IF tail <= i /\ i < tail + bytes
        THEN first + (i - tail)
        ELSE IF bytes > rightSize /\ i < bytes - rightSize
             THEN first + rightSize + i
             ELSE r.buffer[i]
  IN  Ring([i \in 0..(r.capacity - 1) |-> Byte(i)],
           r.capacity, r.head, r.size + bytes)

\* Fault: the oldest bytes are given up at the wrong end.
DropNewest(r, count) ==
  Ring(r.buffer, r.capacity, r.head, Least(r.size, r.capacity - count))

\* The bytes that _overwrite gives up to make room for count new ones.
DropOldest(r, count) ==
  LET preserve == r.capacity - count
      dropped  == r.size - preserve
  IN  IF preserve < r.size
      THEN Ring(r.buffer, r.capacity, (r.head + dropped) % r.capacity, preserve)
      ELSE r

\* _overwrite
Overwrite(r, first, count) ==
  LET desired == r.size + count
      e == IF desired > r.capacity /\ r.capacity < MaxCapacity
           THEN ExpandBuffer(r, desired)
           ELSE r
  IN  IF count >= e.capacity
      THEN CircularWrite(Ring(e.buffer, e.capacity, e.head, 0),
                         first + (count - e.capacity), e.capacity)
      ELSE CircularWrite(DropOldest(e, count), first, count)

\* _circularRead: at most count bytes, from position start of the buffer.
CircularRead(r, count, start) ==
  LET bytes     == Least(count, r.size - start)
      front     == (r.head + start) % r.capacity
      rightSize == r.capacity - front
      Byte(j) == IF j < rightSize THEN r.buffer[front + j]
                                  ELSE r.buffer[j - rightSize]
  IN  IF r.size > start THEN [j \in 1..bytes |-> Byte(j - 1)] ELSE <<>>

-------------------------------------------------------------------------------
(* Results of a read. *)

Data(begin, count) == [kind |-> "data", begin |-> begin, count |-> count]
Closed  == [kind |-> "closed",  begin |-> 0, count |-> 0]
Timeout == [kind |-> "timeout", begin |-> 0, count |-> 0]

\* translateNegativeBegin
TranslateBegin(b) ==
  IF b < 0 THEN Greatest(b + writtenBytes, 0) ELSE b

\* Fault: a closed buffer answers nothing but Closed.
TryReadUnlessClosed(begin, count) ==
  LET minBegin   == writtenBytes - ring.size
      localStart == Greatest(begin, minBegin) - minBegin
      bytes      == CircularRead(ring, count, localStart)
  IN  IF closed \/ begin >= writtenBytes
      THEN [result |-> IF closed THEN Closed ELSE Timeout, bytes |-> <<>>]
      ELSE [result |-> Data(minBegin + localStart, Len(bytes)), bytes |-> bytes]

\* _tryRead: the result, and the bytes it stores in the caller's array.
TryRead(begin, count) ==
  LET minBegin   == writtenBytes - ring.size
      localStart == IF begin <= minBegin THEN 0 ELSE begin - minBegin
      bytes      == CircularRead(ring, count, localStart)
  IN  IF begin < writtenBytes
      THEN [result |-> Data(minBegin + localStart, Len(bytes)), bytes |-> bytes]
      ELSE [result |-> IF closed THEN Closed ELSE Timeout, bytes |-> <<>>]

-------------------------------------------------------------------------------
(* The list of waiting readers.  The heap is ordered by the position a reader *)
(* waits for, so the loop of ReaderList::process pops exactly the requests    *)
(* whose position has been written; a set is enough.                          *)

\* Fault: one of the threads is woken where every one should be.
SignalOne(S) ==
  LET woken == CHOOSE c \in Reads : S \cap Reads = {} \/ c \in S
  IN  pc' = IF S # {} /\ pc[woken] = "waiting"
            THEN [pc EXCEPT ![woken] = "signalled"]
            ELSE pc

\* Poco::Condition::signal sets the event of a thread that still waits; one
\* whose wait has expired has already left the condition's queue.
Signal(S) ==
  pc' = [c \in Reads |-> IF c \in S /\ pc[c] = "waiting" THEN "signalled"
                                                        ELSE pc[c]]

\* Fault: the size of the heap is not counted.
AddUncounted(c) ==
  /\ heap' = heap \cup {c}
  /\ activeCount' = (activeCount + 1) % SizeMod
  /\ UNCHANGED <<cancelled, raced, heapSize>>

\* ReaderList::add
Add(c) ==
  /\ heap' = heap \cup {c}
  /\ heapSize' = (heapSize + 1) % SizeMod
  /\ activeCount' = (activeCount + 1) % SizeMod
  /\ UNCHANGED <<cancelled, raced>>

\* Fault: the rebuilt heap keeps the requests it should lose.
RebuiltInverted(gone) == heap \cap gone

\* The heap that cancel() rebuilds.
Rebuilt(gone) == heap \ gone

\* Fault: the request is not marked.
MarkNothing(c) == cancelled

\* ReadRequest::cancel
Mark(c) == cancelled \cup {c}

\* ReaderList::cancel: the request stays in the heap until it is popped, or
\* until the heap is rebuilt because too few of its requests are active.
Cancel(c) ==
  LET active == (activeCount - 1) % SizeMod
      purge  == (active * PurgeRatio) % SizeMod < heapSize
                /\ heapSize > PurgeThreshold
  IN  /\ activeCount' = active
      /\ cancelled' = Mark(c)
      /\ heap' = IF purge THEN Rebuilt(cancelled') ELSE heap
      /\ heapSize' = IF purge THEN active ELSE heapSize
      /\ raced' = IF c \in heap THEN raced ELSE raced \cup {c}

\* Fault: a reader is served the start of the chunk.
ChunkStart(count, from, n) ==
  [j \in 1..n |-> IF j <= count THEN writtenBytes + j - 1 ELSE Garbage]

\* The part [from, from + n) of a chunk of count bytes whose first byte is the
\* next one to be written; reading outside of the chunk yields garbage.
ChunkBytes(count, from, n) ==
  [j \in 1..n |-> IF from + j - 1 \in 0..(count - 1)
                  THEN writtenBytes + from + j - 1
                  ELSE Garbage]

\* The requests that the loop of process() pops.
Reached(written) == {c \in heap : req[c].begin < written}

\* ReaderList::process, as write() uses it: every request whose position has
\* been reached is popped, and served from the chunk unless it is cancelled.
Process(written, count) ==
  LET popped == Reached(written)
      served == popped \ cancelled
      Granted(c) == Least(req[c].count, written - req[c].begin)
  IN  /\ heap' = heap \ popped
      /\ heapSize' = (heapSize - Cardinality(popped)) % SizeMod
      /\ activeCount' = (activeCount - Cardinality(served)) % SizeMod
      /\ reply' = [c \in Reads |-> IF c \in served
                                   THEN Data(req[c].begin, Granted(c))
                                   ELSE reply[c]]
      /\ target' = [c \in Reads |->
                      IF c \in served
                      THEN ChunkBytes(count, req[c].begin - writtenBytes, Granted(c))
                      ELSE target[c]]
      /\ Signal(served)
      /\ UNCHANGED <<cancelled, raced, req, result>>

-------------------------------------------------------------------------------
(* The public methods. *)

\* write(), by the I/O thread.  On a closed buffer it throws and changes nothing.
Write(count) ==
  /\ ~closed
  /\ writtenBytes + count <= MaxWritten
  /\ ring' = Overwrite(ring, writtenBytes, count)
  /\ writtenBytes' = writtenBytes + count
  /\ Process(writtenBytes', count)
  /\ UNCHANGED closed

\* read() and tryRead() of a position that is written, or of a closed buffer.
ReadNow(c, b, n, timed) ==
  LET at == TranslateBegin(b)
      r  == TryRead(at, n)
  IN  /\ pc[c] = "idle"
      /\ r.result # Timeout
      /\ req' = [req EXCEPT ![c] = [begin |-> at, count |-> n, timed |-> timed]]
      /\ result' = [result EXCEPT ![c] = r.result]
      /\ target' = [target EXCEPT ![c] = r.bytes]
      /\ pc' = [pc EXCEPT ![c] = "done"]
      /\ UNCHANGED <<ringVars, closed, listVars, reply>>

\* tryRead() of a position that is not written yet.
TryReadNothing(c, b, n) ==
  LET at == TranslateBegin(b)
  IN  /\ pc[c] = "idle"
      /\ TryRead(at, n).result = Timeout
      /\ req' = [req EXCEPT ![c] = [begin |-> at, count |-> n, timed |-> TRUE]]
      /\ result' = [result EXCEPT ![c] = Timeout]
      /\ pc' = [pc EXCEPT ![c] = "done"]
      /\ UNCHANGED <<ringVars, closed, listVars, reply, target>>

\* read() of a position that is not written yet: queue a request and wait.
ReadWait(c, b, n, timed) ==
  LET at == TranslateBegin(b)
  IN  /\ pc[c] = "idle"
      /\ TryRead(at, n).result = Timeout
      /\ req' = [req EXCEPT ![c] = [begin |-> at, count |-> n, timed |-> timed]]
      /\ pc' = [pc EXCEPT ![c] = "waiting"]
      /\ Add(c)
      /\ UNCHANGED <<ringVars, closed, reply, result, target>>

\* The timed wait ends without a signal; the mutex is not locked again yet.
Expire(c) ==
  /\ pc[c] = "waiting"
  /\ req[c].timed
  /\ pc' = [pc EXCEPT ![c] = "expired"]
  /\ UNCHANGED <<ringVars, closed, listVars, req, reply, result, target>>

\* The mutex is locked again after a signal: read() returns what was stored.
Return(c) ==
  /\ pc[c] = "signalled"
  /\ pc' = [pc EXCEPT ![c] = "done"]
  /\ result' = [result EXCEPT ![c] = reply[c]]
  /\ UNCHANGED <<ringVars, closed, listVars, req, reply, target>>

\* The mutex is locked again after the wait has expired: cancel the request.
GiveUp(c) ==
  /\ pc[c] = "expired"
  /\ Cancel(c)
  /\ result' = [result EXCEPT ![c] = Timeout]
  /\ pc' = [pc EXCEPT ![c] = "done"]
  /\ UNCHANGED <<ringVars, closed, req, reply, target>>

\* close(): every request of the list is answered and the list is emptied.
Close ==
  /\ ~closed
  /\ closed' = TRUE
  /\ heap' = {}
  /\ heapSize' = 0
  /\ activeCount' = 0
  /\ reply' = [c \in Reads |-> IF c \in heap THEN Closed ELSE reply[c]]
  /\ Signal(heap)
  /\ UNCHANGED <<ringVars, cancelled, raced, req, result, target>>

-------------------------------------------------------------------------------
Init ==
  /\ ring = LET capacity == Least(InitialCapacity, MaxCapacity)
            IN  Ring([i \in 0..(capacity - 1) |-> Garbage], capacity, 0, 0)
  /\ writtenBytes = 0
  /\ closed = FALSE
  /\ heap = {}
  /\ cancelled = {}
  /\ heapSize = 0
  /\ activeCount = 0
  /\ raced = {}
  /\ pc = [c \in Reads |-> "idle"]
  /\ req = [c \in Reads |-> [begin |-> 0, count |-> 0, timed |-> FALSE]]
  /\ reply = [c \in Reads |-> Data(0, 0)]
  /\ result = [c \in Reads |-> Data(0, 0)]
  /\ target = [c \in Reads |-> <<>>]

Next ==
  \/ \E count \in Chunks : Write(count)
  \/ \E c \in Reads, b \in Begins, n \in Counts, timed \in BOOLEAN :
       ReadNow(c, b, n, timed) \/ ReadWait(c, b, n, timed)
  \/ \E c \in Reads, b \in Begins, n \in Counts : TryReadNothing(c, b, n)
  \/ \E c \in Reads : Expire(c) \/ Return(c) \/ GiveUp(c)
  \/ Close

Spec == Init /\ [][Next]_vars

\* A thread that is woken, or whose timer runs out, is scheduled eventually.
\* Nothing obliges the program to write or the main thread to close.
Fairness == \A c \in Reads : WF_vars(Expire(c)) /\ WF_vars(Return(c) \/ GiveUp(c))

FairSpec == Spec /\ Fairness

-------------------------------------------------------------------------------
(* Properties. *)

Calls == {"idle", "waiting", "signalled", "expired", "done"}
Results == [kind : {"data", "closed", "timeout"}, begin : Nat, count : Nat]
Requests == [begin : Nat, count : Nat, timed : BOOLEAN]

\* r is a circular buffer of at most MaxCapacity bytes.
IsRing(r) ==
  /\ r = Ring(r.buffer, r.capacity, r.head, r.size)
  /\ r.capacity \in 1..MaxCapacity
  /\ r.head \in 0..(r.capacity - 1)
  /\ r.size \in 0..r.capacity
  /\ r.buffer \in [0..(r.capacity - 1) -> Int]

\* r holds the last r.size bytes before position end, in order.
Holds(r, end) ==
  \A i \in 0..(r.size - 1) :
    r.buffer[(r.head + i) % r.capacity] = end - r.size + i

\* Type invariant: the fields of OutputBuffer and of its reader list stay in
\* their ranges; head and size never leave the array that is allocated, which
\* never exceeds the capacity the user configured.
TypeOK ==
  /\ IsRing(ring)
  /\ writtenBytes \in Nat
  /\ closed \in BOOLEAN
  /\ heap \subseteq Reads
  /\ cancelled \subseteq Reads
  /\ heapSize \in 0..(SizeMod - 1)
  /\ activeCount \in 0..(SizeMod - 1)
  /\ raced \subseteq Reads
  /\ pc \in [Reads -> Calls]
  /\ req \in [Reads -> Requests]
  /\ reply \in [Reads -> Results]
  /\ result \in [Reads -> Results]
  /\ target \in [Reads -> Seq(Int)]

\* The buffer always holds the last min(writtenBytes, MaxCapacity) bytes of the
\* output, in order: no sequence of writes, expansions of a buffer that is
\* wrapped around, and overwrites loses, repeats or misplaces one.  It is what
\* the program's final output is saved from.
LastBytesKept ==
  /\ ring.size = Least(writtenBytes, MaxCapacity)
  /\ Holds(ring, writtenBytes)

\* A request in the heap waits for a byte that is not written: what write()
\* asserts of every request it pops (OutputBuffer.cpp:243), and what keeps its
\* memcpy inside of the chunk.
ReadersAhead == \A c \in heap : req[c].begin >= writtenBytes

\* A call that waits has a request in the heap which is not cancelled: neither
\* a pop nor a rebuild of the heap ever forgets a reader, which would leave the
\* thread of its HTTP request blocked for ever.  It holds although the counters
\* that trigger the rebuild may be wrong.
WaitersListed ==
  \A c \in Reads : pc[c] = "waiting" => c \in heap \ cancelled

\* r is what call c may be told of the bytes in its array.
Faithful(c, r) ==
  /\ target[c] = [j \in 1..r.count |-> r.begin + j - 1]
  /\ r.begin >= req[c].begin
  /\ r.begin + r.count <= writtenBytes
  /\ r.count <= req[c].count
  /\ req[c].count > 0 => r.count > 0

\* A call that ends with data got the bytes it is told: contiguous from the
\* position it asked for, or from a later one if that position had been given
\* up when it asked, and none of them garbage, whoever copied them (the reader
\* from the buffer, or the writer from its chunk).
DataFaithful ==
  \A c \in Reads :
    pc[c] = "done" /\ result[c].kind = "data" => Faithful(c, result[c])

\* While no call has been cancelled after its request had left the heap, the
\* counters of the reader list are what their names say.
CountersExact ==
  raced = {} => /\ heapSize = Cardinality(heap)
                /\ activeCount = Cardinality(heap \ cancelled)

\* Once a call has returned, no write stores into its array again: the array is
\* the caller's, and the heap may still hold the request of a call that timed
\* out.
ReturnedArraysUntouched ==
  [][\A c \in Reads : pc[c] = "done" =>
       target'[c] = target[c]]_vars

\* A call returns once the position it waits for is written, once the buffer is
\* closed, or, if it has a timeout, anyway.
AnsweredCallsReturn ==
  \A c \in Reads :
    (/\ pc[c] \in {"waiting", "signalled", "expired"}
     /\ closed \/ req[c].begin < writtenBytes \/ req[c].timed)
    ~> pc[c] = "done"

\* A call is answered when it returns; bytes count as given only with data.
StreamStatus ==
  [c \in Reads |-> IF pc[c] = "idle" THEN "idle"
                  ELSE IF pc[c] = "done" THEN "answered" ELSE "asked"]
StreamAnswer ==
  [c \in Reads |->
     IF pc[c] = "done"
     THEN [kind  |-> result[c].kind,
           begin |-> result[c].begin,
           bytes |-> IF result[c].kind = "data" THEN target[c] ELSE <<>>]
     ELSE [kind |-> "none", begin |-> 0, bytes |-> <<>>]]

Stream == INSTANCE OutputStream WITH
  written <- writtenBytes,
  status  <- StreamStatus,
  asked   <- req,
  answer  <- StreamAnswer

\* The buffer implements what it promises its callers (module OutputStream):
\* every read is answered once, with the bytes of one position that was written
\* and retained when it was asked, with a time-out only if it has one, and with
\* the end of the output only when nothing is left for it to read.
ImplementsStream == Stream!Spec
===============================================================================
