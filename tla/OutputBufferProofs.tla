-------------------------- MODULE OutputBufferProofs --------------------------
(***************************************************************************)
(* Theorems about OutputBuffer, for every value of its constants.          *)
(***************************************************************************)
EXTENDS OutputBuffer, FiniteSetTheorems, TLAPS

-------------------------------------------------------------------------------
(* The circular buffer. *)

\* Remainders, as far as the code needs them: it never adds more than one
\* capacity to a position inside of the array.
LEMMA ModSmall ==
  ASSUME NEW c \in Nat \ {0}, NEW a \in Nat, a < c
  PROVE  a % c = a
BY SMT

LEMMA ModWrap ==
  ASSUME NEW c \in Nat \ {0}, NEW a \in Nat, c <= a, a < 2 * c
  PROVE  a % c = a - c
BY SMT

LEMMA ModRange ==
  ASSUME NEW c \in Nat \ {0}, NEW a \in Int
  PROVE  a % c \in 0..(c - 1)
BY SMT

\* Expanding the buffer keeps its content: what the comment of _expandBuffer
\* says of it.
LEMMA ExpandBufferKeeps ==
  ASSUME NEW r, IsRing(r), NEW end \in Nat, Holds(r, end),
         NEW desired \in Nat, r.capacity < MaxCapacity, r.capacity < desired
  PROVE  LET e == ExpandBuffer(r, desired)
         IN  /\ IsRing(e)
             /\ Holds(e, end)
             /\ e.size = r.size
             /\ e.capacity = NewCapacity(r, desired)
<1> DEFINE n == NewCapacity(r, desired)
           e == ExpandBuffer(r, desired)
           right == r.capacity - r.head
           Old(i) == IF r.head + r.size > r.capacity /\ i >= right
                     THEN r.buffer[i - right] ELSE r.buffer[r.head + i]
<1>1. /\ MaxCapacity \in Nat \ {0}
      /\ r.capacity \in 1..MaxCapacity
      /\ r.head \in 0..(r.capacity - 1)
      /\ r.size \in 0..r.capacity
  BY CapacityAssumption DEF IsRing
<1>2. r.buffer \in [0..(r.capacity - 1) -> Int]
  BY DEF IsRing
<1>3. n \in 1..MaxCapacity /\ n > r.capacity
  BY <1>1 DEF NewCapacity, Least, Greatest
<1>4. /\ e = Ring(e.buffer, e.capacity, e.head, e.size)
      /\ e.buffer = [i \in 0..(n - 1) |-> IF i < r.size THEN Old(i) ELSE Garbage]
      /\ e.capacity = n /\ e.head = 0 /\ e.size = r.size
  BY <1>3 DEF ExpandBuffer, Ring
<1> HIDE DEF n, e
<1>5. ASSUME NEW i \in 0..(r.size - 1)
      PROVE  Old(i) = r.buffer[(r.head + i) % r.capacity] /\ Old(i) \in Int
  <2>1. CASE r.head + i < r.capacity
    <3>1. (r.head + i) % r.capacity = r.head + i
      BY <1>1, <2>1, ModSmall
    <3>2. Old(i) = r.buffer[r.head + i] /\ r.head + i \in 0..(r.capacity - 1)
      BY <1>1, <2>1
    <3> QED BY <1>2, <3>1, <3>2
  <2>2. CASE r.head + i >= r.capacity
    <3>1. (r.head + i) % r.capacity = r.head + i - r.capacity
      BY <1>1, <2>2, ModWrap
    <3>2. Old(i) = r.buffer[r.head + i - r.capacity]
      BY <1>1, <2>2
    <3>3. r.head + i - r.capacity \in 0..(r.capacity - 1)
      BY <1>1, <2>2
    <3> QED BY <1>2, <3>1, <3>2, <3>3
  <2> QED BY <1>1, <2>1, <2>2
<1> HIDE DEF Old
<1>6. IsRing(e)
  <2>1. e.buffer \in [0..(e.capacity - 1) -> Int]
    <3>1. ASSUME NEW i \in 0..(n - 1)
          PROVE  (IF i < r.size THEN Old(i) ELSE Garbage) \in Int
      BY <1>1, <1>3, <1>5 DEF Garbage
    <3> QED BY <1>4, <3>1
  <2>2. e.capacity = n /\ e.head = 0 /\ e.size = r.size
    BY <1>4
  <2>3. e.capacity \in 1..MaxCapacity /\ e.head \in 0..(e.capacity - 1)
        /\ e.size \in 0..e.capacity
    BY ONLY <1>1, <1>3, <2>2
  <2>4. e = Ring(e.buffer, e.capacity, e.head, e.size)
    BY <1>4
  <2> QED BY <2>1, <2>3, <2>4, Zenon DEF IsRing
<1>7. Holds(e, end)
  <2> SUFFICES ASSUME NEW i \in 0..(e.size - 1)
               PROVE  e.buffer[(e.head + i) % e.capacity] = end - e.size + i
    BY DEF Holds
  <2>1. i \in 0..(r.size - 1) /\ i \in 0..(n - 1) /\ i \in Nat /\ i < n /\ i < r.size
    BY <1>1, <1>3, <1>4
  <2>2. (e.head + i) % e.capacity = i
    BY <1>3, <1>4, <2>1, ModSmall
  <2>3. e.buffer[i] = Old(i)
    BY <1>4, <2>1
  <2>4. r.buffer[(r.head + i) % r.capacity] = end - r.size + i
    BY <2>1 DEF Holds
  <2> QED BY <1>4, <1>5, <2>1, <2>2, <2>3, <2>4
<1> QED BY <1>4, <1>6, <1>7 DEF n, e

\* The k-th cell after cell h of an array of c cells.
LEMMA CellCases ==
  ASSUME NEW c \in Nat \ {0}, NEW h \in 0..(c - 1), NEW k \in 0..c
  PROVE  \/ h + k < c /\ (h + k) % c = h + k
         \/ h + k >= c /\ (h + k) % c = h + k - c
<1> DEFINE a == h + k
<1>1. a \in Nat /\ a < 2 * c
  OBVIOUS
<1> HIDE DEF a
<1>2. CASE a < c
  BY <1>1, <1>2, ModSmall DEF a
<1>3. CASE a >= c
  BY <1>1, <1>3, ModWrap DEF a
<1> QED BY <1>1, <1>2, <1>3

\* Writing what there is room for appends it to the content.
LEMMA CircularWriteAppends ==
  ASSUME NEW r, IsRing(r), NEW end \in Nat, Holds(r, end),
         NEW count \in Nat, r.size + count <= r.capacity
  PROVE  LET w == CircularWrite(r, end, count)
         IN  /\ IsRing(w)
             /\ Holds(w, end + count)
             /\ w.size = r.size + count
             /\ w.capacity = r.capacity
<1> DEFINE c == r.capacity
           h == r.head
           s == r.size
           tail == (h + s) % c
           right == c - tail
           Byte(i) ==
             IF tail <= i /\ i < tail + count
             THEN end + (i - tail)
             ELSE IF count > right /\ i < count - right
                  THEN end + right + i
                  ELSE r.buffer[i]
           w == CircularWrite(r, end, count)
           last == end + count
<1>1. /\ c \in Nat \ {0}
      /\ h \in 0..(c - 1)
      /\ s \in 0..c
      /\ s + count <= c
  BY CapacityAssumption DEF IsRing
<1>2. r.buffer \in [0..(c - 1) -> Int]
  BY DEF IsRing
<1>3. Least(count, c - s) = count
  BY <1>1 DEF Least
<1>4. w = Ring([i \in 0..(c - 1) |-> Byte(i)], c, h, s + count)
  BY <1>3 DEF CircularWrite
<1>5. /\ w = Ring(w.buffer, w.capacity, w.head, w.size)
      /\ w.buffer = [i \in 0..(c - 1) |-> Byte(i)]
      /\ w.capacity = c /\ w.head = h /\ w.size = s + count
  BY <1>4 DEF Ring
<1>6. \/ h + s < c /\ tail = h + s
      \/ h + s >= c /\ tail = h + s - c
  BY <1>1, CellCases
<1> HIDE DEF w, tail, last
<1>7. IsRing(w)
  <2>1. ASSUME NEW i \in 0..(c - 1) PROVE Byte(i) \in Int
    <3>1. tail \in Int /\ right \in Int
      BY <1>1, <1>6
    <3>2. r.buffer[i] \in Int
      BY <1>2
    <3>3. i \in Int
      BY <1>1
    <3> QED BY <3>1, <3>2, <3>3
  <2>2. w.buffer \in [0..(c - 1) -> Int]
    <3> HIDE DEF Byte
    <3> QED BY <1>5, <2>1
  <2>3. c \in 1..MaxCapacity
    BY DEF IsRing
  <2> QED BY <1>1, <1>5, <2>2, <2>3 DEF IsRing
<1>8. Holds(w, last)
  <2> SUFFICES ASSUME NEW i \in 0..(w.size - 1)
               PROVE  w.buffer[(w.head + i) % w.capacity] = last - w.size + i
    BY DEF Holds
  <2>0. i \in 0..(s + count - 1) /\ last - w.size + i = end - s + i
    BY <1>1, <1>5 DEF last
  <2> DEFINE p == (h + i) % c
  <2>1. \/ h + i < c /\ p = h + i
        \/ h + i >= c /\ p = h + i - c
    <3>1. i \in 0..c
      BY <1>1, <2>0
    <3> QED BY <1>1, <3>1, CellCases
  <2>2. CASE i < s
    <3>1. r.buffer[p] = end - s + i
      BY <1>1, <2>0, <2>2 DEF Holds
    <3> HIDE DEF p
    <3>2. p \in 0..(c - 1)
      BY <1>1, <2>0, <2>1
    <3>3. /\ ~(tail <= p /\ p < tail + count)
          /\ ~(count > right /\ p < count - right)
      BY <1>1, <1>6, <2>0, <2>1, <2>2
    <3> QED BY <1>5, <2>0, <3>1, <3>2, <3>3 DEF p
  <2>3. CASE i >= s
    <3> HIDE DEF p
    <3>1. p \in 0..(c - 1)
      BY <1>1, <2>0, <2>1
    <3>2. Byte(p) = end - s + i
      BY <1>1, <1>6, <2>0, <2>1, <2>3
    <3> QED BY <1>5, <2>0, <3>1, <3>2 DEF p
  <2> QED BY <1>1, <2>0, <2>2, <2>3
<1> QED BY <1>5, <1>7, <1>8 DEF w, last

\* Giving up the oldest bytes keeps the others, and makes the room it should.
LEMMA DropOldestKeeps ==
  ASSUME NEW r, IsRing(r), NEW end \in Nat, Holds(r, end),
         NEW count \in Nat, count < r.capacity
  PROVE  LET d == DropOldest(r, count)
         IN  /\ IsRing(d)
             /\ Holds(d, end)
             /\ d.size = Least(r.size, r.capacity - count)
             /\ d.capacity = r.capacity
<1> DEFINE c == r.capacity
           h == r.head
           s == r.size
           k == s - (c - count)
           d == DropOldest(r, count)
<1>1. /\ c \in Nat \ {0}
      /\ h \in 0..(c - 1)
      /\ s \in 0..c
      /\ count < c
  BY CapacityAssumption DEF IsRing
<1>2. c \in 1..MaxCapacity /\ r.buffer \in [0..(c - 1) -> Int]
  BY DEF IsRing
<1>3. CASE c - count >= s
  <2>1. d = r
    BY <1>1, <1>3 DEF DropOldest
  <2>2. Least(s, c - count) = s
    BY <1>1, <1>3 DEF Least
  <2> QED BY <2>1, <2>2
<1>4. CASE c - count < s
  <2>1. /\ d = Ring(d.buffer, d.capacity, d.head, d.size)
        /\ d.buffer = r.buffer
        /\ d.capacity = c
        /\ d.head = (h + k) % c
        /\ d.size = c - count
    BY <1>1, <1>4 DEF DropOldest, Ring
  <2> HIDE DEF d
  <2>2. Least(s, c - count) = c - count
    BY <1>1, <1>4 DEF Least
  <2>3. k \in 0..c /\ k + d.size = s
    BY <1>1, <1>4, <2>1
  <2> HIDE DEF k
  <2>4. \/ h + k < c /\ d.head = h + k
        \/ h + k >= c /\ d.head = h + k - c
    BY <1>1, <2>1, <2>3, CellCases
  <2>5. d.head \in 0..(c - 1)
    BY <1>1, <2>3, <2>4
  <2>6. IsRing(d)
    BY <1>1, <1>2, <1>4, <2>1, <2>5 DEF IsRing
  <2>7. Holds(d, end)
    <3> SUFFICES ASSUME NEW i \in 0..(d.size - 1)
                 PROVE  d.buffer[(d.head + i) % d.capacity] = end - d.size + i
      BY DEF Holds
    <3> DEFINE j == k + i
    <3>1. /\ i \in 0..c
          /\ j \in 0..c
          /\ j \in 0..(s - 1)
          /\ end - d.size + i = end - s + j
      BY <1>1, <2>1, <2>3
    <3>2. h + j = h + k + i
      BY <1>1, <2>3, <3>1
    <3> HIDE DEF j
    <3>3. \/ d.head + i < c /\ (d.head + i) % c = d.head + i
          \/ d.head + i >= c /\ (d.head + i) % c = d.head + i - c
      BY <1>1, <2>5, <3>1, CellCases
    <3>4. \/ h + j < c /\ (h + j) % c = h + j
          \/ h + j >= c /\ (h + j) % c = h + j - c
      BY <1>1, <3>1, CellCases
    <3>5. (d.head + i) % c = (h + j) % c
      BY <1>1, <2>3, <2>4, <3>1, <3>2, <3>3, <3>4
    <3>6. r.buffer[(h + j) % c] = end - s + j
      BY <3>1 DEF Holds
    <3> QED BY <2>1, <3>1, <3>5, <3>6
  <2> QED BY <2>1, <2>2, <2>6, <2>7 DEF d
<1> QED BY <1>1, <1>3, <1>4

\* What the buffer is before and after every write: a circular buffer with the
\* last MaxCapacity bytes before position end, or all of them if they are fewer.
Retains(r, end) ==
  IsRing(r) /\ Holds(r, end) /\ r.size = Least(end, MaxCapacity)

\* A write of count bytes at position end leaves the last bytes before position
\* end + count.
LEMMA OverwriteRetains ==
  ASSUME NEW r, NEW end \in Nat, Retains(r, end), NEW count \in Nat
  PROVE  Retains(Overwrite(r, end, count), end + count)
<1> DEFINE desired == r.size + count
           e == IF desired > r.capacity /\ r.capacity < MaxCapacity
                THEN ExpandBuffer(r, desired) ELSE r
           rest == count - e.capacity
           cleared == Ring(e.buffer, e.capacity, e.head, 0)
<1>1. /\ MaxCapacity \in Nat \ {0}
      /\ r.capacity \in 1..MaxCapacity
      /\ r.size \in 0..r.capacity
      /\ r.size = Least(end, MaxCapacity)
      /\ IsRing(r) /\ Holds(r, end)
  BY CapacityAssumption DEF Retains, IsRing
<1>2. /\ IsRing(e) /\ Holds(e, end)
      /\ e.size = r.size
      /\ e.capacity >= desired \/ e.capacity = MaxCapacity
  <2>1. CASE desired > r.capacity /\ r.capacity < MaxCapacity
    <3>1. /\ IsRing(e) /\ Holds(e, end) /\ e.size = r.size
          /\ e.capacity = NewCapacity(r, desired)
      BY <1>1, <2>1, ExpandBufferKeeps
    <3>2. NewCapacity(r, desired) >= desired \/ NewCapacity(r, desired) = MaxCapacity
      BY <1>1 DEF NewCapacity, Least, Greatest
    <3> QED BY <3>1, <3>2
  <2>2. CASE ~(desired > r.capacity /\ r.capacity < MaxCapacity)
    BY <1>1, <2>2
  <2> QED BY <2>1, <2>2
<1> HIDE DEF e
<1>3. e.capacity \in 1..MaxCapacity
  BY <1>2 DEF IsRing
<1>4. CASE count >= e.capacity
  <2> DEFINE w == CircularWrite(cleared, end + rest, e.capacity)
  <2>1. /\ cleared.capacity = e.capacity
        /\ cleared.size = 0
    BY DEF Ring
  <2>2. IsRing(cleared)
    BY <1>2, <1>3 DEF IsRing, Ring
  <2>3. Holds(cleared, end + rest)
    BY <2>1 DEF Holds
  <2>4. end + rest \in Nat /\ (end + rest) + e.capacity = end + count
    BY <1>1, <1>3, <1>4
  <2> HIDE DEF cleared
  <2>5. IsRing(w) /\ Holds(w, end + count) /\ w.size = e.capacity
    BY <1>3, <2>1, <2>2, <2>3, <2>4, CircularWriteAppends
  <2>6. e.capacity = Least(end + count, MaxCapacity)
    BY <1>1, <1>2, <1>3, <1>4 DEF Least
  <2>7. Overwrite(r, end, count) = w
    BY <1>4 DEF Overwrite, e, cleared
  <2> QED BY <2>5, <2>6, <2>7 DEF Retains
<1>5. CASE count < e.capacity
  <2> DEFINE d == DropOldest(e, count)
             w == CircularWrite(d, end, count)
  <2>1. /\ IsRing(d) /\ Holds(d, end)
        /\ d.size = Least(e.size, e.capacity - count)
        /\ d.capacity = e.capacity
    BY <1>2, <1>5, DropOldestKeeps
  <2> HIDE DEF d
  <2>2. d.size \in Nat /\ d.size + count <= d.capacity
    BY <1>1, <1>2, <1>3, <1>5, <2>1 DEF Least
  <2>3. IsRing(w) /\ Holds(w, end + count) /\ w.size = d.size + count
    BY <2>1, <2>2, CircularWriteAppends
  <2>4. d.size + count = Least(end + count, MaxCapacity)
    BY <1>1, <1>2, <1>3, <1>5, <2>1 DEF Least
  <2>5. Overwrite(r, end, count) = w
    BY <1>3, <1>5 DEF Overwrite, e, d
  <2> QED BY <2>3, <2>4, <2>5 DEF Retains
<1> QED BY <1>3, <1>4, <1>5

\* Reading from inside of the content gives it from there on, in order.
LEMMA CircularReadReads ==
  ASSUME NEW r, IsRing(r), NEW end \in Nat, Holds(r, end),
         NEW count \in Nat, NEW start \in Nat, start < r.size
  PROVE  CircularRead(r, count, start) =
           [j \in 1..Least(count, r.size - start) |-> end - r.size + start + (j - 1)]
<1> DEFINE c == r.capacity
           h == r.head
           n == Least(count, r.size - start)
           front == (h + start) % c
           Byte(j) == IF j < c - front THEN r.buffer[front + j]
                                       ELSE r.buffer[j - (c - front)]
<1>1. /\ c \in Nat \ {0}
      /\ h \in 0..(c - 1)
      /\ r.size \in 0..c
      /\ n \in 0..(r.size - start)
  BY CapacityAssumption DEF IsRing, Least
<1>2. CircularRead(r, count, start) = [j \in 1..n |-> Byte(j - 1)]
  BY DEF CircularRead
<1>3. \/ h + start < c /\ front = h + start
      \/ h + start >= c /\ front = h + start - c
  <2>1. start \in 0..c
    BY <1>1
  <2> QED BY <1>1, <2>1, CellCases
<1> HIDE DEF front, n
<1>4. ASSUME NEW j \in 1..n
      PROVE  Byte(j - 1) = end - r.size + start + (j - 1)
  <2> DEFINE i == start + (j - 1)
  <2>1. i \in 0..(r.size - 1) /\ i \in 0..c
    BY <1>1
  <2> HIDE DEF i
  <2>2. r.buffer[(h + i) % c] = end - r.size + i
    BY <2>1 DEF Holds
  <2>3. \/ h + i < c /\ (h + i) % c = h + i
        \/ h + i >= c /\ (h + i) % c = h + i - c
    BY <1>1, <2>1, CellCases
  <2>4. \/ j - 1 < c - front /\ front + (j - 1) = (h + i) % c
        \/ ~(j - 1 < c - front) /\ (j - 1) - (c - front) = (h + i) % c
    BY <1>1, <1>3, <2>3 DEF i
  <2>5. Byte(j - 1) = r.buffer[(h + i) % c]
    BY <2>4
  <2>6. end - r.size + i = end - r.size + start + (j - 1)
    BY <1>1 DEF i
  <2> QED BY <2>2, <2>5, <2>6
<1> HIDE DEF Byte
<1> QED BY <1>2, <1>4 DEF n

-------------------------------------------------------------------------------
(* Reads. *)

\* The bytes from position first on.
Run(first, count) == [j \in 1..count |-> first + j - 1]

LEMMA RunType ==
  ASSUME NEW first \in Int, NEW count \in Nat
  PROVE  Run(first, count) \in Seq(Int) /\ Len(Run(first, count)) = count
BY DEF Run

\* What _tryRead answers: data exactly if the position is written, and then the
\* bytes from that position, or from the oldest one that is retained.
LEMMA TryReadAnswers ==
  ASSUME Retains(ring, writtenBytes), writtenBytes \in Nat, closed \in BOOLEAN,
         NEW begin \in Nat, NEW count \in Nat
  PROVE  LET t == TryRead(begin, count)
             oldest == writtenBytes - ring.size
         IN  \/ /\ begin >= writtenBytes
                /\ t.result = (IF closed THEN Closed ELSE Timeout)
                /\ t.bytes = <<>>
             \/ /\ begin < writtenBytes
                /\ \E n \in Nat :
                     /\ t.result = Data(Greatest(begin, oldest), n)
                     /\ t.bytes = Run(Greatest(begin, oldest), n)
                     /\ n = Least(count, writtenBytes - Greatest(begin, oldest))
<1> DEFINE oldest == writtenBytes - ring.size
           start == IF begin <= oldest THEN 0 ELSE begin - oldest
           first == Greatest(begin, oldest)
           n == Least(count, writtenBytes - first)
<1>1. CASE begin >= writtenBytes
  BY <1>1 DEF TryRead
<1>2. CASE begin < writtenBytes
  <2>1. ring.size \in Nat /\ ring.size = Least(writtenBytes, MaxCapacity)
        /\ MaxCapacity \in Nat \ {0} /\ IsRing(ring) /\ Holds(ring, writtenBytes)
    BY CapacityAssumption DEF Retains, IsRing
  <2>2. /\ oldest \in Nat
        /\ start \in Nat
        /\ start < ring.size
        /\ oldest + start = first
        /\ first \in Nat
        /\ ring.size - start = writtenBytes - first
    BY <1>2, <2>1 DEF Least, Greatest
  <2>3. n \in Nat
    BY <1>2, <2>1, <2>2 DEF Least
  <2> DEFINE bytes == CircularRead(ring, count, start)
  <2>4. bytes = [j \in 1..n |-> oldest + start + (j - 1)]
    <3> HIDE DEF start, first
    <3> QED BY <2>1, <2>2, CircularReadReads
  <2> HIDE DEF bytes, n
  <2>5. bytes = Run(first, n)
    <3>1. \A j \in 1..n : oldest + start + (j - 1) = first + j - 1
      <4> HIDE DEF first, start
      <4> QED BY <2>2, <2>3
    <3> QED BY <2>4, <3>1 DEF Run
  <2>6. Len(bytes) = n
    BY <2>2, <2>3, <2>5, RunType
  <2>7. /\ TryRead(begin, count).result = Data(oldest + start, Len(bytes))
        /\ TryRead(begin, count).bytes = bytes
    BY <1>2 DEF TryRead, bytes
  <2> QED BY <1>2, <2>2, <2>3, <2>5, <2>6, <2>7 DEF n
<1>3. writtenBytes \in Int /\ begin \in Int
  OBVIOUS
<1> QED BY <1>1, <1>2, <1>3

-------------------------------------------------------------------------------
(* The type invariant and the content of the buffer. *)

\* The circular buffer is one, with the content it should have.
LEMMA RetainsRing ==
  TypeOK /\ LastBytesKept <=>
    TypeOK /\ Retains(ring, writtenBytes)
BY DEF TypeOK, LastBytesKept, Retains

LEMMA ResultTypes ==
  /\ \A begin, count \in Nat : Data(begin, count) \in Results
  /\ Closed \in Results
  /\ Timeout \in Results
BY DEF Results, Data, Closed, Timeout

LEMMA InitTypeOK == Init => TypeOK /\ LastBytesKept
<1> SUFFICES ASSUME Init PROVE TypeOK /\ LastBytesKept
  OBVIOUS
<1> DEFINE capacity == Least(InitialCapacity, MaxCapacity)
<1>1. capacity \in 1..MaxCapacity
  BY CapacityAssumption DEF Least
<1> HIDE DEF capacity
<1>2. ring = Ring([i \in 0..(capacity - 1) |-> Garbage], capacity, 0, 0)
  BY DEF Init, capacity
<1>3. IsRing(ring) /\ ring.size = 0
  BY <1>1, <1>2, CapacityAssumption DEF IsRing, Ring, Garbage
<1>4. LastBytesKept
  BY <1>3, CapacityAssumption DEF Init, LastBytesKept, Holds, Least
<1>5. TypeOK
  <2>1. Data(0, 0) \in Results /\ <<>> \in Seq(Int)
    BY ResultTypes
  <2>2. /\ pc \in [Reads -> Calls]
        /\ reply \in [Reads -> Results] /\ result \in [Reads -> Results]
        /\ target \in [Reads -> Seq(Int)]
    BY <2>1 DEF Init, Calls
  <2>3. req \in [Reads -> Requests]
    BY DEF Init, Requests
  <2>4. 0 \in 0..(SizeMod - 1) /\ 0 \in Nat
    BY PurgeAssumption
  <2> QED BY <1>3, <2>2, <2>3, <2>4 DEF Init, TypeOK
<1> QED BY <1>4, <1>5

LEMMA TranslateBeginType ==
  ASSUME writtenBytes \in Nat, NEW b \in Int
  PROVE  TranslateBegin(b) \in Nat
BY DEF TranslateBegin, Greatest

LEMMA TryReadTypes ==
  ASSUME TypeOK, LastBytesKept, NEW begin \in Nat, NEW count \in Nat
  PROVE  /\ TryRead(begin, count).result \in Results
         /\ TryRead(begin, count).bytes \in Seq(Int)
<1> DEFINE oldest == writtenBytes - ring.size
           first == Greatest(begin, oldest)
<1>1. /\ Retains(ring, writtenBytes) /\ writtenBytes \in Nat
      /\ closed \in BOOLEAN /\ ring.size \in Nat /\ oldest \in Nat
  BY CapacityAssumption, RetainsRing DEF TypeOK, LastBytesKept, IsRing, Least
<1>2. first \in Nat
  BY <1>1 DEF Greatest
<1> HIDE DEF first
<1>3. CASE begin >= writtenBytes
  <2>1. /\ TryRead(begin, count).result = (IF closed THEN Closed ELSE Timeout)
        /\ TryRead(begin, count).bytes = <<>>
    BY <1>1, <1>3 DEF TryRead
  <2> QED BY <2>1, ResultTypes
<1>4. CASE begin < writtenBytes
  <2>1. PICK n \in Nat : /\ TryRead(begin, count).result = Data(first, n)
                         /\ TryRead(begin, count).bytes = Run(first, n)
    <3>1. ~(begin >= writtenBytes)
      BY <1>1, <1>4
    <3> QED BY <1>1, <3>1, TryReadAnswers DEF first
  <2> QED BY <1>2, <2>1, RunType, ResultTypes
<1> QED BY <1>1, <1>3, <1>4

LEMMA SignalType ==
  ASSUME TypeOK, NEW S, Signal(S)
  PROVE  pc' \in [Reads -> Calls]
BY DEF TypeOK, Signal, Calls

LEMMA ProcessTypes ==
  ASSUME TypeOK, NEW count \in Nat, NEW written \in Nat, Process(written, count)
  PROVE  /\ heap' \subseteq Reads
         /\ heapSize' \in 0..(SizeMod - 1)
         /\ activeCount' \in 0..(SizeMod - 1)
         /\ reply' \in [Reads -> Results]
         /\ target' \in [Reads -> Seq(Int)]
         /\ pc' \in [Reads -> Calls]
<1> DEFINE popped == Reached(written)
           served == popped \ cancelled
           Granted(c) == Least(req[c].count, written - req[c].begin)
<1>1. popped \subseteq Reads /\ served \subseteq Reads
  BY DEF TypeOK, Reached
<1>2. ASSUME NEW c \in served
      PROVE  Granted(c) \in Nat /\ req[c].begin \in Nat
  BY <1>1 DEF TypeOK, Requests, Reached, Least
<1>3. ASSUME NEW c \in served
      PROVE  /\ Data(req[c].begin, Granted(c)) \in Results
             /\ ChunkBytes(count, req[c].begin - writtenBytes, Granted(c)) \in Seq(Int)
  <2> HIDE DEF Granted, served
  <2>1. writtenBytes \in Nat
    BY DEF TypeOK
  <2>2. Data(req[c].begin, Granted(c)) \in Results
    BY ONLY <1>2, c \in served, ResultTypes
  <2>3. ChunkBytes(count, req[c].begin - writtenBytes, Granted(c)) \in Seq(Int)
    <3> DEFINE n == Granted(c)
               at(j) == IF req[c].begin - writtenBytes + j - 1 \in 0..(count - 1)
                        THEN writtenBytes + (req[c].begin - writtenBytes) + j - 1
                        ELSE Garbage
    <3>1. n \in Nat /\ \A j \in 1..n : at(j) \in Int
      BY <1>2, <2>1 DEF Garbage
    <3>2. ChunkBytes(count, req[c].begin - writtenBytes, n) = [j \in 1..n |-> at(j)]
      BY DEF ChunkBytes
    <3> HIDE DEF n, at
    <3>3. [j \in 1..n |-> at(j)] \in Seq(Int)
      BY ONLY <3>1
    <3> QED BY <3>2, <3>3 DEF n
  <2> QED BY <2>2, <2>3
<1>4. /\ heap' = heap \ popped
      /\ heapSize' = (heapSize - Cardinality(popped)) % SizeMod
      /\ activeCount' = (activeCount - Cardinality(served)) % SizeMod
      /\ reply' = [c \in Reads |-> IF c \in served
                                   THEN Data(req[c].begin, Granted(c)) ELSE reply[c]]
      /\ target' = [c \in Reads |->
                      IF c \in served
                      THEN ChunkBytes(count, req[c].begin - writtenBytes, Granted(c))
                      ELSE target[c]]
      /\ Signal(served)
  BY DEF Process
<1> HIDE DEF popped, served, Granted
<1>5. reply' \in [Reads -> Results] /\ target' \in [Reads -> Seq(Int)]
  BY <1>3, <1>4 DEF TypeOK
<1>6. /\ Cardinality(popped) \in Nat
      /\ Cardinality(served) \in Nat
  BY <1>1, ReadsFinite, FS_Subset, FS_CardinalityType
<1>7. heapSize' \in 0..(SizeMod - 1) /\ activeCount' \in 0..(SizeMod - 1)
  <2> DEFINE a == heapSize - Cardinality(popped)
             b == activeCount - Cardinality(served)
  <2>1. a \in Int /\ b \in Int /\ SizeMod \in Nat \ {0}
    BY <1>6, PurgeAssumption DEF TypeOK
  <2>2. heapSize' = a % SizeMod /\ activeCount' = b % SizeMod
    BY <1>4
  <2> HIDE DEF a, b
  <2> QED BY <2>1, <2>2, ModRange
<1> QED BY <1>1, <1>4, <1>5, <1>7, SignalType DEF TypeOK

\* The number of reads that wait is counted in a size_t.
LEMMA CountTypes ==
  ASSUME TypeOK, NEW k \in {1, -1}
  PROVE  /\ (heapSize + k) % SizeMod \in 0..(SizeMod - 1)
         /\ (activeCount + k) % SizeMod \in 0..(SizeMod - 1)
<1> DEFINE a == heapSize + k
           b == activeCount + k
<1>1. a \in Int /\ b \in Int /\ SizeMod \in Nat \ {0}
  BY PurgeAssumption DEF TypeOK
<1> HIDE DEF a, b
<1>2. a % SizeMod \in 0..(SizeMod - 1) /\ b % SizeMod \in 0..(SizeMod - 1)
  BY <1>1, ModRange
<1> QED BY <1>2 DEF a, b

LEMMA StepTypeOK ==
  ASSUME TypeOK, LastBytesKept, [Next]_vars
  PROVE  TypeOK' /\ LastBytesKept'
<1> USE InputAssumption
<1>1. ASSUME NEW count \in Chunks, Write(count)
      PROVE  TypeOK' /\ LastBytesKept'
  <2>1. /\ ring' = Overwrite(ring, writtenBytes, count)
        /\ writtenBytes' = writtenBytes + count
        /\ writtenBytes \in Nat /\ count \in Nat /\ writtenBytes' \in Nat
        /\ Process(writtenBytes', count)
    BY <1>1 DEF Write, TypeOK
  <2>2. Retains(Overwrite(ring, writtenBytes, count), writtenBytes + count)
    BY <2>1, OverwriteRetains, RetainsRing
  <2>3. Retains(ring', writtenBytes')
    BY <2>1, <2>2
  <2>4. IsRing(ring') /\ LastBytesKept'
    BY <2>3 DEF Retains, LastBytesKept
  <2>5. /\ heap' \subseteq Reads
        /\ heapSize' \in 0..(SizeMod - 1)
        /\ activeCount' \in 0..(SizeMod - 1)
        /\ reply' \in [Reads -> Results]
        /\ target' \in [Reads -> Seq(Int)]
        /\ pc' \in [Reads -> Calls]
    BY <2>1, ProcessTypes
  <2>6. UNCHANGED <<cancelled, raced, req, result, closed>>
    BY <1>1 DEF Write, Process
  <2> QED BY <2>1, <2>4, <2>5, <2>6 DEF TypeOK
<1>2. ASSUME NEW c \in Reads, NEW b \in Begins, NEW n \in Counts,
             NEW timed \in BOOLEAN, ReadNow(c, b, n, timed)
      PROVE  TypeOK' /\ LastBytesKept'
  <2> DEFINE at == TranslateBegin(b)
  <2>1. at \in Nat /\ n \in Nat
    BY TranslateBeginType DEF TypeOK
  <2>2. TryRead(at, n).result \in Results /\ TryRead(at, n).bytes \in Seq(Int)
    BY <2>1, TryReadTypes
  <2>3. [begin |-> at, count |-> n, timed |-> timed] \in Requests
    BY <2>1 DEF Requests
  <2> HIDE DEF at
  <2>4. /\ req' \in [Reads -> Requests]
        /\ result' \in [Reads -> Results]
        /\ target' \in [Reads -> Seq(Int)]
        /\ pc' \in [Reads -> Calls]
        /\ UNCHANGED <<ringVars, closed, listVars, reply>>
    BY <1>2, <2>2, <2>3 DEF ReadNow, TypeOK, Calls, at
  <2> QED BY <2>4 DEF TypeOK, LastBytesKept, ringVars, listVars
<1>3. ASSUME NEW c \in Reads, NEW b \in Begins, NEW n \in Counts,
             NEW timed \in BOOLEAN, ReadWait(c, b, n, timed)
      PROVE  TypeOK' /\ LastBytesKept'
  <2>1. TranslateBegin(b) \in Nat /\ n \in Nat
    BY TranslateBeginType DEF TypeOK
  <2>2. [begin |-> TranslateBegin(b), count |-> n, timed |-> timed] \in Requests
    BY <2>1 DEF Requests
  <2>3. /\ req' \in [Reads -> Requests]
        /\ pc' \in [Reads -> Calls]
        /\ heap' \subseteq Reads
        /\ UNCHANGED <<ringVars, closed, reply, result, target, cancelled, raced>>
    BY <1>3, <2>2 DEF ReadWait, Add, TypeOK, Calls
  <2>4. /\ heapSize' \in 0..(SizeMod - 1)
        /\ activeCount' \in 0..(SizeMod - 1)
    BY <1>3, CountTypes DEF ReadWait, Add
  <2> QED BY <2>3, <2>4 DEF TypeOK, LastBytesKept, ringVars
<1>4. ASSUME NEW c \in Reads, NEW b \in Begins, NEW n \in Counts,
             TryReadNothing(c, b, n)
      PROVE  TypeOK' /\ LastBytesKept'
  <2>1. TranslateBegin(b) \in Nat /\ n \in Nat
    BY TranslateBeginType DEF TypeOK
  <2>2. [begin |-> TranslateBegin(b), count |-> n, timed |-> TRUE] \in Requests
    BY <2>1 DEF Requests
  <2>3. /\ req' \in [Reads -> Requests]
        /\ pc' \in [Reads -> Calls]
        /\ result' \in [Reads -> Results]
        /\ UNCHANGED <<ringVars, closed, listVars, reply, target>>
    BY <1>4, <2>2, ResultTypes DEF TryReadNothing, TypeOK, Calls
  <2> QED BY <2>3 DEF TypeOK, LastBytesKept, ringVars, listVars
<1>5. ASSUME NEW c \in Reads, Expire(c)
      PROVE  TypeOK' /\ LastBytesKept'
  <2>1. pc' \in [Reads -> Calls]
    BY <1>5 DEF Expire, TypeOK, Calls
  <2> QED BY <1>5, <2>1 DEF Expire, TypeOK, LastBytesKept, ringVars, listVars
<1>6. ASSUME NEW c \in Reads, Return(c)
      PROVE  TypeOK' /\ LastBytesKept'
  <2>1. pc' \in [Reads -> Calls] /\ result' \in [Reads -> Results]
    BY <1>6 DEF Return, TypeOK, Calls
  <2> QED BY <1>6, <2>1 DEF Return, TypeOK, LastBytesKept, ringVars, listVars
<1>7. ASSUME NEW c \in Reads, GiveUp(c)
      PROVE  TypeOK' /\ LastBytesKept'
  <2>1. pc' \in [Reads -> Calls] /\ result' \in [Reads -> Results]
    BY <1>7, ResultTypes DEF GiveUp, TypeOK, Calls
  <2>2. /\ heap' \subseteq Reads
        /\ cancelled' \subseteq Reads
        /\ raced' \subseteq Reads
    BY <1>7 DEF GiveUp, Cancel, Mark, Rebuilt, TypeOK
  <2>3. /\ activeCount' \in 0..(SizeMod - 1)
        /\ heapSize' \in 0..(SizeMod - 1)
    <3>1. activeCount' = (activeCount - 1) % SizeMod
          /\ heapSize' \in {heapSize, activeCount'}
      BY <1>7 DEF GiveUp, Cancel
    <3>2. activeCount - 1 = activeCount + (-1)
      BY DEF TypeOK
    <3>3. activeCount' \in 0..(SizeMod - 1)
      BY <3>1, <3>2, CountTypes
    <3> QED BY <3>1, <3>3 DEF TypeOK
  <2>4. UNCHANGED <<ringVars, closed, req, reply, target>>
    BY <1>7 DEF GiveUp
  <2> QED BY <2>1, <2>2, <2>3, <2>4 DEF TypeOK, LastBytesKept, ringVars
<1>8. ASSUME Close
      PROVE  TypeOK' /\ LastBytesKept'
  <2>1. pc' \in [Reads -> Calls]
    BY <1>8, SignalType DEF Close
  <2>2. reply' \in [Reads -> Results]
    BY <1>8, ResultTypes DEF Close, TypeOK
  <2>3. 0 \in 0..(SizeMod - 1)
    BY PurgeAssumption
  <2> QED BY <1>8, <2>1, <2>2, <2>3 DEF Close, TypeOK, LastBytesKept, ringVars
<1>9. ASSUME UNCHANGED vars
      PROVE  TypeOK' /\ LastBytesKept'
  BY <1>9 DEF vars, ringVars, listVars, callVars, TypeOK, LastBytesKept
<1> QED BY <1>1, <1>2, <1>3, <1>4, <1>5, <1>6, <1>7, <1>8, <1>9 DEF Next

\* Every field of the buffer and of the reader list stays in its range, and the
\* buffer always holds the last bytes of the output.
THEOREM BufferCorrect == Spec => [](TypeOK /\ LastBytesKept)
<1>1. Init => TypeOK /\ LastBytesKept
  BY InitTypeOK
<1>2. TypeOK /\ LastBytesKept /\ [Next]_vars => (TypeOK /\ LastBytesKept)'
  BY StepTypeOK
<1> QED BY <1>1, <1>2, PTL DEF Spec

\* In particular the position and the size of the content never leave the array,
\* nor the array the configured capacity: expansions, overwrites and reads only
\* touch what is allocated.
THEOREM TypeCorrect == Spec => []TypeOK
<1> QED BY BufferCorrect, PTL

-------------------------------------------------------------------------------
(* The list of waiting readers. *)

\* What makes the list right whatever its counters say: a cancelled request is
\* that of a call that has returned, and any other one in the heap is that of a
\* call that still waits, at worst for the mutex after its time is up.
ListInv ==
  /\ ReadersAhead
  /\ WaitersListed
  /\ \A c \in cancelled : pc[c] = "done"
  /\ \A c \in heap \ cancelled : pc[c] \in {"waiting", "expired"}

LEMMA InitListInv == Init => ListInv
BY DEF Init, ListInv, ReadersAhead, WaitersListed

LEMMA SignalWakes ==
  ASSUME TypeOK, NEW S, Signal(S), NEW c \in Reads
  PROVE  pc'[c] = IF c \in S /\ pc[c] = "waiting" THEN "signalled" ELSE pc[c]
BY DEF Signal

LEMMA StepListInv ==
  ASSUME TypeOK, ListInv, [Next]_vars
  PROVE  ListInv'
<1> USE DEF ListInv
<1>1. ASSUME NEW count \in Chunks, Write(count)
      PROVE  ListInv'
  <2> DEFINE popped == Reached(writtenBytes')
  <2>1. /\ heap' = heap \ popped
        /\ Signal(popped \ cancelled)
        /\ UNCHANGED <<cancelled, req>>
    BY <1>1 DEF Write, Process
  <2>2. \A c \in Reads : pc'[c] = IF c \in popped \ cancelled /\ pc[c] = "waiting"
                                 THEN "signalled" ELSE pc[c]
    BY <2>1, SignalWakes
  <2>3. heap \subseteq Reads /\ cancelled \subseteq Reads
    BY DEF TypeOK
  <2>4. ReadersAhead'
    <3>1. ASSUME NEW c \in heap, c \notin popped
          PROVE  req[c].begin >= writtenBytes'
      <4>1. ~(req[c].begin < writtenBytes')
        BY <3>1 DEF Reached
      <4>2. req[c].begin \in Nat /\ writtenBytes' \in Nat
        BY <1>1, <2>3, InputAssumption DEF Write, TypeOK, Requests
      <4> QED BY <4>1, <4>2
    <3> QED BY <2>1, <3>1 DEF ReadersAhead
  <2> HIDE DEF popped
  <2>5. WaitersListed'
    BY <2>1, <2>2 DEF WaitersListed
  <2>6. \A c \in cancelled' : pc'[c] = "done"
    BY <2>1, <2>2, <2>3
  <2>7. \A c \in heap' \ cancelled' : pc'[c] \in {"waiting", "expired"}
    BY <2>1, <2>2, <2>3
  <2> QED BY <2>4, <2>5, <2>6, <2>7
<1>2. ASSUME NEW c \in Reads, pc[c] = "idle", pc' = [pc EXCEPT ![c] = "done"],
             NEW q, req' = [req EXCEPT ![c] = q], UNCHANGED <<ringVars, listVars>>
      PROVE  ListInv'
  <2>1. c \notin heap /\ c \notin cancelled
    BY <1>2
  <2>2. \A x \in Reads : x # c => pc'[x] = pc[x] /\ req'[x] = req[x]
    BY <1>2 DEF TypeOK
  <2>3. pc'[c] = "done"
    BY <1>2 DEF TypeOK
  <2>4. heap \subseteq Reads /\ cancelled \subseteq Reads
    BY DEF TypeOK
  <2> QED BY <1>2, <2>1, <2>2, <2>3, <2>4
          DEF ReadersAhead, WaitersListed, ringVars, listVars
<1>3. ASSUME NEW c \in Reads, NEW b \in Begins, NEW n \in Counts,
             NEW timed \in BOOLEAN, ReadWait(c, b, n, timed)
      PROVE  ListInv'
  <2> DEFINE at == TranslateBegin(b)
  <2>1. c \notin cancelled
    BY <1>3 DEF ReadWait
  <2>2. at >= writtenBytes
    <3>1. at \in Nat /\ writtenBytes \in Nat
      BY InputAssumption, TranslateBeginType DEF TypeOK
    <3>2. TryRead(at, n).result = Timeout
      BY <1>3 DEF ReadWait
    <3>3. ~(at < writtenBytes)
      BY <3>2 DEF TryRead, Data, Timeout
    <3> QED BY <3>1, <3>3
  <2>3. /\ heap' = heap \cup {c}
        /\ pc' = [pc EXCEPT ![c] = "waiting"]
        /\ req' = [req EXCEPT ![c] = [begin |-> at, count |-> n, timed |-> timed]]
        /\ UNCHANGED <<cancelled, writtenBytes>>
    BY <1>3 DEF ReadWait, Add, ringVars
  <2> HIDE DEF at
  <2>4. \A x \in Reads : x # c => pc'[x] = pc[x] /\ req'[x] = req[x]
    BY <2>3 DEF TypeOK
  <2>5. pc'[c] = "waiting" /\ req'[c].begin = at
    BY <2>3 DEF TypeOK
  <2>6. heap \subseteq Reads /\ cancelled \subseteq Reads
    BY DEF TypeOK
  <2> QED BY <2>1, <2>2, <2>3, <2>4, <2>5, <2>6 DEF ReadersAhead, WaitersListed
<1>4. ASSUME NEW c \in Reads, Expire(c)
      PROVE  ListInv'
  <2>1. /\ pc[c] = "waiting" /\ pc'[c] = "expired"
        /\ \A x \in Reads : x # c => pc'[x] = pc[x]
        /\ UNCHANGED <<ringVars, listVars, req>>
    BY <1>4 DEF Expire, TypeOK
  <2>2. heap \subseteq Reads /\ cancelled \subseteq Reads
    BY DEF TypeOK
  <2> QED BY <2>1, <2>2 DEF ReadersAhead, WaitersListed, ringVars, listVars
<1>5. ASSUME NEW c \in Reads, Return(c)
      PROVE  ListInv'
  <2>1. /\ pc[c] = "signalled" /\ pc'[c] = "done"
        /\ \A x \in Reads : x # c => pc'[x] = pc[x]
        /\ UNCHANGED <<ringVars, listVars, req>>
    BY <1>5 DEF Return, TypeOK
  <2>2. heap \subseteq Reads /\ cancelled \subseteq Reads
    BY DEF TypeOK
  <2> QED BY <2>1, <2>2 DEF ReadersAhead, WaitersListed, ringVars, listVars
<1>6. ASSUME NEW c \in Reads, GiveUp(c)
      PROVE  ListInv'
  <2>1. /\ pc[c] = "expired" /\ pc'[c] = "done"
        /\ \A x \in Reads : x # c => pc'[x] = pc[x]
        /\ cancelled' = cancelled \cup {c}
        /\ heap' \in {heap, heap \ cancelled'}
        /\ UNCHANGED <<ringVars, req>>
    BY <1>6 DEF GiveUp, Cancel, Mark, Rebuilt, TypeOK
  <2>2. heap \subseteq Reads /\ cancelled \subseteq Reads
    BY DEF TypeOK
  <2> QED BY <2>1, <2>2 DEF ReadersAhead, WaitersListed, ringVars
<1>7. ASSUME Close
      PROVE  ListInv'
  <2>1. \A c \in Reads : pc'[c] = IF c \in heap /\ pc[c] = "waiting"
                                 THEN "signalled" ELSE pc[c]
    BY <1>7, SignalWakes DEF Close
  <2>2. heap' = {} /\ UNCHANGED cancelled /\ cancelled \subseteq Reads
    BY <1>7 DEF Close, TypeOK
  <2> QED BY <2>1, <2>2 DEF ReadersAhead, WaitersListed
<1>8. CASE UNCHANGED vars
  BY <1>8 DEF vars, ringVars, listVars, callVars, ReadersAhead, WaitersListed
<1> QED
  <2>1. ASSUME NEW c \in Reads, NEW b \in Begins, NEW n \in Counts,
               NEW timed \in BOOLEAN, ReadNow(c, b, n, timed)
        PROVE  ListInv'
    <3> HIDE DEF ListInv
    <3> QED BY <2>1, <1>2 DEF ReadNow
  <2>2. ASSUME NEW c \in Reads, NEW b \in Begins, NEW n \in Counts,
               TryReadNothing(c, b, n)
        PROVE  ListInv'
    <3> HIDE DEF ListInv
    <3> QED BY <2>2, <1>2 DEF TryReadNothing
  <2> HIDE DEF ListInv
  <2> QED BY <1>1, <2>1, <2>2, <1>3, <1>4, <1>5, <1>6, <1>7, <1>8 DEF Next

\* No reader that waits is ever forgotten, and write() never pops a request whose
\* position is before its chunk: its assertion holds.
THEOREM ReadersListed == Spec => [](ReadersAhead /\ WaitersListed)
<1>1. Init => TypeOK /\ LastBytesKept /\ ListInv
  BY InitTypeOK, InitListInv
<1>2. TypeOK /\ LastBytesKept /\ ListInv /\ [Next]_vars
        => (TypeOK /\ LastBytesKept /\ ListInv)'
  BY StepTypeOK, StepListInv
<1>3. ListInv => ReadersAhead /\ WaitersListed
  BY DEF ListInv
<1> QED BY <1>1, <1>2, <1>3, PTL DEF Spec

-------------------------------------------------------------------------------
(* The counters of the reader list. *)

\* A size_t counts any set of calls without wrapping.
LEMMA ReadsCounted ==
  ASSUME Cardinality(Reads) < SizeMod, NEW S \in SUBSET Reads
  PROVE  /\ IsFiniteSet(S) /\ Cardinality(S) \in Nat
         /\ Cardinality(S) % SizeMod = Cardinality(S)
<1>1. IsFiniteSet(S) /\ Cardinality(S) <= Cardinality(Reads)
  BY ReadsFinite, FS_Subset
<1>2. Cardinality(S) \in Nat /\ Cardinality(Reads) \in Nat
  BY <1>1, ReadsFinite, FS_CardinalityType
<1>3. PICK k \in Nat : k = Cardinality(S)
  BY <1>2
<1>4. k < SizeMod /\ SizeMod \in Nat \ {0}
  BY <1>1, <1>2, <1>3, PurgeAssumption
<1>5. k % SizeMod = k
  BY <1>4, ModSmall
<1> QED BY <1>1, <1>3, <1>5

\* Counting one call more.
LEMMA OneMore ==
  ASSUME Cardinality(Reads) < SizeMod, NEW S \in SUBSET Reads, NEW c \in Reads \ S
  PROVE  (Cardinality(S) + 1) % SizeMod = Cardinality(S \cup {c})
<1>1. Cardinality(S \cup {c}) = Cardinality(S) + 1
  BY ReadsCounted, FS_AddElement
<1>2. S \cup {c} \in SUBSET Reads
  OBVIOUS
<1> QED BY <1>1, <1>2, ReadsCounted

\* Counting those that are gone no more.
LEMMA SomeLess ==
  ASSUME Cardinality(Reads) < SizeMod, NEW S \in SUBSET Reads, NEW T \in SUBSET S
  PROVE  (Cardinality(S) - Cardinality(T)) % SizeMod = Cardinality(S \ T)
<1>1. IsFiniteSet(S) /\ IsFiniteSet(T) /\ S \ T \in SUBSET Reads /\ S \cap T = T
  BY ReadsCounted
<1>2. Cardinality(S \ T) = Cardinality(S) - Cardinality(T)
  BY <1>1, FS_Difference
<1> QED BY <1>1, <1>2, ReadsCounted

\* Each operation on the list counts what it adds and what it removes: add(), the
\* pops of process(), close(), and the cancellation of a request that is in the
\* heap, whether or not the heap is rebuilt.
LEMMA StepCounters ==
  ASSUME Cardinality(Reads) < SizeMod, TypeOK, ListInv, CountersExact, [Next]_vars
  PROVE  CountersExact'
<1>0. heap \in SUBSET Reads /\ heap \ cancelled \in SUBSET Reads /\ cancelled \in SUBSET Reads
  BY DEF TypeOK
<1>1. ASSUME NEW count \in Chunks, Write(count)
      PROVE  CountersExact'
  <2> DEFINE popped == Reached(writtenBytes')
             served == popped \ cancelled
  <2>1. /\ heap' = heap \ popped
        /\ heapSize' = (heapSize - Cardinality(popped)) % SizeMod
        /\ activeCount' = (activeCount - Cardinality(served)) % SizeMod
        /\ UNCHANGED <<cancelled, raced>>
    BY <1>1 DEF Write, Process
  <2>2. popped \in SUBSET heap
    BY DEF Reached
  <2> HIDE DEF popped
  <2>3. /\ served \in SUBSET (heap \ cancelled)
        /\ (heap \ cancelled) \ served = (heap \ popped) \ cancelled
    BY <2>2
  <2> HIDE DEF served
  <2>4. (Cardinality(heap) - Cardinality(popped)) % SizeMod = Cardinality(heap \ popped)
    BY <1>0, <2>2, SomeLess
  <2>5. (Cardinality(heap \ cancelled) - Cardinality(served)) % SizeMod
          = Cardinality((heap \ popped) \ cancelled)
    BY <1>0, <2>3, SomeLess
  <2> QED BY <2>1, <2>4, <2>5 DEF CountersExact
<1>2. ASSUME NEW c \in Reads, NEW b \in Begins, NEW n \in Counts,
             NEW timed \in BOOLEAN, ReadWait(c, b, n, timed)
      PROVE  CountersExact'
  <2>1. /\ pc[c] = "idle" /\ heap' = heap \cup {c}
        /\ heapSize' = (heapSize + 1) % SizeMod
        /\ activeCount' = (activeCount + 1) % SizeMod
        /\ UNCHANGED <<cancelled, raced>>
    BY <1>2 DEF ReadWait, Add
  <2>2. c \notin heap /\ c \notin cancelled
    BY <2>1 DEF ListInv
  <2>3. c \in Reads \ heap /\ c \in Reads \ (heap \ cancelled)
        /\ (heap \cup {c}) \ cancelled = (heap \ cancelled) \cup {c}
    BY <2>2
  <2>4. (Cardinality(heap) + 1) % SizeMod = Cardinality(heap \cup {c})
    BY <1>0, <2>3, OneMore
  <2>5. (Cardinality(heap \ cancelled) + 1) % SizeMod = Cardinality((heap \cup {c}) \ cancelled)
    BY <1>0, <2>3, OneMore
  <2> QED BY <2>1, <2>4, <2>5 DEF CountersExact
<1>3. ASSUME NEW c \in Reads, GiveUp(c)
      PROVE  CountersExact'
  <2>1. /\ pc[c] = "expired"
        /\ activeCount' = (activeCount - 1) % SizeMod
        /\ cancelled' = cancelled \cup {c}
        /\ \/ heap' = heap /\ heapSize' = heapSize
           \/ heap' = heap \ cancelled' /\ heapSize' = activeCount'
        /\ raced' = IF c \in heap THEN raced ELSE raced \cup {c}
    BY <1>3 DEF GiveUp, Cancel, Mark, Rebuilt
  <2>2. CASE c \notin heap
    <3>1. raced' # {}
      BY <2>1, <2>2
    <3> QED BY <3>1 DEF CountersExact
  <2>3. CASE c \in heap
    <3>1. c \notin cancelled
      BY <2>1 DEF ListInv
    <3>2. /\ {c} \in SUBSET (heap \ cancelled)
          /\ (heap \ cancelled) \ {c} = heap \ cancelled'
          /\ heap' \ cancelled' = heap \ cancelled'
      BY <2>1, <2>3, <3>1
    <3>3. Cardinality({c}) = 1
      BY FS_Singleton
    <3>4. (Cardinality(heap \ cancelled) - 1) % SizeMod = Cardinality(heap \ cancelled')
      <4>1. (Cardinality(heap \ cancelled) - Cardinality({c})) % SizeMod
              = Cardinality((heap \ cancelled) \ {c})
        BY <1>0, <3>2, SomeLess
      <4> QED BY <3>2, <3>3, <4>1
    <3>5. SUFFICES ASSUME raced = {}
                   PROVE  /\ heapSize' = Cardinality(heap')
                          /\ activeCount' = Cardinality(heap' \ cancelled')
      BY <2>1, <2>3 DEF CountersExact
    <3>6. activeCount' = Cardinality(heap' \ cancelled')
      BY <2>1, <3>2, <3>4, <3>5 DEF CountersExact
    <3>7. heapSize' = Cardinality(heap')
      BY <2>1, <3>2, <3>5, <3>6 DEF CountersExact
    <3> QED BY <3>6, <3>7
  <2> QED BY <2>2, <2>3
<1>4. CASE Close
  <2>1. heap' = {} /\ heapSize' = 0 /\ activeCount' = 0
    BY <1>4 DEF Close
  <2>2. heap' \ cancelled' = {} /\ Cardinality({}) = 0
    BY <2>1, FS_EmptySet
  <2> QED BY <2>1, <2>2 DEF CountersExact
<1>5. ASSUME UNCHANGED listVars PROVE CountersExact'
  BY <1>5 DEF listVars, CountersExact
<1> QED BY <1>1, <1>2, <1>3, <1>4, <1>5
        DEF Next, ReadNow, TryReadNothing, Expire, Return, vars

\* The counters of ReaderList are the sizes of its heap and of its active part as
\* long as no call has timed out while write() or close() was answering it, if
\* fewer calls are made than a size_t can count: the decision to rebuild the heap
\* is then taken on the numbers it means.
THEOREM CountersCorrect ==
  ASSUME Cardinality(Reads) < SizeMod
  PROVE  Spec => []CountersExact
<1>1. Init => TypeOK /\ LastBytesKept /\ ListInv /\ CountersExact
  <2>1. Init => CountersExact
    <3>1. {} \ {} = {} /\ Cardinality({}) = 0
      BY FS_EmptySet
    <3> QED BY <3>1 DEF Init, CountersExact
  <2> QED BY <2>1, InitTypeOK, InitListInv
<1>2. TypeOK /\ LastBytesKept /\ ListInv /\ CountersExact /\ [Next]_vars
        => (TypeOK /\ LastBytesKept /\ ListInv /\ CountersExact)'
  BY StepTypeOK, StepListInv, StepCounters
<1> QED BY <1>1, <1>2, PTL DEF Spec

-------------------------------------------------------------------------------
(* The bytes that readers get. *)

\* A call that has been served and not returned yet has in its array what its
\* request tells.
RepliesFaithful ==
  \A c \in Reads :
    pc[c] = "signalled" /\ reply[c].kind = "data" => Faithful(c, reply[c])

DataInv == DataFaithful /\ RepliesFaithful

LEMMA InitDataInv == Init => DataInv
BY DEF Init, DataInv, DataFaithful, RepliesFaithful

\* What is true of an array stays true while it and its request do not change.
LEMMA FaithfulStays ==
  ASSUME TypeOK, NEW c \in Reads, NEW r \in Results, Faithful(c, r),
         target'[c] = target[c], req'[c] = req[c],
         writtenBytes' \in Nat, writtenBytes' >= writtenBytes
  PROVE  Faithful(c, r)'
<1>1. r.begin \in Nat /\ r.count \in Nat /\ writtenBytes \in Nat
  BY DEF TypeOK, Results
<1>2. r.begin + r.count <= writtenBytes'
  BY <1>1 DEF Faithful
<1> QED BY <1>2 DEF Faithful

\* A step that disturbs no array of a call that is served or has returned, and
\* completes none.
LEMMA DataInvStays ==
  ASSUME TypeOK, DataInv, writtenBytes' \in Nat, writtenBytes' >= writtenBytes,
         NEW S \in SUBSET Reads,
         \A c \in Reads \ S : /\ target'[c] = target[c]
                              /\ req'[c] = req[c]
                              /\ pc'[c] = pc[c]
                              /\ result'[c] = result[c]
                              /\ reply'[c] = reply[c],
         \A c \in S : pc'[c] = "done" /\ result'[c].kind = "data"
                        => Faithful(c, result[c])',
         \A c \in S : pc'[c] = "signalled" /\ reply'[c].kind = "data"
                        => Faithful(c, reply[c])'
  PROVE  DataInv'
<1>1. ASSUME NEW c \in Reads, pc'[c] = "done" /\ result'[c].kind = "data"
      PROVE  Faithful(c, result[c])'
  <2>1. CASE c \in S
    BY <1>1, <2>1
  <2>2. CASE c \notin S
    <3>1. Faithful(c, result[c]) /\ result[c] \in Results
      BY <1>1, <2>2 DEF DataInv, DataFaithful, TypeOK
    <3>2. target'[c] = target[c] /\ req'[c] = req[c] /\ result'[c] = result[c]
      BY <2>2
    <3> QED BY <3>1, <3>2, FaithfulStays DEF Faithful
  <2> QED BY <2>1, <2>2
<1>2. ASSUME NEW c \in Reads, pc'[c] = "signalled" /\ reply'[c].kind = "data"
      PROVE  Faithful(c, reply[c])'
  <2>1. CASE c \in S
    BY <1>2, <2>1
  <2>2. CASE c \notin S
    <3>1. Faithful(c, reply[c]) /\ reply[c] \in Results
      BY <1>2, <2>2 DEF DataInv, RepliesFaithful, TypeOK
    <3>2. target'[c] = target[c] /\ req'[c] = req[c] /\ reply'[c] = reply[c]
      BY <2>2
    <3> QED BY <3>1, <3>2, FaithfulStays DEF Faithful
  <2> QED BY <2>1, <2>2
<1> QED BY <1>1, <1>2 DEF DataInv, DataFaithful, RepliesFaithful

\* A write serves the calls S, and disturbs nothing that belongs to another one.
Serves(S) ==
  /\ \A c \in Reads \ S : /\ target'[c] = target[c]
                          /\ reply'[c] = reply[c]
                          /\ pc'[c] = pc[c]
  /\ \A c \in S : /\ pc'[c] \in {"signalled", "expired"}
                  /\ pc[c] = "waiting" <=> pc'[c] = "signalled"
                  /\ pc[c] = "expired" <=> pc'[c] = "expired"
                  /\ Faithful(c, reply[c])'
                  /\ reply'[c].kind = "data" /\ reply'[c].begin = req[c].begin
                  /\ req[c].begin < writtenBytes'
  /\ UNCHANGED <<req, result, closed>>
  /\ writtenBytes' \in Nat /\ writtenBytes' >= writtenBytes

\* What write() does to the calls: it serves those of popped requests that are
\* not cancelled, and those only.
LEMMA WriteServes ==
  ASSUME TypeOK, ListInv, NEW count \in Chunks, Write(count)
  PROVE  \E served \in SUBSET (heap \ cancelled) : Serves(served)
<1> DEFINE written == writtenBytes + count
           served == Reached(writtenBytes') \ cancelled
           Granted(c) == Least(req[c].count, writtenBytes' - req[c].begin)
<1>1. /\ writtenBytes' = written
      /\ writtenBytes \in Nat /\ count \in Nat /\ written \in Nat
      /\ UNCHANGED <<req, result, closed>>
  BY InputAssumption DEF Write, Process, TypeOK
<1>2. /\ reply' = [c \in Reads |-> IF c \in served
                                   THEN Data(req[c].begin, Granted(c)) ELSE reply[c]]
      /\ target' = [c \in Reads |->
                      IF c \in served
                      THEN ChunkBytes(count, req[c].begin - writtenBytes, Granted(c))
                      ELSE target[c]]
      /\ Signal(served)
  BY DEF Write, Process
<1>3. served \subseteq heap \ cancelled /\ heap \subseteq Reads
  BY DEF TypeOK, Reached
<1>4. ASSUME NEW c \in served
      PROVE  /\ pc[c] \in {"waiting", "expired"}
             /\ pc'[c] = IF pc[c] = "waiting" THEN "signalled" ELSE pc[c]
  <2> HIDE DEF served
  <2>1. c \in Reads /\ pc[c] \in {"waiting", "expired"}
    BY <1>3 DEF ListInv
  <2> QED BY <1>2, <2>1, SignalWakes
<1>5. ASSUME NEW c \in served
      PROVE  /\ Faithful(c, reply[c])'
             /\ reply'[c] = Data(req[c].begin, Granted(c))
  <2> DEFINE b == req[c].begin
             n == Granted(c)
  <2>1. /\ b \in Nat /\ req[c].count \in Nat
        /\ b >= writtenBytes /\ b < written
    BY <1>1, <1>3 DEF TypeOK, Requests, Reached, ListInv, ReadersAhead
  <2>2. /\ n \in Nat /\ n <= req[c].count /\ b + n <= written
        /\ req[c].count > 0 => n > 0
    BY <1>1, <2>1 DEF Least
  <2>3. reply'[c] = Data(b, n) /\ target'[c] = ChunkBytes(count, b - writtenBytes, n)
    BY <1>2, <1>3
  <2> HIDE DEF b, n
  <2>4. ASSUME NEW j \in 1..n
        PROVE  /\ (b - writtenBytes) + j - 1 \in 0..(count - 1)
               /\ writtenBytes + (b - writtenBytes) + j - 1 = b + j - 1
    BY <1>1, <2>1, <2>2 DEF b
  <2>5. target'[c] = [j \in 1..n |-> b + j - 1]
    BY <2>3, <2>4 DEF ChunkBytes
  <2>6. reply'[c].begin = b /\ reply'[c].count = n
    BY <2>3 DEF Data
  <2>7. req'[c] = req[c] /\ b >= req[c].begin
    BY <1>1, <2>1 DEF b
  <2>8. Faithful(c, reply[c])'
    BY <1>1, <2>2, <2>5, <2>6, <2>7 DEF Faithful
  <2> QED BY <2>3, <2>8 DEF b, n
<1>6. ASSUME NEW c \in Reads \ served
      PROVE  target'[c] = target[c] /\ reply'[c] = reply[c] /\ pc'[c] = pc[c]
  <2> HIDE DEF served
  <2>1. c \in Reads /\ c \notin served
    BY <1>6
  <2>2. target'[c] = target[c] /\ reply'[c] = reply[c]
    <3> HIDE DEF Granted
    <3> QED BY <1>2, <2>1
  <2>3. pc'[c] = pc[c]
    BY <1>2, <2>1, SignalWakes
  <2> QED BY <2>2, <2>3
<1> HIDE DEF served, Granted
<1>7. ASSUME NEW c \in served
      PROVE  /\ reply'[c].kind = "data" /\ reply'[c].begin = req[c].begin
             /\ req[c].begin < writtenBytes'
  <2>1. reply'[c] = Data(req[c].begin, Granted(c))
    BY <1>5
  <2>2. req[c].begin < writtenBytes'
    BY DEF served, Reached
  <2> QED BY <2>1, <2>2 DEF Data
<1>8. \A c \in served : /\ pc'[c] \in {"signalled", "expired"}
                        /\ pc[c] = "waiting" <=> pc'[c] = "signalled"
                        /\ pc[c] = "expired" <=> pc'[c] = "expired"
  BY <1>4
<1>9. writtenBytes' >= writtenBytes
  BY <1>1
<1>10. served \in SUBSET (heap \ cancelled)
  BY <1>3
<1> USE <1>10
<1> WITNESS served \in SUBSET (heap \ cancelled)
<1> QED BY <1>1, <1>5, <1>6, <1>7, <1>8, <1>9 DEF Serves

\* Only the write serves calls, and only a call's own step completes it.
LEMMA StepDataInv ==
  ASSUME TypeOK, LastBytesKept, ListInv, DataInv, [Next]_vars
  PROVE  DataInv'
<1>1. ASSUME NEW count \in Chunks, Write(count)
      PROVE  DataInv'
  <2>1. PICK served \in SUBSET (heap \ cancelled) : Serves(served)
    BY <1>1, WriteServes
  <2>2. served \in SUBSET Reads
    BY DEF TypeOK
  <2>3. /\ \A c \in Reads \ served : /\ target'[c] = target[c]
                                     /\ req'[c] = req[c]
                                     /\ pc'[c] = pc[c]
                                     /\ result'[c] = result[c]
                                     /\ reply'[c] = reply[c]
        /\ writtenBytes' \in Nat /\ writtenBytes' >= writtenBytes
    BY <2>1 DEF Serves
  <2>4. \A c \in served : pc'[c] # "done"
    BY <2>1 DEF Serves
  <2>5. \A c \in served : Faithful(c, reply[c])'
    BY <2>1 DEF Serves
  <2> QED BY <2>2, <2>3, <2>4, <2>5, DataInvStays
<1>2. ASSUME UNCHANGED writtenBytes, NEW c \in Reads,
             \A x \in Reads \ {c} : /\ target'[x] = target[x]
                                    /\ req'[x] = req[x]
                                    /\ pc'[x] = pc[x]
                                    /\ result'[x] = result[x]
                                    /\ reply'[x] = reply[x],
             pc'[c] = "done" /\ result'[c].kind = "data" => Faithful(c, result[c])',
             pc'[c] # "signalled"
      PROVE  DataInv'
  <2> DEFINE S == {c}
  <2>1. writtenBytes' \in Nat /\ writtenBytes' >= writtenBytes
    BY <1>2 DEF TypeOK
  <2>2. S \in SUBSET Reads
    OBVIOUS
  <2>3. /\ \A x \in S : pc'[x] = "done" /\ result'[x].kind = "data"
                      => Faithful(x, result[x])'
        /\ \A x \in S : pc'[x] # "signalled"
    BY <1>2
  <2>4. \A x \in Reads \ S : /\ target'[x] = target[x]
                             /\ req'[x] = req[x]
                             /\ pc'[x] = pc[x]
                             /\ result'[x] = result[x]
                             /\ reply'[x] = reply[x]
    BY <1>2
  <2> HIDE DEF S
  <2> QED BY <2>1, <2>2, <2>3, <2>4, DataInvStays
<1>3. ASSUME NEW c \in Reads, NEW b \in Begins, NEW n \in Counts,
             NEW timed \in BOOLEAN, ReadNow(c, b, n, timed)
      PROVE  DataInv'
  <2> DEFINE at == TranslateBegin(b)
             t == TryRead(at, n)
             oldest == writtenBytes - ring.size
             first == Greatest(at, oldest)
  <2>1. /\ at \in Nat /\ n \in Nat /\ writtenBytes \in Nat /\ closed \in BOOLEAN
        /\ Retains(ring, writtenBytes) /\ oldest \in Nat
    <3>1. at \in Nat /\ n \in Nat
      BY InputAssumption, TranslateBeginType DEF TypeOK
    <3>2. Retains(ring, writtenBytes)
      BY RetainsRing
    <3>3. oldest \in Nat
      BY CapacityAssumption DEF TypeOK, LastBytesKept, Least
    <3> QED BY <3>1, <3>2, <3>3 DEF TypeOK
  <2>2. /\ req'[c] = [begin |-> at, count |-> n, timed |-> timed]
        /\ result'[c] = t.result /\ target'[c] = t.bytes
        /\ pc'[c] = "done"
        /\ UNCHANGED <<writtenBytes, reply>>
    BY <1>3 DEF ReadNow, TypeOK, ringVars
  <2>3. \A x \in Reads \ {c} : /\ target'[x] = target[x]
                               /\ req'[x] = req[x]
                               /\ pc'[x] = pc[x]
                               /\ result'[x] = result[x]
                               /\ reply'[x] = reply[x]
    BY <1>3 DEF ReadNow, TypeOK
  <2> HIDE DEF at, t
  <2>4. ASSUME t.result.kind = "data"
        PROVE  Faithful(c, result[c])'
    <3>1. at < writtenBytes
      <4>1. ~(at < writtenBytes) => t.result \in {Closed, Timeout}
        BY DEF TryRead, t
      <4> QED BY <2>4, <4>1 DEF Closed, Timeout
    <3>2. PICK m \in Nat : /\ t.result = Data(first, m)
                           /\ t.bytes = Run(first, m)
                           /\ m = Least(n, writtenBytes - first)
      <4>1. ~(at >= writtenBytes)
        BY <2>1, <3>1
      <4> QED BY <2>1, <4>1, TryReadAnswers DEF t
    <3>3. first \in Nat /\ first >= at /\ first < writtenBytes
      BY <2>1, <3>1, CapacityAssumption DEF Greatest, Retains, Least
    <3> HIDE DEF first
    <3>4. m <= n /\ first + m <= writtenBytes /\ n > 0 => m > 0
      BY <2>1, <3>2, <3>3 DEF Least
    <3>5. /\ result'[c].begin = first /\ result'[c].count = m
          /\ target'[c] = Run(first, m)
      BY <2>2, <3>2 DEF Data
    <3>6. m <= n /\ first + m <= writtenBytes
      BY <2>1, <3>2, <3>3 DEF Least
    <3> QED BY <2>2, <3>3, <3>4, <3>5, <3>6 DEF Faithful, Run
  <2> QED BY <1>2, <2>2, <2>3, <2>4
<1>4. ASSUME NEW c \in Reads, NEW b \in Begins, NEW n \in Counts,
             NEW timed \in BOOLEAN,
             ReadWait(c, b, n, timed) \/ TryReadNothing(c, b, n)
      PROVE  DataInv'
  <2>1. /\ pc'[c] \in {"waiting", "done"}
        /\ pc'[c] = "done" => result'[c] = Timeout
        /\ UNCHANGED writtenBytes
        /\ \A x \in Reads \ {c} : /\ target'[x] = target[x]
                                  /\ req'[x] = req[x]
                                  /\ pc'[x] = pc[x]
                                  /\ result'[x] = result[x]
                                  /\ reply'[x] = reply[x]
    BY <1>4 DEF ReadWait, TryReadNothing, TypeOK, ringVars
  <2> QED BY <1>2, <2>1 DEF Timeout
<1>5. ASSUME NEW c \in Reads, Expire(c) \/ GiveUp(c)
      PROVE  DataInv'
  <2>1. /\ pc'[c] \in {"expired", "done"}
        /\ pc'[c] = "done" => result'[c] = Timeout
        /\ UNCHANGED writtenBytes
        /\ \A x \in Reads \ {c} : /\ target'[x] = target[x]
                                  /\ req'[x] = req[x]
                                  /\ pc'[x] = pc[x]
                                  /\ result'[x] = result[x]
                                  /\ reply'[x] = reply[x]
    BY <1>5 DEF Expire, GiveUp, TypeOK, ringVars
  <2> QED BY <1>2, <2>1 DEF Timeout
<1>6. ASSUME NEW c \in Reads, Return(c)
      PROVE  DataInv'
  <2>1. /\ pc[c] = "signalled" /\ pc'[c] = "done"
        /\ result'[c] = reply[c]
        /\ UNCHANGED <<writtenBytes, req, target, reply>>
        /\ \A x \in Reads \ {c} : pc'[x] = pc[x] /\ result'[x] = result[x]
    BY <1>6 DEF Return, TypeOK, ringVars
  <2>2. result'[c].kind = "data" => Faithful(c, reply[c])
    BY <2>1 DEF DataInv, RepliesFaithful
  <2>3. result'[c].kind = "data" => Faithful(c, result[c])'
    BY <2>1, <2>2 DEF Faithful
  <2> QED BY <1>2, <2>1, <2>3
<1>7. ASSUME Close
      PROVE  DataInv'
  <2>1. /\ UNCHANGED <<writtenBytes, req, target, result>>
        /\ Signal(heap) /\ heap \in SUBSET Reads
        /\ reply' = [c \in Reads |-> IF c \in heap THEN Closed ELSE reply[c]]
    BY <1>7 DEF Close, ringVars, TypeOK
  <2> DEFINE S == {c \in heap : pc[c] = "waiting"}
  <2>2. S \in SUBSET Reads
    BY <2>1
  <2>3. ASSUME NEW c \in Reads
        PROVE  /\ pc'[c] # pc[c] => c \in heap /\ pc'[c] = "signalled"
               /\ pc'[c] = "done" => pc[c] = "done"
               /\ pc'[c] = "signalled" => c \in heap \/ pc[c] = "signalled"
    BY <2>1, SignalWakes
  <2>4. ASSUME NEW c \in Reads, pc'[c] = "done", result'[c].kind = "data"
        PROVE  Faithful(c, result[c])'
    <3>1. Faithful(c, result[c])
      BY <2>1, <2>3, <2>4 DEF DataInv, DataFaithful
    <3> QED BY <2>1, <3>1 DEF Faithful
  <2>5. ASSUME NEW c \in Reads, pc'[c] = "signalled", reply'[c].kind = "data"
        PROVE  Faithful(c, reply[c])'
    <3>1. c \notin heap /\ reply'[c] = reply[c]
      BY <2>1, <2>5 DEF Closed
    <3>2. Faithful(c, reply[c])
      BY <2>3, <2>5, <3>1 DEF DataInv, RepliesFaithful
    <3> QED BY <2>1, <3>1, <3>2 DEF Faithful
  <2> QED BY <2>4, <2>5 DEF DataInv, DataFaithful, RepliesFaithful
<1>8. CASE UNCHANGED vars
  BY <1>8 DEF vars, ringVars, callVars, DataInv, DataFaithful, RepliesFaithful, Faithful
<1> QED BY <1>1, <1>3, <1>4, <1>5, <1>6, <1>7, <1>8 DEF Next

\* A call that ends with data has in its array the bytes it is told.
THEOREM DataCorrect == Spec => []DataFaithful
<1>1. Init => TypeOK /\ LastBytesKept /\ ListInv /\ DataInv
  BY InitTypeOK, InitListInv, InitDataInv
<1>2. TypeOK /\ LastBytesKept /\ ListInv /\ DataInv /\ [Next]_vars
        => (TypeOK /\ LastBytesKept /\ ListInv /\ DataInv)'
  BY StepTypeOK, StepListInv, StepDataInv
<1>3. DataInv => DataFaithful
  BY DEF DataInv
<1> QED BY <1>1, <1>2, <1>3, PTL DEF Spec

\* Once a call has returned, nothing is stored into its array.
THEOREM ArraysUntouched == Spec => ReturnedArraysUntouched
<1> DEFINE Untouched == \A c \in Reads : pc[c] = "done" => target'[c] = target[c]
<1>1. TypeOK /\ ListInv /\ [Next]_vars => Untouched
  <2> SUFFICES ASSUME TypeOK, ListInv, [Next]_vars, NEW x \in Reads, pc[x] = "done"
               PROVE  target'[x] = target[x]
    OBVIOUS
  <2>1. ASSUME NEW count \in Chunks, Write(count)
        PROVE  target'[x] = target[x]
    <3>1. PICK served \in SUBSET (heap \ cancelled) : Serves(served)
      BY <2>1, WriteServes
    <3>2. x \notin served
      BY <3>1 DEF ListInv
    <3> QED BY <3>1, <3>2 DEF Serves
  <2>2. ASSUME NEW c \in Reads, NEW b \in Begins, NEW n \in Counts,
               NEW timed \in BOOLEAN, ReadNow(c, b, n, timed)
        PROVE  target'[x] = target[x]
    BY <2>2 DEF ReadNow, TypeOK
  <2>3. CASE UNCHANGED target
    BY <2>3
  <2> QED BY <2>1, <2>2, <2>3
          DEF Next, ReadWait, TryReadNothing, Expire, Return, GiveUp, Close, vars, callVars
<1>2. Init => TypeOK /\ LastBytesKept /\ ListInv
  BY InitTypeOK, InitListInv
<1>3. TypeOK /\ LastBytesKept /\ ListInv /\ [Next]_vars
        => (TypeOK /\ LastBytesKept /\ ListInv)'
  BY StepTypeOK, StepListInv
<1>4. Untouched => [Untouched]_vars
  OBVIOUS
<1> QED BY <1>1, <1>2, <1>3, PTL DEF Spec, ReturnedArraysUntouched

-------------------------------------------------------------------------------
(* The buffer implements the stream. *)

\* What a call that has been woken is about to be told, and which ones expire.
AnswersInv ==
  \A c \in Reads :
    /\ pc[c] = "signalled" =>
         \/ /\ reply[c].kind = "data"
            /\ reply[c].begin = req[c].begin
            /\ req[c].begin < writtenBytes
         \/ reply[c] = Closed /\ closed /\ req[c].begin >= writtenBytes
    /\ pc[c] = "expired" => req[c].timed

LEMMA InitAnswersInv == Init => AnswersInv
BY DEF Init, AnswersInv

\* The steps of the calls are those of the stream, seen through the mapping.
LEMMA StreamBecomes ==
  ASSUME TypeOK, TypeOK', NEW c \in Reads,
         \A x \in Reads \ {c} : /\ target'[x] = target[x]
                                /\ req'[x] = req[x]
                                /\ pc'[x] = pc[x]
                                /\ result'[x] = result[x],
         UNCHANGED <<writtenBytes, closed>>
  PROVE  Stream!Becomes(c, StreamStatus'[c], req'[c], StreamAnswer'[c])
<1>1. ASSUME NEW x \in Reads, x # c
      PROVE  StreamStatus'[x] = StreamStatus[x] /\ StreamAnswer'[x] = StreamAnswer[x]
  BY <1>1 DEF StreamStatus, StreamAnswer
<1>2. req' = [req EXCEPT ![c] = req'[c]]
  BY DEF TypeOK
<1>3. /\ StreamStatus = [x \in Reads |-> StreamStatus[x]]
      /\ StreamAnswer = [x \in Reads |-> StreamAnswer[x]]
      /\ StreamStatus' = [x \in Reads |-> StreamStatus'[x]]
      /\ StreamAnswer' = [x \in Reads |-> StreamAnswer'[x]]
  BY DEF StreamStatus, StreamAnswer
<1>4. /\ StreamStatus' = [StreamStatus EXCEPT ![c] = StreamStatus'[c]]
      /\ StreamAnswer' = [StreamAnswer EXCEPT ![c] = StreamAnswer'[c]]
  BY <1>1, <1>3
<1> QED BY <1>2, <1>4 DEF Stream!Becomes

\* A step that changes nothing of a call that its caller can see.
LEMMA StreamSame ==
  ASSUME \A c \in Reads : /\ StreamStatus'[c] = StreamStatus[c]
                          /\ StreamAnswer'[c] = StreamAnswer[c]
  PROVE  StreamStatus' = StreamStatus /\ StreamAnswer' = StreamAnswer
BY DEF StreamStatus, StreamAnswer

LEMMA InitStream == Init => Stream!Init
<1> SUFFICES ASSUME Init PROVE Stream!Init
  OBVIOUS
<1>1. req \in [Reads -> [begin : Nat, count : Nat, timed : BOOLEAN]]
  BY DEF Init
<1>2. \A c \in Reads : StreamStatus[c] = "idle" /\ StreamAnswer[c] = Stream!NoAnswer
  BY DEF Init, StreamStatus, StreamAnswer, Stream!NoAnswer, Stream!Answer
<1>3. /\ StreamStatus = [c \in Reads |-> "idle"]
      /\ StreamAnswer = [c \in Reads |-> Stream!NoAnswer]
  BY <1>2 DEF StreamStatus, StreamAnswer
<1> QED BY <1>1, <1>3 DEF Init, Stream!Init

LEMMA StepAnswersInv ==
  ASSUME TypeOK, ListInv, AnswersInv, [Next]_vars
  PROVE  AnswersInv'
<1>1. ASSUME NEW count \in Chunks, Write(count)
      PROVE  AnswersInv'
  <2>1. PICK served \in SUBSET (heap \ cancelled) : Serves(served)
    BY <1>1, WriteServes
  <2>2. ~closed
    BY <1>1 DEF Write
  <2>3. ASSUME NEW c \in Reads, pc'[c] = "signalled"
        PROVE  /\ reply'[c].kind = "data" /\ reply'[c].begin = req'[c].begin
               /\ req'[c].begin < writtenBytes'
    <3>1. CASE c \in served
      BY <2>1, <3>1 DEF Serves
    <3>2. CASE c \notin served
      <4>1. /\ reply[c].kind = "data" /\ reply[c].begin = req[c].begin
            /\ req[c].begin < writtenBytes
        BY <2>1, <2>2, <2>3, <3>2 DEF Serves, AnswersInv
      <4>2. req[c].begin \in Nat /\ writtenBytes \in Nat
        BY DEF TypeOK, Requests
      <4> QED BY <2>1, <3>2, <4>1, <4>2 DEF Serves
    <3> QED BY <3>1, <3>2
  <2>4. ASSUME NEW c \in Reads, pc'[c] = "expired"
        PROVE  req'[c].timed
    <3>1. pc[c] = "expired"
      BY <2>1, <2>4 DEF Serves
    <3> QED BY <2>1, <3>1 DEF Serves, AnswersInv
  <2> QED BY <2>3, <2>4 DEF AnswersInv
<1>2. ASSUME UNCHANGED <<writtenBytes, closed, reply>>,
             \A c \in Reads : /\ pc'[c] \in {"signalled", "expired"} => req'[c] = req[c]
                              /\ pc'[c] = "signalled" => pc[c] = "signalled"
                              /\ pc'[c] = "expired" => pc[c] = "expired" \/ req[c].timed
      PROVE  AnswersInv'
  BY <1>2 DEF AnswersInv
<1>3. ASSUME NEW c \in Reads, NEW b \in Begins, NEW n \in Counts,
             NEW timed \in BOOLEAN,
             \/ ReadNow(c, b, n, timed)
             \/ ReadWait(c, b, n, timed)
             \/ TryReadNothing(c, b, n)
      PROVE  AnswersInv'
  <2>1. \A x \in Reads : /\ pc'[x] \in {"signalled", "expired"} => req'[x] = req[x]
                         /\ pc'[x] = "signalled" => pc[x] = "signalled"
                         /\ pc'[x] = "expired" => pc[x] = "expired" \/ req[x].timed
    BY <1>3 DEF ReadNow, ReadWait, TryReadNothing, TypeOK
  <2> QED BY <1>2, <1>3, <2>1 DEF ReadNow, ReadWait, TryReadNothing, ringVars
<1>4. ASSUME NEW c \in Reads, Expire(c) \/ Return(c) \/ GiveUp(c)
      PROVE  AnswersInv'
  <2>1. \A x \in Reads : /\ pc'[x] \in {"signalled", "expired"} => req'[x] = req[x]
                         /\ pc'[x] = "signalled" => pc[x] = "signalled"
                         /\ pc'[x] = "expired" => pc[x] = "expired" \/ req[x].timed
    BY <1>4 DEF Expire, Return, GiveUp, TypeOK
  <2> QED BY <1>2, <1>4, <2>1 DEF Expire, Return, GiveUp, ringVars
<1>5. ASSUME Close
      PROVE  AnswersInv'
  <2>1. /\ ~closed /\ closed'
        /\ UNCHANGED <<writtenBytes, req>>
        /\ Signal(heap) /\ heap \in SUBSET Reads
        /\ reply' = [c \in Reads |-> IF c \in heap THEN Closed ELSE reply[c]]
    BY <1>5 DEF Close, ringVars, TypeOK
  <2>2. ASSUME NEW c \in Reads, pc'[c] = "signalled"
        PROVE  \/ /\ reply'[c].kind = "data" /\ reply'[c].begin = req'[c].begin
                  /\ req'[c].begin < writtenBytes'
               \/ reply'[c] = Closed /\ closed' /\ req'[c].begin >= writtenBytes'
    <3>1. CASE c \in heap
      BY <2>1, <3>1 DEF ListInv, ReadersAhead
    <3>2. CASE c \notin heap
      <4>1. pc[c] = "signalled"
        BY <2>1, <2>2, <3>2, SignalWakes
      <4> QED BY <2>1, <3>2, <4>1 DEF AnswersInv
    <3> QED BY <3>1, <3>2
  <2>3. ASSUME NEW c \in Reads, pc'[c] = "expired"
        PROVE  req'[c].timed
    BY <2>1, <2>3, SignalWakes DEF AnswersInv
  <2> QED BY <2>2, <2>3 DEF AnswersInv
<1>6. CASE UNCHANGED vars
  BY <1>6 DEF vars, ringVars, callVars, AnswersInv
<1> QED BY <1>1, <1>3, <1>4, <1>5, <1>6 DEF Next

\* Every step of the buffer is one of the stream, or changes nothing of it.
LEMMA StepStream ==
  ASSUME TypeOK, TypeOK', LastBytesKept, ListInv, DataInv, AnswersInv, [Next]_vars
  PROVE  [Stream!Next]_(Stream!vars)
<1>1. ASSUME NEW count \in Chunks, Write(count)
      PROVE  Stream!Grow
  <2>1. PICK served \in SUBSET (heap \ cancelled) : Serves(served)
    BY <1>1, WriteServes
  <2>2. ASSUME NEW c \in Reads
        PROVE  StreamStatus'[c] = StreamStatus[c] /\ StreamAnswer'[c] = StreamAnswer[c]
    <3>1. CASE c \in served
      <4>1. /\ pc[c] \in {"waiting", "expired"}
            /\ pc'[c] \in {"signalled", "expired"}
        BY <2>1, <3>1 DEF Serves, ListInv
      <4> QED BY <4>1 DEF StreamStatus, StreamAnswer
    <3>2. CASE c \notin served
      <4>1. pc'[c] = pc[c] /\ target'[c] = target[c] /\ result' = result
        BY <2>1, <3>2 DEF Serves
      <4> QED BY <4>1 DEF StreamStatus, StreamAnswer
    <3> QED BY <3>1, <3>2
  <2>3. ~closed
    BY <1>1 DEF Write
  <2>4. StreamStatus' = StreamStatus /\ StreamAnswer' = StreamAnswer
    BY <2>2, StreamSame
  <2> QED BY <2>1, <2>3, <2>4 DEF Stream!Grow, Serves
<1>2. ASSUME NEW c \in Reads, NEW b \in Begins, NEW n \in Counts,
             NEW timed \in BOOLEAN, ReadNow(c, b, n, timed)
      PROVE  Stream!Take(c) \/ Stream!HitEnd(c)
  <2> DEFINE at == TranslateBegin(b)
             t == TryRead(at, n)
             oldest == writtenBytes - ring.size
             first == Greatest(at, oldest)
  <2>1. /\ at \in Nat /\ n \in Nat /\ writtenBytes \in Nat /\ closed \in BOOLEAN
        /\ Retains(ring, writtenBytes)
    BY InputAssumption, TranslateBeginType, RetainsRing DEF TypeOK
  <2>2. /\ pc[c] = "idle" /\ pc'[c] = "done"
        /\ t.result # Timeout
        /\ req'[c] = [begin |-> at, count |-> n, timed |-> timed]
        /\ result'[c] = t.result /\ target'[c] = t.bytes
        /\ UNCHANGED <<writtenBytes, closed>>
        /\ \A x \in Reads \ {c} : /\ target'[x] = target[x]
                                  /\ req'[x] = req[x]
                                  /\ pc'[x] = pc[x]
                                  /\ result'[x] = result[x]
    BY <1>2 DEF ReadNow, TypeOK, ringVars
  <2>3. Stream!Becomes(c, StreamStatus'[c], req'[c], StreamAnswer'[c])
    BY <2>2, StreamBecomes
  <2>4. StreamStatus[c] = "idle" /\ StreamStatus'[c] = "answered"
    BY <2>2 DEF StreamStatus
  <2>5. StreamAnswer'[c] = [kind |-> t.result.kind, begin |-> t.result.begin,
                            bytes |-> IF t.result.kind = "data" THEN t.bytes ELSE <<>>]
    BY <2>2 DEF StreamAnswer
  <2>6. req'[c].begin = at /\ req'[c].count = n
    BY <2>2
  <2> HIDE DEF at, t
  <2>7. CASE at < writtenBytes
    <3>1. PICK m \in Nat : /\ t.result = Data(first, m)
                           /\ t.bytes = Run(first, m)
                           /\ m = Least(n, writtenBytes - first)
      <4>1. ~(at >= writtenBytes)
        BY <2>1, <2>7
      <4> QED BY <2>1, <4>1, TryReadAnswers DEF t
    <3>2. oldest = Stream!Oldest /\ oldest \in Nat
      BY <2>1, CapacityAssumption DEF Stream!Oldest, Retains, Least
    <3>3. first = (IF at < Stream!Oldest THEN Stream!Oldest ELSE at)
      BY <2>1, <3>2 DEF Greatest
    <3>4. m = (IF n < writtenBytes - first THEN n ELSE writtenBytes - first)
      <4>1. first \in Nat
        BY <2>1, <3>2 DEF Greatest
      <4> HIDE DEF first
      <4> QED BY <2>1, <3>1, <4>1 DEF Least
    <3> HIDE DEF first, oldest
    <3>5. StreamAnswer'[c] = Stream!Answer("data", first, Stream!Bytes(first, m))
      BY <2>5, <3>1 DEF Data, Run, Stream!Answer, Stream!Bytes
    <3> QED BY <2>3, <2>4, <2>6, <2>7, <3>3, <3>4, <3>5 DEF Stream!Take
  <2>8. CASE at >= writtenBytes
    <3>1. t.result = Closed /\ closed
      BY <2>1, <2>2, <2>8 DEF TryRead, t
    <3>2. StreamAnswer'[c] = Stream!Answer("closed", 0, <<>>)
      BY <2>5, <3>1 DEF Closed, Stream!Answer
    <3> QED BY <2>3, <2>4, <2>6, <2>8, <3>1, <3>2 DEF Stream!HitEnd
  <2> QED BY <2>1, <2>7, <2>8
<1>3. ASSUME NEW c \in Reads, NEW b \in Begins, NEW n \in Counts,
             NEW timed \in BOOLEAN, ReadWait(c, b, n, timed)
      PROVE  Stream!Ask(c)
  <2> DEFINE at == TranslateBegin(b)
  <2>1. at >= writtenBytes /\ ~closed
    <3>1. at \in Nat /\ writtenBytes \in Nat
      BY InputAssumption, TranslateBeginType DEF TypeOK
    <3>2. TryRead(at, n).result = Timeout
      BY <1>3 DEF ReadWait
    <3>3. ~(at < writtenBytes) /\ ~closed
      BY <3>2 DEF TryRead, Data, Timeout, Closed
    <3> QED BY <3>1, <3>3
  <2>2. /\ pc[c] = "idle" /\ pc'[c] = "waiting"
        /\ req'[c] = [begin |-> at, count |-> n, timed |-> timed]
        /\ UNCHANGED <<writtenBytes, closed, target, result>>
        /\ \A x \in Reads \ {c} : req'[x] = req[x] /\ pc'[x] = pc[x]
    BY <1>3 DEF ReadWait, TypeOK, ringVars
  <2> HIDE DEF at
  <2>3. Stream!Becomes(c, StreamStatus'[c], req'[c], StreamAnswer'[c])
    BY <2>2, StreamBecomes
  <2>4. /\ StreamStatus[c] = "idle" /\ StreamStatus'[c] = "asked"
        /\ StreamAnswer'[c] = Stream!NoAnswer
    BY <2>2 DEF StreamStatus, StreamAnswer, Stream!NoAnswer, Stream!Answer
  <2>5. req'[c].begin >= writtenBytes
    BY <2>1, <2>2
  <2> QED BY <2>1, <2>3, <2>4, <2>5 DEF Stream!Ask
<1>4. ASSUME NEW c \in Reads, NEW b \in Begins, NEW n \in Counts,
             TryReadNothing(c, b, n)
      PROVE  Stream!Decline(c)
  <2> DEFINE at == TranslateBegin(b)
  <2>1. at >= writtenBytes /\ ~closed
    <3>1. at \in Nat /\ writtenBytes \in Nat
      BY InputAssumption, TranslateBeginType DEF TypeOK
    <3>2. TryRead(at, n).result = Timeout
      BY <1>4 DEF TryReadNothing
    <3>3. ~(at < writtenBytes) /\ ~closed
      BY <3>2 DEF TryRead, Data, Timeout, Closed
    <3> QED BY <3>1, <3>3
  <2>2. /\ pc[c] = "idle" /\ pc'[c] = "done"
        /\ req'[c] = [begin |-> at, count |-> n, timed |-> TRUE]
        /\ result'[c] = Timeout
        /\ UNCHANGED <<writtenBytes, closed, target>>
        /\ \A x \in Reads \ {c} : /\ req'[x] = req[x]
                                  /\ pc'[x] = pc[x]
                                  /\ result'[x] = result[x]
    BY <1>4 DEF TryReadNothing, TypeOK, ringVars
  <2> HIDE DEF at
  <2>3. Stream!Becomes(c, StreamStatus'[c], req'[c], StreamAnswer'[c])
    BY <2>2, StreamBecomes
  <2>4. /\ StreamStatus[c] = "idle" /\ StreamStatus'[c] = "answered"
        /\ StreamAnswer'[c] = Stream!Answer("timeout", 0, <<>>)
    BY <2>2 DEF StreamStatus, StreamAnswer, Timeout, Stream!Answer
  <2>5. req'[c].begin >= writtenBytes /\ req'[c].timed
    BY <2>1, <2>2
  <2> QED BY <2>1, <2>3, <2>4, <2>5 DEF Stream!Decline
<1>5. ASSUME NEW c \in Reads, Expire(c)
      PROVE  UNCHANGED Stream!vars
  <2>1. /\ pc[c] = "waiting" /\ pc'[c] = "expired"
        /\ \A x \in Reads \ {c} : pc'[x] = pc[x]
        /\ UNCHANGED <<writtenBytes, closed, req, result, target>>
    BY <1>5 DEF Expire, TypeOK, ringVars
  <2>2. ASSUME NEW x \in Reads
        PROVE  StreamStatus'[x] = StreamStatus[x] /\ StreamAnswer'[x] = StreamAnswer[x]
    BY <2>1 DEF StreamStatus, StreamAnswer
  <2>3. StreamStatus' = StreamStatus /\ StreamAnswer' = StreamAnswer
    BY <2>2, StreamSame
  <2> QED BY <2>1, <2>3 DEF Stream!vars
<1>6. ASSUME NEW c \in Reads, Return(c)
      PROVE  Stream!Receive(c) \/ Stream!HitEnd(c)
  <2>1. /\ pc[c] = "signalled" /\ pc'[c] = "done"
        /\ result'[c] = reply[c]
        /\ UNCHANGED <<writtenBytes, closed, req, target>>
        /\ \A x \in Reads \ {c} : pc'[x] = pc[x] /\ result'[x] = result[x]
    BY <1>6 DEF Return, TypeOK, ringVars
  <2>2. Stream!Becomes(c, StreamStatus'[c], req'[c], StreamAnswer'[c])
    BY <2>1, StreamBecomes
  <2>3. StreamStatus[c] = "asked" /\ StreamStatus'[c] = "answered" /\ req'[c] = req[c]
    BY <2>1 DEF StreamStatus
  <2>4. StreamAnswer'[c] = [kind |-> reply[c].kind, begin |-> reply[c].begin,
                            bytes |-> IF reply[c].kind = "data" THEN target[c] ELSE <<>>]
    BY <2>1 DEF StreamAnswer
  <2>5. CASE /\ reply[c].kind = "data"
             /\ reply[c].begin = req[c].begin
             /\ req[c].begin < writtenBytes
    <3> DEFINE n == reply[c].count
               b == req[c].begin
    <3>1. Faithful(c, reply[c])
      BY <2>1, <2>5 DEF DataInv, RepliesFaithful
    <3>2. n \in Nat /\ b \in Nat
      BY DEF TypeOK, Results, Requests
    <3>3. /\ target[c] = Run(b, n)
          /\ b + n <= writtenBytes
          /\ n <= req[c].count
          /\ req[c].count > 0 => n > 0
      BY <2>5, <3>1 DEF Faithful, Run
    <3>4. b < writtenBytes
      BY <2>5
    <3> HIDE DEF n, b
    <3>5. Len(StreamAnswer'[c].bytes) = n
      BY <2>4, <2>5, <3>2, <3>3, RunType
    <3>6. StreamAnswer'[c] = Stream!Answer("data", b, Stream!Bytes(b, n))
      BY <2>4, <2>5, <3>3 DEF b, Run, Stream!Answer, Stream!Bytes
    <3> QED BY <2>2, <2>3, <3>3, <3>4, <3>5, <3>6 DEF b, Stream!Receive
  <2>6. CASE reply[c] = Closed /\ closed /\ req[c].begin >= writtenBytes
    <3>1. StreamAnswer'[c] = Stream!Answer("closed", 0, <<>>)
      BY <2>4, <2>6 DEF Closed, Stream!Answer
    <3> QED BY <2>2, <2>3, <2>6, <3>1 DEF Stream!HitEnd
  <2> QED BY <2>1, <2>5, <2>6 DEF AnswersInv
<1>7. ASSUME NEW c \in Reads, GiveUp(c)
      PROVE  Stream!TimeOut(c)
  <2>1. /\ pc[c] = "expired" /\ pc'[c] = "done"
        /\ result'[c] = Timeout
        /\ UNCHANGED <<writtenBytes, closed, req, target>>
        /\ \A x \in Reads \ {c} : pc'[x] = pc[x] /\ result'[x] = result[x]
    BY <1>7 DEF GiveUp, TypeOK, ringVars
  <2>2. Stream!Becomes(c, StreamStatus'[c], req'[c], StreamAnswer'[c])
    BY <2>1, StreamBecomes
  <2>3. /\ StreamStatus[c] = "asked" /\ StreamStatus'[c] = "answered"
        /\ StreamAnswer'[c] = Stream!Answer("timeout", 0, <<>>)
    BY <2>1 DEF StreamStatus, StreamAnswer, Timeout, Stream!Answer
  <2>4. req[c].timed /\ req'[c] = req[c]
    BY <2>1 DEF AnswersInv
  <2> QED BY <2>2, <2>3, <2>4 DEF Stream!TimeOut
<1>8. ASSUME Close
      PROVE  Stream!End
  <2>1. /\ closed' = TRUE /\ Signal(heap)
        /\ UNCHANGED <<writtenBytes, req, result, target>>
    BY <1>8 DEF Close, ringVars
  <2>2. ASSUME NEW c \in Reads
        PROVE  \/ pc'[c] = pc[c]
               \/ (pc[c] = "waiting" /\ pc'[c] = "signalled")
    BY <2>1, SignalWakes
  <2>3. ASSUME NEW c \in Reads
        PROVE  StreamStatus'[c] = StreamStatus[c] /\ StreamAnswer'[c] = StreamAnswer[c]
    BY <2>1, <2>2 DEF StreamStatus, StreamAnswer
  <2>4. StreamStatus' = StreamStatus /\ StreamAnswer' = StreamAnswer
    BY <2>3, StreamSame
  <2> QED BY <2>1, <2>4 DEF Stream!End
<1>9. CASE UNCHANGED vars
  <2>1. UNCHANGED <<writtenBytes, closed, req, pc, result, target>>
    BY <1>9 DEF vars, ringVars, callVars
  <2> QED BY <2>1 DEF StreamStatus, StreamAnswer, Stream!vars
<1> QED BY <1>1, <1>2, <1>3, <1>4, <1>5, <1>6, <1>7, <1>8, <1>9 DEF Next, Stream!Next

\* The buffer implements the stream that its callers are promised.
THEOREM StreamImplemented == Spec => ImplementsStream
<1> DEFINE Inv == TypeOK /\ LastBytesKept /\ ListInv /\ DataInv /\ AnswersInv
<1>1. Init => Inv
  BY InitTypeOK, InitListInv, InitDataInv, InitAnswersInv
<1>2. Inv /\ [Next]_vars => Inv'
  BY StepTypeOK, StepListInv, StepDataInv, StepAnswersInv
<1>3. Inv /\ Inv' /\ [Next]_vars => [Stream!Next]_(Stream!vars)
  BY StepStream
<1>4. Init => Stream!Init
  BY InitStream
<1> HIDE DEF Inv
<1> QED BY <1>1, <1>2, <1>3, <1>4, PTL DEF Spec, ImplementsStream, Stream!Spec
===============================================================================
