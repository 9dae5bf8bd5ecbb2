---------------------------- MODULE OutputPollProofs ----------------------------
(***************************************************************************)
(* Proofs about OutputPoll: a response is a piece of the output, and a     *)
(* client that asks on from where it got to misses nothing that is kept,   *)
(* for any sizes of the buffer, the pieces and the writes.                 *)
(***************************************************************************)
EXTENDS OutputPoll, SequenceTheorems, TLAPS

-------------------------------------------------------------------------------
(* The invariant. *)

\* A piece of the output that continues what the client has, except for what is
\* not kept any more.
Piece(from, bytes) ==
  /\ from = next \/ (next < from /\ from <= Oldest)
  /\ bytes = Bytes(from, Len(bytes))
  /\ from + Len(bytes) <= written

\* What the handler holds at each of its places.
HandlerInv ==
  /\ pc # "idle" => ~gone
  /\ pc \in {"reading", "waiting", "answered", "ended"} => begin = next
  /\ pc = "waiting" => begin = written
  /\ pc = "ended" => closed /\ begin = written
  /\ pc = "answered" => Piece(reply.begin, reply.bytes)
  /\ pc = "sending" => Piece(header, response) /\ begin = header + Len(response)

\* The client has nothing from its position on.
ClientInv ==
  /\ \A i \in 1..Len(got) : got[i] < next
  /\ NothingSkipped

Inv == TypeOK /\ HandlerInv /\ ClientInv

-------------------------------------------------------------------------------
(* Pieces of the output. *)

LEMMA BytesAre ==
  ASSUME NEW from \in Nat, NEW count \in Nat, NEW W \in Nat, from + count <= W
  PROVE  /\ Bytes(from, count) \in Seq(0..W)
         /\ Len(Bytes(from, count)) = count
         /\ \A j \in 1..count : Bytes(from, count)[j] = from + j - 1
<1>1. Bytes(from, count) \in [1..count -> 0..W]
  BY DEF Bytes
<1>2. Bytes(from, count) \in Seq(0..W)
  BY <1>1
<1>3. Len(Bytes(from, count)) = count
  BY <1>1, <1>2 DEF Bytes
<1> QED BY <1>2, <1>3 DEF Bytes

LEMMA BytesConcat ==
  ASSUME NEW from \in Nat, NEW m \in Nat, NEW n \in Nat
  PROVE  Bytes(from, m) \o Bytes(from + m, n) = Bytes(from, m + n)
<1> DEFINE A == Bytes(from, m)
           B == Bytes(from + m, n)
           C == Bytes(from, m + n)
           W == from + m + n
<1>0. W \in Nat /\ from + m <= W /\ (from + m) + n <= W /\ from + (m + n) <= W
      /\ from + m \in Nat /\ m + n \in Nat
  OBVIOUS
<1> HIDE DEF W
<1>1. /\ A \in Seq(0..W) /\ Len(A) = m
      /\ \A j \in 1..m : A[j] = from + j - 1
  BY <1>0, BytesAre
<1>2. /\ B \in Seq(0..W) /\ Len(B) = n
      /\ \A j \in 1..n : B[j] = from + m + j - 1
  BY <1>0, BytesAre
<1>3. /\ C \in Seq(0..W) /\ Len(C) = m + n
      /\ \A j \in 1..(m + n) : C[j] = from + j - 1
  BY <1>0, BytesAre
<1> HIDE DEF A, B, C
<1>4. /\ A \o B \in Seq(0..W) /\ Len(A \o B) = m + n
      /\ \A j \in 1..(m + n) : (A \o B)[j] = from + j - 1
  <2>1. /\ A \o B \in Seq(0..W) /\ Len(A \o B) = Len(A) + Len(B)
        /\ \A j \in 1..(Len(A) + Len(B)) :
             (A \o B)[j] = IF j <= Len(A) THEN A[j] ELSE B[j - Len(A)]
    BY <1>1, <1>2, ConcatProperties
  <2>2. ASSUME NEW j \in 1..(m + n) PROVE (A \o B)[j] = from + j - 1
    <3>1. (A \o B)[j] = IF j <= m THEN A[j] ELSE B[j - m]
      BY <1>1, <1>2, <2>1
    <3>2. CASE j <= m
      BY <1>1, <3>1, <3>2
    <3>3. CASE ~(j <= m)
      <4>1. j - m \in 1..n
        BY <3>3
      <4> QED BY <1>2, <3>1, <3>3, <4>1
    <3> QED BY <3>2, <3>3
  <2> QED BY <1>1, <1>2, <2>1, <2>2
<1>5. A \o B = C
  BY <1>0, <1>3, <1>4, SeqEqual
<1> QED BY <1>5 DEF A, B, C

LEMMA OldestIs ==
  ASSUME TypeOK
  PROVE  /\ Oldest \in 0..written
         /\ \A p \in 0..written : /\ ReadFrom(p) \in p..written
                                  /\ ReadFrom(p) = p \/ ReadFrom(p) = Oldest
BY SizeAssumption DEF TypeOK, Oldest, ReadFrom

\* What was overwritten stays so.
LEMMA OldestGrows ==
  ASSUME TypeOK, written' \in Nat, written <= written'
  PROVE  Oldest \in Nat /\ Oldest' \in Nat /\ Oldest <= Oldest'
BY SizeAssumption DEF TypeOK, Oldest

LEMMA SizesAre ==
  ASSUME TypeOK
  PROVE  /\ BufferSize \in Nat
         /\ MayRead => PieceSize \in Nat
<1>1. BufferSize \in Nat
  BY SizeAssumption DEF TypeOK, BufferSize, Least
<1>2. MayRead => PieceSize \in Nat
  BY <1>1, SizeAssumption DEF TypeOK, PieceSize, MayRead, Least
<1> QED BY <1>1, <1>2

-------------------------------------------------------------------------------
(* Each step keeps the invariant. *)

\* Steps that do not change what the client has.
LEMMA ClientKept ==
  ASSUME Inv, UNCHANGED <<next, got, gone>>, written' \in Nat, written <= written',
         gone => UNCHANGED written, closed => closed'
  PROVE  ClientInv'
<1>1. Oldest \in Nat /\ Oldest' \in Nat /\ Oldest <= Oldest'
  BY OldestGrows DEF Inv
<1>2. next \in Nat
  BY DEF Inv, TypeOK
<1>3. \A n \in 0..(next - 1) : n < Oldest => n < Oldest'
  BY <1>1, <1>2
<1> QED BY <1>3 DEF Inv, ClientInv, NothingSkipped

\* Steps of the handler that neither write nor change what the client has.
LEMMA ClientSame ==
  ASSUME Inv, UNCHANGED <<written, closed, next, got, gone>>
  PROVE  ClientInv'
<1>1. written \in Nat
  BY DEF Inv, TypeOK
<1> QED BY <1>1, ClientKept

LEMMA WriteInv ==
  ASSUME Inv, NEW count \in Chunks, Write(count)
  PROVE  Inv'
<1>1. /\ written \in Nat /\ MaxWritten \in Nat /\ written' \in 0..MaxWritten
      /\ written < written' /\ written' = written + count
  BY SizeAssumption DEF Write, Inv, TypeOK
<1>2. ~closed /\ UNCHANGED <<closed, readCount, begin, header, response, next, got, gone, breaks>>
  BY DEF Write, clientVars
<1>3. ClientInv'
  <2>1. gone => UNCHANGED written
    BY <1>2 DEF Inv, ClientInv, NothingSkipped
  <2> QED BY <1>1, <1>2, <2>1, ClientKept
<1>4. CASE pc = "waiting"
  <2> DEFINE n == Least(BufferSize, written' - begin)
  <2>1. begin \in Nat /\ begin = next /\ begin < written'
    BY <1>1, <1>4 DEF Inv, TypeOK, HandlerInv
  <2>2. n \in Nat /\ begin + n <= written'
    BY <1>1, <2>1, SizesAre DEF Least, Inv
  <2>3. pc' = "answered" /\ reply' = [begin |-> begin, bytes |-> Bytes(begin, n)]
    BY <1>4, <2>1 DEF Write
  <2> HIDE DEF n
  <2>4. /\ Bytes(begin, n) \in Seq(0..MaxWritten)
        /\ Len(Bytes(begin, n)) = n
    <3>1. begin + n <= MaxWritten
      BY <1>1, <2>1, <2>2
    <3> QED BY <1>1, <2>1, <2>2, <3>1, BytesAre
  <2>5. reply' \in [begin : 0..MaxWritten, bytes : Seq(0..MaxWritten)]
    BY <1>1, <2>1, <2>3, <2>4
  <2>6. TypeOK'
    BY <1>1, <1>2, <2>3, <2>5 DEF Inv, TypeOK
  <2>7. HandlerInv'
    BY <1>2, <1>4, <2>1, <2>2, <2>3, <2>4 DEF Inv, HandlerInv, Piece
  <2> QED BY <1>3, <2>6, <2>7 DEF Inv
<1>5. CASE pc # "waiting"
  <2>1. UNCHANGED <<pc, reply>>
    BY <1>5 DEF Write
  <2>2. TypeOK'
    BY <1>1, <1>2, <2>1 DEF Inv, TypeOK
  <2>3. HandlerInv'
    <3>1. Oldest \in Nat /\ Oldest' \in Nat /\ Oldest <= Oldest'
      BY <1>1, OldestGrows DEF Inv
    <3>2. /\ reply.begin \in Nat /\ Len(reply.bytes) \in Nat
          /\ header \in Nat /\ Len(response) \in Nat /\ next \in Nat
      BY <1>1 DEF Inv, TypeOK
    <3>3. pc = "answered" => Piece(reply.begin, reply.bytes)'
      BY <1>1, <1>2, <2>1, <3>1, <3>2 DEF Inv, HandlerInv, Piece
    <3>4. pc = "sending" => Piece(header, response)'
      BY <1>1, <1>2, <2>1, <3>1, <3>2 DEF Inv, HandlerInv, Piece
    <3> QED BY <1>2, <1>5, <2>1, <3>3, <3>4 DEF Inv, HandlerInv
  <2> QED BY <1>3, <2>2, <2>3 DEF Inv
<1> QED BY <1>4, <1>5

LEMMA CloseInv ==
  ASSUME Inv, Close
  PROVE  Inv'
<1>1. /\ closed' = TRUE
      /\ pc' = IF pc = "waiting" THEN "ended" ELSE pc
      /\ UNCHANGED <<written, readCount, begin, reply, header, response, next, got, gone, breaks>>
  BY DEF Close, clientVars
<1>2. TypeOK'
  BY <1>1 DEF Inv, TypeOK
<1>3. HandlerInv'
  BY <1>1 DEF Inv, HandlerInv, Piece, Oldest
<1>4. ClientInv'
  <2>1. written \in Nat
    BY DEF Inv, TypeOK
  <2> QED BY <1>1, <2>1, ClientKept
<1> QED BY <1>2, <1>3, <1>4 DEF Inv

LEMMA RequestInv ==
  ASSUME Inv, NEW count \in ReadCounts, Request(count)
  PROVE  Inv'
<1>1. /\ ~gone /\ readCount' = count /\ begin' = next /\ pc' = "reading"
      /\ UNCHANGED <<written, closed, reply, header, response, next, got, gone, breaks>>
  BY DEF Request, bufferVars, clientVars
<1>2. TypeOK'
  BY <1>1 DEF Inv, TypeOK
<1>3. HandlerInv'
  BY <1>1 DEF HandlerInv
<1> QED BY <1>1, <1>2, <1>3, ClientSame DEF Inv

LEMMA ReadInv ==
  ASSUME Inv, Read
  PROVE  Inv'
<1>1. /\ pc = "reading"
      /\ UNCHANGED <<written, closed, readCount, begin, header, response, next, got, gone, breaks>>
  BY DEF Read, bufferVars, clientVars
<1>2. begin \in 0..written /\ written \in Nat /\ MaxWritten \in Nat
      /\ written <= MaxWritten /\ begin = next
  BY <1>1, SizeAssumption DEF Inv, TypeOK, HandlerInv
<1>3. CASE pc' \in {"ended", "waiting"} /\ UNCHANGED reply
  <2>1. pc' = "ended" => closed /\ begin = written
    BY <1>2, <1>3 DEF Read, Ended
  <2>2. pc' = "waiting" => begin = written
    BY <1>2, <1>3 DEF Read, Ended
  <2>3. TypeOK'
    BY <1>1, <1>3 DEF Inv, TypeOK
  <2>4. HandlerInv'
    BY <1>1, <1>2, <1>3, <2>1, <2>2 DEF Inv, HandlerInv
  <2> QED BY <1>1, <2>3, <2>4, ClientSame DEF Inv
<1>4. CASE ~Ended /\ begin < written
  <2> DEFINE from == ReadFrom(begin)
             n == Least(BufferSize, written - ReadFrom(begin))
  <2>1. from \in begin..written /\ (from = begin \/ from = Oldest)
    BY <1>2, OldestIs DEF Inv
  <2>2. n \in Nat /\ from + n <= written
    BY <1>2, <2>1, SizesAre DEF Least, Inv
  <2>3. pc' = "answered" /\ reply' = [begin |-> from, bytes |-> Bytes(from, n)]
    BY <1>4 DEF Read
  <2> HIDE DEF from, n
  <2>4. /\ Bytes(from, n) \in Seq(0..MaxWritten)
        /\ Len(Bytes(from, n)) = n
    <3>1. from \in Nat /\ from + n <= MaxWritten
      BY <1>2, <2>1, <2>2
    <3> QED BY <1>2, <2>2, <3>1, BytesAre
  <2>5. reply' \in [begin : 0..MaxWritten, bytes : Seq(0..MaxWritten)]
    BY <1>2, <2>1, <2>3, <2>4
  <2>6. TypeOK'
    BY <1>1, <2>3, <2>5 DEF Inv, TypeOK
  <2>7. Oldest' = Oldest /\ (from = next \/ (next < from /\ from <= Oldest))
    BY <1>1, <1>2, <2>1, OldestIs DEF Oldest, Inv
  <2>8. HandlerInv'
    BY <1>1, <1>2, <2>2, <2>3, <2>4, <2>7 DEF Inv, HandlerInv, Piece
  <2> QED BY <1>1, <2>6, <2>8, ClientSame DEF Inv
<1> QED BY <1>3, <1>4 DEF Read

LEMMA TimeOutInv ==
  ASSUME Inv, TimeOut \/ Break
  PROVE  Inv'
<1>1. /\ pc' = "idle" /\ breaks' \in 0..MaxBreaks
      /\ UNCHANGED <<written, closed, readCount, begin, reply, header, response, next, got, gone>>
  BY SizeAssumption DEF TimeOut, Break, bufferVars, clientVars, Inv, TypeOK
<1>2. TypeOK'
  BY <1>1 DEF Inv, TypeOK
<1>3. HandlerInv'
  BY <1>1 DEF HandlerInv
<1> QED BY <1>1, <1>2, <1>3, ClientSame DEF Inv

LEMMA SendGoneInv ==
  ASSUME Inv, SendGone
  PROVE  Inv'
<1>1. /\ pc = "ended" /\ pc' = "idle" /\ gone' = TRUE
      /\ UNCHANGED <<written, closed, readCount, begin, reply, header, response, next, got, breaks>>
  BY DEF SendGone, bufferVars
<1>2. TypeOK'
  BY <1>1 DEF Inv, TypeOK
<1>3. HandlerInv'
  BY <1>1 DEF HandlerInv
<1>4. closed /\ next = written
  BY <1>1 DEF Inv, HandlerInv
<1>5. ClientInv'
  BY <1>1, <1>4 DEF Inv, ClientInv, NothingSkipped, Oldest
<1> QED BY <1>2, <1>3, <1>5 DEF Inv

LEMMA SendFirstInv ==
  ASSUME Inv, SendFirst
  PROVE  Inv'
<1>1. /\ pc = "answered" /\ header' = reply.begin /\ response' = reply.bytes
      /\ begin' = reply.begin + Len(reply.bytes) /\ pc' = "sending"
      /\ UNCHANGED <<written, closed, readCount, reply, next, got, gone, breaks>>
  BY DEF SendFirst, Header, AfterFirst, bufferVars, clientVars
<1>2. /\ reply.begin \in Nat /\ reply.bytes \in Seq(0..MaxWritten)
      /\ Len(reply.bytes) \in Nat /\ written \in Nat
  BY DEF Inv, TypeOK
<1>3. Piece(reply.begin, reply.bytes)
  BY <1>1 DEF Inv, HandlerInv
<1>4. header' \in 0..written /\ begin' \in 0..written
  BY <1>1, <1>2, <1>3 DEF Piece
<1>5. TypeOK'
  BY <1>1, <1>2, <1>4 DEF Inv, TypeOK
<1>6. HandlerInv'
  BY <1>1, <1>3 DEF Inv, HandlerInv, Piece, Oldest
<1> QED BY <1>1, <1>5, <1>6, ClientSame DEF Inv

LEMMA SendNextInv ==
  ASSUME Inv, SendNext
  PROVE  Inv'
<1> DEFINE n == Least(PieceSize, written - begin)
<1>1. /\ pc = "sending" /\ MayRead /\ begin < written /\ ReadFrom(begin) = begin
  BY DEF SendNext, NextPiece, Contiguous
<1>2. /\ response' = response \o Bytes(begin, n) /\ begin' = begin + n
      /\ UNCHANGED <<written, closed, pc, readCount, reply, header, next, got, gone, breaks>>
  BY <1>1 DEF SendNext, bufferVars, clientVars
<1>3. /\ begin \in Nat /\ written \in Nat /\ header \in Nat /\ MaxWritten \in Nat
      /\ written <= MaxWritten
      /\ response \in Seq(0..MaxWritten) /\ Len(response) \in Nat
  BY SizeAssumption DEF Inv, TypeOK
<1>4. n \in Nat /\ begin + n <= written
  BY <1>1, <1>3, SizesAre DEF Least, Inv
<1>5. Piece(header, response) /\ begin = header + Len(response)
  BY <1>1 DEF Inv, HandlerInv
<1> HIDE DEF n
<1>6. Bytes(begin, n) \in Seq(0..MaxWritten) /\ Len(Bytes(begin, n)) = n
  BY <1>3, <1>4, BytesAre
<1>7. response' \in Seq(0..MaxWritten) /\ Len(response') = Len(response) + n
  BY <1>2, <1>3, <1>6, ConcatProperties
<1>8. response' = Bytes(header, Len(response) + n)
  <2>1. response = Bytes(header, Len(response))
    BY <1>5 DEF Piece
  <2>2. Bytes(header, Len(response)) \o Bytes(header + Len(response), n)
          = Bytes(header, Len(response) + n)
    BY <1>3, <1>4, BytesConcat, Zenon
  <2> QED BY <1>2, <1>5, <2>1, <2>2
<1>9. TypeOK'
  BY <1>2, <1>3, <1>4, <1>7 DEF Inv, TypeOK
<1>10. begin' = header' + Len(response')
  BY <1>2, <1>3, <1>4, <1>5, <1>7
<1>11. Piece(header, response)'
  <2>1. Oldest' = Oldest
    BY <1>2 DEF Oldest
  <2>2. header' + Len(response') <= written'
    BY <1>2, <1>4, <1>10
  <2> QED BY <1>2, <1>5, <1>7, <1>8, <2>1, <2>2 DEF Piece
<1>12. HandlerInv'
  BY <1>1, <1>2, <1>10, <1>11 DEF Inv, HandlerInv
<1> QED BY <1>2, <1>9, <1>12, ClientSame DEF Inv

LEMMA FinishInv ==
  ASSUME Inv, Finish
  PROVE  Inv'
<1>1. /\ pc = "sending" /\ pc' = "idle"
      /\ got' = got \o response /\ next' = header + Len(response)
      /\ UNCHANGED <<written, closed, readCount, begin, reply, header, response, gone, breaks>>
  BY DEF Finish, bufferVars
<1> DEFINE g == Len(got)
           n == Len(response)
<1>2. /\ got \in Seq(0..MaxWritten) /\ response \in Seq(0..MaxWritten)
      /\ g \in Nat /\ n \in Nat /\ header \in Nat /\ next \in Nat /\ written \in Nat
      /\ MaxWritten \in Nat /\ written <= MaxWritten /\ Oldest \in Nat
  BY SizeAssumption, OldestIs DEF Inv, TypeOK
<1>3. /\ header = next \/ (next < header /\ header <= Oldest)
      /\ response = Bytes(header, n) /\ header + n <= written
      /\ ~gone
  BY <1>1 DEF Inv, HandlerInv, Piece
<1>4. \A j \in 1..n : response[j] = header + j - 1
  BY <1>3 DEF Bytes
<1>5. /\ got' \in Seq(0..MaxWritten) /\ Len(got') = g + n
      /\ \A i \in 1..g : got'[i] = got[i]
      /\ \A i \in (g + 1)..(g + n) : got'[i] = response[i - g]
  <2>1. /\ got' \in Seq(0..MaxWritten) /\ Len(got') = g + n
        /\ \A i \in 1..(g + n) :
             got'[i] = IF i <= g THEN got[i] ELSE response[i - g]
    BY <1>1, <1>2, ConcatProperties
  <2> HIDE DEF g, n
  <2>2. \A i \in 1..g : i \in 1..(g + n) /\ i <= g
    BY <1>2
  <2>3. \A i \in (g + 1)..(g + n) : i \in 1..(g + n) /\ ~(i <= g)
    BY <1>2
  <2> QED BY <2>1, <2>2, <2>3
<1>6. next' \in 0..written /\ next' = header + n
  BY <1>1, <1>2, <1>3
<1>7. TypeOK'
  BY <1>1, <1>5, <1>6 DEF Inv, TypeOK
<1>8. HandlerInv'
  BY <1>1 DEF HandlerInv
<1>9. /\ \A i \in 1..g : got[i] < next /\ got[i] \in Nat
      /\ \A i, j \in 1..g : i < j => got[i] < got[j]
      /\ \A p \in 0..(next - 1) : p < Oldest \/ \E i \in 1..g : got[i] = p
  <2>1. \A i \in 1..g : got[i] \in 0..MaxWritten
    BY <1>2, ElementOfSeq
  <2>2. \A i \in 1..g : got[i] \in Nat
    BY <1>2, <2>1
  <2> QED BY <2>2 DEF Inv, ClientInv, NothingSkipped
<1> HIDE DEF g, n
<1>10. \A i \in (g + 1)..(g + n) : got'[i] = header + (i - g) - 1
  <2>1. \A i \in (g + 1)..(g + n) : i - g \in 1..n
    BY <1>2
  <2> QED BY <1>2, <1>4, <1>5, <2>1
<1>11. \A i \in 1..Len(got') : got'[i] < next'
  <2> SUFFICES ASSUME NEW i \in 1..(g + n) PROVE got'[i] < next'
    BY <1>5
  <2>1. CASE i \in 1..g
    <3>1. got'[i] < next /\ got'[i] \in Nat
      BY <1>5, <1>9, <2>1
    <3>2. next <= next'
      BY <1>2, <1>3, <1>6
    <3> QED BY <1>2, <1>6, <3>1, <3>2
  <2>2. CASE i \in (g + 1)..(g + n)
    BY <1>2, <1>6, <1>10, <2>2
  <2> QED BY <1>2, <2>1, <2>2
<1>12. \A i, j \in 1..Len(got') : i < j => got'[i] < got'[j]
  <2> SUFFICES ASSUME NEW i \in 1..(g + n), NEW j \in 1..(g + n), i < j
               PROVE  got'[i] < got'[j]
    BY <1>5
  <2>1. CASE i \in 1..g /\ j \in 1..g
    BY <1>5, <1>9, <2>1
  <2>2. CASE i \in 1..g /\ j \in (g + 1)..(g + n)
    <3>1. got'[i] < next /\ got'[i] \in Nat
      BY <1>5, <1>9, <2>2
    <3>2. got'[j] = header + (j - g) - 1
      BY <1>10, <2>2
    <3> QED BY <1>2, <1>3, <2>2, <3>1, <3>2
  <2>3. CASE i \in (g + 1)..(g + n) /\ j \in (g + 1)..(g + n)
    BY <1>2, <1>10, <2>3
  <2> QED BY <1>2, <2>1, <2>2, <2>3
<1>13. \A p \in 0..(next' - 1) : p < Oldest \/ \E i \in 1..Len(got') : got'[i] = p
  <2> SUFFICES ASSUME NEW p \in 0..(next' - 1), ~(p < Oldest)
               PROVE  \E i \in 1..Len(got') : got'[i] = p
    OBVIOUS
  <2>1. CASE p < next
    <3>1. PICK i \in 1..g : got[i] = p
      BY <1>2, <1>9, <2>1
    <3> QED BY <1>2, <1>5, <3>1
  <2>2. CASE p >= next
    <3>1. p >= header /\ p < header + n
      BY <1>2, <1>3, <1>6, <2>2
    <3>2. (g + p - header + 1) \in (g + 1)..(g + n)
      BY <1>2, <1>6, <3>1
    <3>3. got'[g + p - header + 1] = p
      BY <1>2, <1>6, <1>10, <3>2
    <3>4. (g + p - header + 1) \in 1..Len(got')
      BY <1>2, <1>5, <3>2
    <3> QED BY <3>3, <3>4
  <2> QED BY <1>2, <1>6, <2>1, <2>2
<1>14. Oldest' = Oldest /\ ~gone'
  BY <1>1, <1>3 DEF Oldest
<1>15. ClientInv'
  BY <1>11, <1>12, <1>13, <1>14 DEF ClientInv, NothingSkipped
<1> QED BY <1>7, <1>8, <1>15 DEF Inv

LEMMA StepInv == Inv /\ [Next]_vars => Inv'
<1> SUFFICES ASSUME Inv, [Next]_vars PROVE Inv'
  OBVIOUS
<1>1. CASE UNCHANGED vars
  <2>1. UNCHANGED <<written, closed, pc, readCount, begin, reply, header, response,
                    next, got, gone, breaks>>
    BY <1>1 DEF vars, bufferVars, handlerVars, clientVars
  <2>2. TypeOK'
    BY <2>1 DEF Inv, TypeOK
  <2>3. HandlerInv'
    BY <2>1 DEF Inv, HandlerInv, Piece, Oldest
  <2> QED BY <2>1, <2>2, <2>3, ClientSame DEF Inv
<1> QED BY <1>1, WriteInv, CloseInv, RequestInv, ReadInv, TimeOutInv, SendGoneInv,
           SendFirstInv, SendNextInv, FinishInv
        DEF Next, HandlerStep

LEMMA Invariance == Spec => []Inv
<1>1. Init => Inv
  <2> SUFFICES ASSUME Init PROVE Inv
    OBVIOUS
  <2>1. TypeOK
    <3>1. reply \in [begin : 0..MaxWritten, bytes : Seq(0..MaxWritten)]
      BY SizeAssumption DEF Init
    <3>2. response \in Seq(0..MaxWritten) /\ got \in Seq(0..MaxWritten)
      BY DEF Init
    <3>3. /\ written = 0 /\ pc = "idle" /\ readCount = 0 /\ begin = 0
          /\ header = 0 /\ next = 0 /\ breaks = 0
      BY DEF Init
    <3>4. closed \in BOOLEAN /\ gone \in BOOLEAN
      BY Zenon DEF Init
    <3> QED BY <3>1, <3>2, <3>3, <3>4, SizeAssumption DEF TypeOK
  <2>2. HandlerInv
    BY DEF Init, HandlerInv
  <2>3. ClientInv
    BY DEF Init, ClientInv, NothingSkipped
  <2> QED BY <2>1, <2>2, <2>3 DEF Inv
<1>2. Inv /\ [Next]_vars => Inv'
  BY StepInv
<1> QED BY <1>1, <1>2, PTL DEF Spec

\* Every variable always has its type: no position is ever behind what is
\* written.
THEOREM TypeCorrect == Spec => []TypeOK
<1>1. Inv => TypeOK
  BY DEF Inv
<1> QED BY <1>1, Invariance, PTL

\* A response of OutputPollHandler is a piece of the output that begins at the
\* position it names, although the buffer is written between its reads.
THEOREM ResponsesFaithful == Spec => []ResponseFaithful
<1>1. Inv => ResponseFaithful
  BY DEF Inv, HandlerInv, Piece, ResponseFaithful
<1> QED BY <1>1, Invariance, PTL

\* A client that polls on from where it got to gets every byte at most once, in
\* order, and all that was not overwritten before it asked; and it is told that
\* the program has exited only when it has got to the end.
THEOREM NothingIsSkipped == Spec => []NothingSkipped
<1>1. Inv => NothingSkipped
  BY DEF Inv, ClientInv
<1> QED BY <1>1, Invariance, PTL

===============================================================================
