--------------------------- MODULE ReceiveBuffer ---------------------------
(***************************************************************************)
(* nutty::ReceiveBuffer (nutty/net/ReceiveBuffer.h, ReceiveBuffer.cpp),    *)
(* with nutty::Buffer and the readv() of TcpConnection::handleRead(): the  *)
(* bytes of a stream, kept in a list of fixed buffers that are filled at   *)
(* the back, read at the front and then used again.                        *)
(*                                                                         *)
(* A byte is its position in the stream, so that what the buffer must hold *)
(* is known from two numbers; 0 stands for storage that was never written. *)
(***************************************************************************)
EXTENDS Integers, Sequences, SequencesExt

CONSTANTS
    kReceiveSize,   \* a new buffer is offered to readv() below this room
    MaxReceived     \* bytes of the stream

ASSUME SizeAssumption == kReceiveSize \in Nat \ {0} /\ MaxReceived \in Nat

Capacity == 2 * kReceiveSize

VARIABLES
    buffers_,
    extendBuffers_,
    size_,
    received,     \* history: bytes readv() has returned
    consumed,     \* history: bytes the user has taken or skipped
    peak          \* history: the largest size_

vars == <<buffers_, extendBuffers_, size_, received, consumed, peak>>

-----------------------------------------------------------------------------
(* Buffer.                                                                 *)

NewBuffer == [mem |-> [i \in 1..Capacity |-> 0], rpos |-> 0, wpos |-> 0]

readableSize(b) == b.wpos - b.rpos

writableSize(b) == Capacity - b.wpos
hasRead(b, count) == [b EXCEPT !.rpos = @ + count]
hasWritten(b, count) == [b EXCEPT !.wpos = @ + count]

reset(b) == [b EXCEPT !.rpos = 0, !.wpos = 0]
empty(b) == b.rpos = b.wpos

\* What the readable part holds from an offset on.
DataRead(b, offset, count) == SubSeq(b.mem, b.rpos + offset + 1,
                                     b.rpos + offset + count)

\* The storage after the kernel has written count bytes at position pos.
Filled(b, pos, first, count) ==
    [b EXCEPT !.mem = [i \in 1..Capacity |->
                          IF i \in (pos + 1)..(pos + count)
                          THEN first + (i - pos) - 1
                          ELSE b.mem[i]]]

Smaller(a, b) == IF a < b THEN a ELSE b

Init ==
    /\ buffers_ = <<>>
    /\ extendBuffers_ = <<>>
    /\ size_ = 0
    /\ received = 0
    /\ consumed = 0
    /\ peak = 0

-----------------------------------------------------------------------------
(* handleRead(): prepareReceive(), readv(), hasReceived().                 *)

BackRoom == IF buffers_ = <<>> THEN 0 ELSE writableSize(Last(buffers_))

\* The second vector is offered if the first has little room.
UsesExtend == BackRoom < kReceiveSize

\* Mutant: a buffer is made for every read.
PreparedAlways ==
    IF UsesExtend THEN <<NewBuffer>> \o extendBuffers_ ELSE extendBuffers_

\* prepareReceive() makes the spare buffer it offers.
Prepared ==
    IF UsesExtend /\ extendBuffers_ = <<>> THEN <<NewBuffer>> ELSE extendBuffers_

Offered == BackRoom + IF UsesExtend THEN Capacity ELSE 0

\* readv() fills the vectors in turn, the spare one from its start.
BackFilled(n) ==
    IF BackRoom = 0
    THEN buffers_
    ELSE [buffers_ EXCEPT ![Len(buffers_)] =
             Filled(@, @.wpos, received + 1, Smaller(n, BackRoom))]

ExtendFilled(n) ==
    IF n <= BackRoom
    THEN Prepared
    ELSE [Prepared EXCEPT ![1] =
             Filled(@, 0, received + BackRoom + 1, n - BackRoom)]

\* Mutant: the spare buffer is credited with the last one's share too.
SpareShareAll(spare, n, back) == Smaller(writableSize(spare), n)

SpareShare(spare, n, back) == Smaller(writableSize(spare), n - back)

\* hasReceived(): the positions follow; a spare buffer that got bytes
\* becomes the last one.
HasReceived(buffers, extend, n) ==
    LET back == Smaller(n, BackRoom)
        credited == IF back = 0
                    THEN buffers
                    ELSE [buffers EXCEPT ![Len(buffers)] = hasWritten(@, back)]
        share == SpareShare(Head(extend), n, back)
    IN IF back < n /\ extend # <<>>
       THEN [buffers |-> Append(credited, hasWritten(Head(extend), share)),
             extend |-> Tail(extend),
             nwrote |-> back + share]
       ELSE [buffers |-> credited, extend |-> extend, nwrote |-> back]

Receive(n) ==
    /\ n \in 1..Offered
    /\ received + n <= MaxReceived
    /\ LET after == HasReceived(BackFilled(n), ExtendFilled(n), n)
       IN /\ buffers_' = after.buffers
          /\ extendBuffers_' = after.extend
          /\ size_' = size_ + after.nwrote
    /\ received' = received + n
    /\ peak' = IF size_' > peak THEN size_' ELSE peak
    /\ UNCHANGED consumed

\* readv() returns an error or the end of the stream.
ReceiveNothing ==
    /\ extendBuffers_' = Prepared
    /\ UNCHANGED <<buffers_, size_, received, consumed, peak>>

-----------------------------------------------------------------------------
(* read() and retrieve(): the same loop, with and without a copy.          *)

\* One turn of the loop, with s.nread bytes of count done.
TakeTurn(s, count) ==
    LET b == Head(s.buffers)
        n == Smaller(readableSize(b), count - s.nread)
        b2 == hasRead(b, n)
        used == empty(b2)
    IN [buffers |-> IF used THEN Tail(s.buffers) ELSE [s.buffers EXCEPT ![1] = b2],
        extend |-> IF used THEN Append(s.extend, reset(b2)) ELSE s.extend,
        nread |-> s.nread + n,
        got |-> s.got \o DataRead(b, 0, n)]

\* A turn uses up a buffer or is the last, so there are no more turns than
\* buffers.
Taken(count) ==
    LET turn[i \in 0..Len(buffers_)] ==
            IF i = 0
            THEN [buffers |-> buffers_, extend |-> extendBuffers_, nread |-> 0,
                  got |-> <<>>]
            ELSE LET s == turn[i - 1]
                 IN IF s.nread >= count \/ s.buffers = <<>>
                    THEN s ELSE TakeTurn(s, count)
    IN turn[Len(buffers_)]

Take(count) ==
    LET after == Taken(count)
    IN /\ buffers_' = after.buffers
       /\ extendBuffers_' = after.extend
       /\ size_' = size_ - after.nread
       /\ consumed' = consumed + after.nread
       /\ UNCHANGED <<received, peak>>

\* retrieveAll(): every buffer is spare again.
RetrieveAll ==
    /\ buffers_' = <<>>
    /\ extendBuffers_' = extendBuffers_ \o [i \in DOMAIN buffers_ |->
                                               reset(buffers_[i])]
    /\ size_' = 0
    /\ consumed' = consumed + size_
    /\ UNCHANGED <<received, peak>>

-----------------------------------------------------------------------------
(* The const functions.                                                    *)

\* Mutant: a copied buffer is cut at count, not at what is left of it.
PeekTurnUncut(s, b, count) ==
    LET n == Smaller(readableSize(b), count)
    IN IF s.nread >= count
       THEN s
       ELSE [nread |-> s.nread + n, got |-> s.got \o DataRead(b, 0, n)]

\* One turn of the loop of peek(buf, count), for the buffer b.
PeekTurn(s, b, count) ==
    LET n == Smaller(readableSize(b), count - s.nread)
    IN IF s.nread >= count
       THEN s
       ELSE [nread |-> s.nread + n, got |-> s.got \o DataRead(b, 0, n)]

Peeked(count) ==
    LET turn[i \in 0..Len(buffers_)] ==
            IF i = 0 THEN [nread |-> 0, got |-> <<>>]
            ELSE PeekTurn(turn[i - 1], buffers_[i], count)
    IN turn[Len(buffers_)].got

\* The same for peek(buf, offset, count): a buffer's size is cut to what is
\* still asked for before the offset is taken off.
PeekAtTurn(s, b, count) ==
    LET n == Smaller(readableSize(b), count - s.nread)
    IN IF s.nread >= count
       THEN s
       ELSE IF s.offset > 0 /\ s.offset >= n
            THEN [s EXCEPT !.offset = @ - n]
            ELSE [offset |-> 0, nread |-> s.nread + (n - s.offset),
                  got |-> s.got \o DataRead(b, s.offset, n - s.offset)]

PeekedAt(offset, count) ==
    LET turn[i \in 0..Len(buffers_)] ==
            IF i = 0 THEN [offset |-> offset, nread |-> 0, got |-> <<>>]
            ELSE PeekAtTurn(turn[i - 1], buffers_[i], count)
    IN turn[Len(buffers_)].got

\* prepareSend(): every buffer is offered to writev().
PrepareSend == FlattenSeq([i \in DOMAIN buffers_ |->
                   DataRead(buffers_[i], 0, readableSize(buffers_[i]))])

-----------------------------------------------------------------------------
Next ==
    \/ \E n \in 1..MaxReceived : Receive(n)
    \/ ReceiveNothing
    \/ \E count \in 0..MaxReceived : Take(count)
    \/ RetrieveAll

Spec == Init /\ [][Next]_vars

-----------------------------------------------------------------------------
(* Properties.                                                             *)

\* The bytes between two stream positions.
Stream(first, last) == [i \in 1..(last - first + 1) |-> first + i - 1]

\* What the buffers hold is the stream from where the user stopped to where
\* the kernel stopped: no byte is lost, repeated, or read from storage that
\* was used before.  size(), on which every caller's test for a complete
\* message rests, counts them (hasReceived, read, retrieve, prepareSend).
HoldsStream ==
    /\ PrepareSend = Stream(consumed + 1, received)
    /\ size_ = received - consumed

\* read() copies, and peek() shows, the next bytes of the stream, as many as
\* asked for or as there are, and peek() changes nothing.  With an offset
\* peek() shows the stream from there, when it is asked for no less than what
\* is held; with a smaller count the cut comes too early.
ReadsInOrder ==
    /\ \A count \in 0..(MaxReceived + 1) :
           LET expected == Stream(consumed + 1, Smaller(received, consumed + count))
           IN /\ Taken(count).got = expected
              /\ Peeked(count) = expected
    /\ \A offset \in 0..(MaxReceived + 1), count \in size_..(MaxReceived + 1) :
           PeekedAt(offset, count) = Stream(consumed + 1 + offset, received)

\* Memory follows the most that was ever held at once, not the length of the
\* stream: but for two, there are no more buffers than what was once held
\* would fill, with less than kReceiveSize more.  Buffers are full, or nearly
\* so, before the next one is used, and come back into use once read
\* (prepareReceive, hasReceived, read).
MemoryBounded ==
    (Len(buffers_) + Len(extendBuffers_) - 2) * Capacity
        <= peak + kReceiveSize - 2
=============================================================================
