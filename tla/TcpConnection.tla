--------------------------- MODULE TcpConnection ---------------------------
(***************************************************************************)
(* nutty::TcpConnection (nutty/net/TcpConnection.h, TcpConnection.cpp):    *)
(* one connection, from established() to its deletion, with the            *)
(* SendBuffer it fills when the kernel does not take everything, and the   *)
(* part its owner (TcpServer or TcpClient) plays in its life.              *)
(*                                                                         *)
(* The connection's loop is the serial executor of SerialExecutor.  Users  *)
(* call the connection from the loop's thread or from their own; what they *)
(* hold, and what queued functors hold, keeps the object alive.            *)
(***************************************************************************)
EXTENDS Integers, Sequences, Functions

CONSTANTS
    LoopUser,    \* user code in callbacks on the connection's loop
    Users,       \* other threads that were given the TcpConnectionPtr
    MaxSends,    \* no send() is started after this many
    MaxCount,    \* bytes in one send()
    MaxQueue     \* users push onto the loop only up to this many functors

ASSUME UserAssumption == LoopUser \notin Users
ASSUME BoundAssumption == MaxSends \in Nat /\ MaxCount \in Nat /\ MaxQueue \in Nat

VARIABLES
    state_,
    reading,       \* watcher_->isReading()
    writing,       \* watcher_->isWriting()
    sendBuffer_,   \* the readable bytes of sendBuffer_
    unreadable,    \* sendBuffer_.size() counts bytes that are not readable
    fin,           \* shutdownWrite() has been called
    heldBack,      \* history: shutdownInLoop() found unsent data
    queue,         \* functors on the loop
    owner,         \* "holds" a reference, is "removing" it (on another loop),
                   \* has "released" it, or is itself "destroyed"
    holders,       \* users that hold a reference
    checked,       \* users inside send(), past its test of state_
    undefined,     \* what was used after its deletion: "no", "send", "close"
    sends,         \* number of calls of send() past their test of state_
    taken,         \* history: bytes sendInLoop() wrote or buffered
    wire,          \* history: bytes the kernel took
    connects,      \* history: calls of connectCallback_
    disconnects,   \* history: calls of disconnectCallback_
    closes,        \* history: calls of closeCallback_
    late,          \* history: a send was queued behind a destroyed()
    abandoned      \* history: destroyedInLoop() found kDisconnecting

watch == <<reading, writing>>
fins == <<fin, heldBack>>
out == <<sendBuffer_, unreadable, taken, wire>>
refs == <<owner, holders, checked>>
calls == <<connects, disconnects, closes>>
hist == <<late, abandoned>>
vars == <<state_, watch, out, fins, queue, refs, undefined, sends, calls, hist>>

States == {"kConnecting", "kConnected", "kDisconnecting", "kDisconnected"}

\* A functor; all but a send are bound to a shared_ptr.
Functor(fn, data) == [fn |-> fn, data |-> data]
Binds(fn) == Functor(fn, <<>>)

\* The bytes of the n-th call of send().
Bytes(n, count) == [k \in 1..count |-> <<n, k>>]

\* The owner has made the connection and called established().
Init ==
    /\ state_ = "kConnecting"
    /\ reading = FALSE
    /\ writing = FALSE
    /\ sendBuffer_ = <<>>
    /\ unreadable = FALSE
    /\ fin = FALSE
    /\ heldBack = FALSE
    /\ queue = <<Binds("established")>>
    /\ owner = "holds"
    /\ holders = {}
    /\ checked = {}
    /\ undefined = "no"
    /\ sends = 0
    /\ taken = <<>>
    /\ wire = <<>>
    /\ connects = 0
    /\ disconnects = 0
    /\ closes = 0
    /\ late = FALSE
    /\ abandoned = FALSE

\* The object exists while anything holds a shared_ptr to it.
Alive ==
    \/ owner \in {"holds", "removing"}
    \/ holders # {}
    \/ \E i \in DOMAIN queue : queue[i].fn # "send"

\* Watcher::update(): in poll exactly while some event is enabled.
Registered == reading \/ writing

DestroyedQueued == \E i \in DOMAIN queue : queue[i].fn = "destroyed"

-----------------------------------------------------------------------------
(* sendInLoop() and the write event.                                       *)

\* Mutant: after a short write everything is buffered.
RestAll(data, k) == IF k = Len(data) THEN <<>> ELSE data

Rest(data, k) == SubSeq(data, k + 1, Len(data))

\* A buffer made from a ReceiveBuffer has the rest in its storage and in
\* size(), but its write position is left at the start.
Readable(data, fromReceive, k) == IF fromReceive THEN <<>> ELSE Rest(data, k)

Ignored(data) == state_ = "kDisconnected" \/ writing \/ data = <<>>

\* Mutant: data the kernel does not take at all is buffered and forgotten.
WriteUnwatched(data, fromReceive, k) ==
    /\ ~fin
    /\ wire' = wire \o SubSeq(data, 1, k)
    /\ taken' = taken \o data
    /\ writing' = (k \in 1..(Len(data) - 1))
    /\ sendBuffer_' = Readable(data, fromReceive, k)
    /\ unreadable' = (fromReceive /\ k < Len(data))

\* The kernel takes the first k bytes; the rest is buffered and the write
\* event enabled.
WriteSome(data, fromReceive, k) ==
    /\ ~fin
    /\ wire' = wire \o SubSeq(data, 1, k)
    /\ taken' = taken \o data
    /\ writing' = (k < Len(data))
    /\ sendBuffer_' = Readable(data, fromReceive, k)
    /\ unreadable' = (fromReceive /\ k < Len(data))

\* sendInLoop(): while earlier data waits, new data is dropped; so is data
\* the kernel refuses with EPIPE or ECONNRESET, as it does after a FIN.
SendInLoop(data, fromReceive) ==
    /\ IF Ignored(data)
       THEN UNCHANGED <<writing, out>>
       ELSE \/ \E k \in 0..Len(data) : WriteSome(data, fromReceive, k)
            \/ UNCHANGED <<writing, out>>
    /\ UNCHANGED <<state_, reading, fins, undefined, calls>>

\* Mutant: the write event is left enabled.
WritingStays(rest) == TRUE

WritingAfter(rest) == rest # <<>>

\* SendBuffer::hasSent(); as nothing is appended while the write event is
\* enabled, there is never more than one buffer in the list.
HasSent(buffer, k) == SubSeq(buffer, k + 1, Len(buffer))

\* handleWrite(), when the kernel takes k > 0 bytes; when it takes none, or
\* when nothing is readable, nothing changes.  Once drained, a connection in
\* kDisconnecting calls shutdownInLoop(), which does nothing in that state.
HandleWrite(k) ==
    /\ writing
    /\ undefined = "no"
    /\ k \in 1..Len(sendBuffer_)
    /\ wire' = wire \o SubSeq(sendBuffer_, 1, k)
    /\ sendBuffer_' = HasSent(sendBuffer_, k)
    /\ writing' = WritingAfter(sendBuffer_')
    /\ UNCHANGED <<state_, reading, unreadable, taken, fins, queue, refs,
                   undefined, sends, calls, hist>>

-----------------------------------------------------------------------------
(* The other functions that run in the loop, as parts of actions.          *)

Quiet == UNCHANGED <<state_, watch, fins, undefined, calls, out>>

EstablishedInLoop ==
    IF state_ = "kConnecting"
    THEN /\ state_' = "kConnected"
         /\ reading' = TRUE
         /\ connects' = connects + 1
         /\ UNCHANGED <<writing, fins, undefined, disconnects, closes, out>>
    ELSE Quiet

\* Mutant: FIN is sent at once, whatever is still buffered.
FinNowAlways == TRUE

FinNow == ~writing

ShutdownInLoop ==
    IF state_ = "kConnected"
    THEN /\ state_' = "kDisconnecting"
         /\ fin' = FinNow
         /\ heldBack' = (sendBuffer_ # <<>> \/ unreadable)
         /\ UNCHANGED <<watch, undefined, calls, out>>
    ELSE Quiet

\* Mutant: only the read event is disabled.
HandleCloseReading ==
    /\ state_' = "kDisconnected"
    /\ reading' = FALSE
    /\ disconnects' = disconnects + 1
    /\ closes' = closes + 1
    /\ undefined' = IF owner = "destroyed" THEN "close" ELSE undefined
    /\ UNCHANGED <<writing, fins, connects, out>>

\* Mutant: the state is left as it was.
HandleCloseStateless ==
    /\ reading' = FALSE
    /\ writing' = FALSE
    /\ disconnects' = disconnects + 1
    /\ closes' = closes + 1
    /\ undefined' = IF owner = "destroyed" THEN "close" ELSE undefined
    /\ UNCHANGED <<state_, fins, connects, out>>

\* handleClose(): disconnectCallback_, then the owner's closeCallback_,
\* bound to the plain pointer of the owner.
HandleClose ==
    /\ state_' = "kDisconnected"
    /\ reading' = FALSE
    /\ writing' = FALSE
    /\ disconnects' = disconnects + 1
    /\ closes' = closes + 1
    /\ undefined' = IF owner = "destroyed" THEN "close" ELSE undefined
    /\ UNCHANGED <<fins, connects, out>>

IsOpen == state_ \in {"kConnected", "kDisconnecting"}

DestroyedInLoop ==
    IF state_ = "kConnected"
    THEN /\ state_' = "kDisconnected"
         /\ reading' = FALSE
         /\ writing' = FALSE
         /\ disconnects' = disconnects + 1
         /\ UNCHANGED <<fins, undefined, connects, closes, out>>
    ELSE Quiet

-----------------------------------------------------------------------------
(* The owner.                                                              *)

\* Mutant: the owner drops its reference without calling destroyed().
RemoveSilently(rest) ==
    /\ owner' = "released"
    /\ queue' = rest

\* Mutant: the owner calls destroyed() and keeps its reference.
RemoveNothing(rest) ==
    /\ owner' = "holds"
    /\ queue' = Append(rest, Binds("destroyed"))

\* removeConnection() of TcpClient, or of a TcpServer on the same loop, runs
\* in place; that of a TcpServer on another loop is queued there.
Remove(rest) ==
    \/ /\ owner' = "released"
       /\ queue' = Append(rest, Binds("destroyed"))
    \/ /\ owner' = "removing"
       /\ queue' = rest

NoOwner == owner # "holds"

\* Closing, and the removal it makes the owner do.
CloseAndRemove(rest) ==
    /\ HandleClose
    /\ IF NoOwner THEN queue' = rest /\ UNCHANGED owner ELSE Remove(rest)

\* removeConnectionInLoop() on the server's loop.
RemoveConnectionInLoop ==
    /\ owner = "removing"
    /\ undefined = "no"
    /\ owner' = "released"
    /\ queue' = Append(queue, Binds("destroyed"))
    /\ UNCHANGED <<state_, watch, out, fins, holders, checked, undefined, sends,
                   calls, hist>>

\* ~TcpServer() and ~TcpClient(): destroyed(), and the reference is dropped.
OwnerDestroyed ==
    /\ owner = "holds"
    /\ undefined = "no"
    /\ owner' = "destroyed"
    /\ queue' = Append(queue, Binds("destroyed"))
    /\ UNCHANGED <<state_, watch, out, fins, holders, checked, undefined, sends,
                   calls, hist>>

-----------------------------------------------------------------------------
(* The loop.                                                               *)

\* A readable event with nothing to read, or a hang-up.  Other read events
\* change nothing here.
PeerClosed ==
    /\ reading
    /\ undefined = "no"
    /\ CloseAndRemove(queue)
    /\ UNCHANGED <<holders, checked, sends, hist>>

\* The next functor.  Being told of the connection, users get a reference.
RunFunctor ==
    /\ queue # <<>>
    /\ undefined = "no"
    /\ LET f == Head(queue)
           rest == Tail(queue)
       IN \/ /\ f.fn = "established"
             /\ EstablishedInLoop
             /\ holders' = Users \cup {LoopUser}
             /\ queue' = rest
             /\ UNCHANGED owner
          \/ /\ f.fn = "send"
             /\ Alive
             /\ SendInLoop(f.data, FALSE)
             /\ queue' = rest
             /\ UNCHANGED <<owner, holders>>
          \/ /\ f.fn = "send"
             /\ ~Alive
             /\ undefined' = "send"
             /\ queue' = rest
             /\ UNCHANGED <<state_, watch, fins, calls, out, owner, holders>>
          \/ /\ f.fn = "shutdown"
             /\ ShutdownInLoop
             /\ queue' = rest
             /\ UNCHANGED <<owner, holders>>
          \/ /\ f.fn = "forceClose"
             /\ IF IsOpen
                THEN CloseAndRemove(rest)
                ELSE Quiet /\ queue' = rest /\ UNCHANGED owner
             /\ UNCHANGED holders
          \/ /\ f.fn = "destroyed"
             /\ DestroyedInLoop
             /\ queue' = rest
             /\ UNCHANGED <<owner, holders>>
    /\ abandoned' = \/ abandoned
                    \/ Head(queue).fn = "destroyed" /\ state_ = "kDisconnecting"
    /\ UNCHANGED <<checked, sends, late>>

-----------------------------------------------------------------------------
(* The users.                                                              *)

HasRoom == Len(queue) < MaxQueue

\* send() on the loop's thread.
SendHere(count, fromReceive) ==
    /\ LoopUser \in holders
    /\ undefined = "no"
    /\ sends < MaxSends
    /\ sends' = sends + 1
    /\ IF state_ = "kConnected"
       THEN SendInLoop(Bytes(sends', count), fromReceive)
       ELSE Quiet
    /\ UNCHANGED <<queue, refs, hist>>

\* send() on another thread, first half: state_ is read without a lock.
SendChecks(u) ==
    /\ u \in holders \cap Users
    /\ u \notin checked
    /\ undefined = "no"
    /\ sends < MaxSends
    /\ state_ = "kConnected"
    /\ checked' = checked \cup {u}
    /\ UNCHANGED <<state_, watch, out, fins, queue, owner, holders, undefined,
                   sends, calls, hist>>

\* Second half: the functor is bound to the plain this.  A copy made from a
\* ReceiveBuffer has no readable byte, so its count is 0.
SendQueues(u, count) ==
    /\ u \in checked
    /\ undefined = "no"
    /\ checked' = checked \ {u}
    /\ sends' = sends + 1
    /\ queue' = Append(queue, Functor("send", Bytes(sends', count)))
    /\ late' = (late \/ DestroyedQueued \/ owner \in {"released", "destroyed"})
    /\ UNCHANGED <<state_, watch, out, fins, owner, holders, undefined, calls,
                   abandoned>>

\* shutdown(): in place on the loop's thread, else queued.
Shutdown(u) ==
    /\ u \in holders \ checked
    /\ undefined = "no"
    /\ IF u = LoopUser
       THEN ShutdownInLoop /\ UNCHANGED queue
       ELSE HasRoom /\ queue' = Append(queue, Binds("shutdown")) /\ Quiet
    /\ UNCHANGED <<refs, sends, hist>>

\* forceClose(): always queued.
ForceClose(u) ==
    /\ u \in holders \ checked
    /\ undefined = "no"
    /\ HasRoom
    /\ queue' = Append(queue, Binds("forceClose"))
    /\ Quiet
    /\ UNCHANGED <<refs, sends, hist>>

\* A user lets go of its TcpConnectionPtr.
Drop(u) ==
    /\ u \in holders \ checked
    /\ undefined = "no"
    /\ holders' = holders \ {u}
    /\ UNCHANGED <<state_, watch, out, fins, queue, owner, checked, undefined,
                   sends, calls, hist>>

-----------------------------------------------------------------------------
Loop ==
    \/ RunFunctor
    \/ PeerClosed
    \/ \E k \in 1..MaxCount : HandleWrite(k)

Call ==
    \/ \E count \in 0..MaxCount, fromReceive \in BOOLEAN :
           SendHere(count, fromReceive)
    \/ \E u \in Users :
           \/ SendChecks(u)
           \/ \E count \in 0..MaxCount : SendQueues(u, count)
    \/ \E u \in Users \cup {LoopUser} : Shutdown(u) \/ ForceClose(u) \/ Drop(u)

Next == Loop \/ Call \/ RemoveConnectionInLoop \/ OwnerDestroyed

\* Loops run their functors, a thread inside send() gets to its end, users
\* let go of the connection in the end, and a peer that does not close reads.
Fairness ==
    /\ WF_vars(RunFunctor)
    /\ WF_vars(RemoveConnectionInLoop)
    /\ WF_vars(\E k \in 1..MaxCount : HandleWrite(k))
    /\ \A u \in Users : WF_vars(\E count \in 0..MaxCount : SendQueues(u, count))
    /\ \A u \in Users \cup {LoopUser} : SF_vars(Drop(u))

Spec == Init /\ [][Next]_vars
FairSpec == Spec /\ Fairness

-----------------------------------------------------------------------------
(* Properties.                                                             *)

\* Users and owner are told of each end of the connection once, however
\* forceClose(), a closing peer and the owner's destructor race: no
\* disconnect without a connect, a disconnect by the time the state is
\* kDisconnected, and no close without a disconnect.
CallbacksPaired ==
    /\ connects = IF state_ = "kConnecting" THEN 0 ELSE 1
    /\ disconnects = IF state_ = "kDisconnected" THEN 1 ELSE 0
    /\ closes <= disconnects

\* The write event is enabled exactly while something waits in the buffer,
\* so that data never waits without anyone looking, and poll() never spins
\* on an empty buffer (sendInLoop, handleWrite).  As sendInLoop() drops
\* whatever it is given while the write event is enabled, this also says
\* that data is dropped only behind earlier data that still waits.
WritesWatched ==
    state_ # "kDisconnected" => (writing <=> sendBuffer_ # <<>> \/ unreadable)

\* What the connection took over is what the kernel got followed by what is
\* buffered: nothing is lost in the middle, repeated or reordered by short
\* writes.  Excepted is the rest of a ReceiveBuffer, which is stored without
\* being readable.
StreamIntact == ~unreadable => wire \o sendBuffer_ = taken

\* FIN is sent only after everything taken over has been written, and a
\* shutdown() with nothing left to write sends it at once.  One that comes
\* while data waits never leads to a FIN: handleWrite() calls
\* shutdownInLoop() when the buffer has drained, which does nothing in
\* kDisconnecting.
FinAfterData ==
    /\ fin => sendBuffer_ = <<>> /\ ~unreadable
    /\ state_ = "kDisconnecting" => (fin <=> ~heldBack)

\* A queued send, which holds no reference, meets a deleted connection only
\* if it was queued after the owner had let go: between its test of state_
\* and the queueing, or after the owner's destructor.
DeadSendOnlyIfLate == undefined = "send" => late

\* A connection is never deleted while poll() watches it, unless its owner
\* was destroyed and a shutdown() came first, so that destroyedInLoop() did
\* nothing.
DeletedUnwatched == ~Alive => ~Registered \/ abandoned

\* A closed connection is let go of by its owner and deleted.
ClosedIsDeleted == (state_ = "kDisconnected") ~> (~Alive \/ undefined # "no")

\* Buffered data reaches the kernel or the connection ends.
BufferDrains ==
    (sendBuffer_ # <<>>) ~>
        (sendBuffer_ = <<>> \/ state_ = "kDisconnected" \/ undefined # "no")
=============================================================================
