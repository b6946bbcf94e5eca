------------------------ MODULE TcpConnectionProofs ------------------------
(***************************************************************************)
(* Theorems about TcpConnection for any set of users, any sizes of data    *)
(* and any number of calls: callbacks come in pairs, the stream arrives    *)
(* whole and in order, FIN comes last, and the unprotected functor of      *)
(* send() and the deletion of the connection are safe but for the cases    *)
(* their properties except.                                                *)
(*                                                                         *)
(* The inductive invariant comes in three layers: the life of the          *)
(* connection, its data, and the references that keep it alive.            *)
(***************************************************************************)
EXTENDS TcpConnection, SequenceTheorems, TLAPS

Fns == {"established", "send", "shutdown", "forceClose", "destroyed"}
ByteSet == Nat \X Nat
FunctorSet == [fn : Fns, data : Seq(ByteSet)]

\* The types of the members, of the loop's queue and of the histories.
TypeOK ==
    /\ state_ \in States
    /\ reading \in BOOLEAN /\ writing \in BOOLEAN
    /\ sendBuffer_ \in Seq(ByteSet) /\ unreadable \in BOOLEAN
    /\ fin \in BOOLEAN /\ heldBack \in BOOLEAN
    /\ queue \in Seq(FunctorSet)
    /\ owner \in {"holds", "removing", "released", "destroyed"}
    /\ holders \subseteq Users \cup {LoopUser}
    /\ checked \subseteq Users
    /\ undefined \in {"no", "send", "close"}
    /\ sends \in Nat
    /\ taken \in Seq(ByteSet) /\ wire \in Seq(ByteSet)
    /\ connects \in Nat /\ disconnects \in Nat /\ closes \in Nat
    /\ late \in BOOLEAN /\ abandoned \in BOOLEAN

\* No functor of this name is in the queue.
Without(q, fn) == \A i \in 1..Len(q) : q[i].fn # fn

\* Until establishedInLoop() has run nobody else knows the connection, and
\* it runs once.
Unknown ==
    IF state_ = "kConnecting"
    THEN /\ queue # <<>> /\ queue[1].fn = "established"
         /\ \A i \in 2..Len(queue) : queue[i].fn = "destroyed"
         /\ holders = {} /\ checked = {} /\ ~reading /\ ~writing
    ELSE Without(queue, "established")

\* The read event is enabled exactly while the connection is open, the write
\* event only then.
WatchedWhileOpen == (reading <=> IsOpen) /\ (writing => IsOpen)

LifeInv == TypeOK /\ Unknown /\ WatchedWhileOpen /\ CallbacksPaired

\* One thing waits to be written at a time.
DataInv ==
    /\ WritesWatched
    /\ sendBuffer_ = <<>> \/ ~unreadable
    /\ StreamIntact
    /\ FinAfterData

\* A send that was queued in time runs before the destroyed() of the owner,
\* whose functor holds a reference.
Covered(q) ==
    \A i \in 1..Len(q) : q[i].fn = "send" =>
        \E j \in 1..Len(q) : j > i /\ q[j].fn = "destroyed"
SendsCovered == late \/ owner \in {"holds", "removing"} \/ Covered(queue)

\* An owner that has let go has called destroyed(), which closes the
\* connection unless it is in kDisconnecting.
OwnerLetsGo ==
    owner \in {"released", "destroyed"} =>
        DestroyedQueued \/ state_ = "kDisconnected" \/ abandoned

RefInv == SendsCovered /\ OwnerLetsGo /\ DeadSendOnlyIfLate

Inv == LifeInv /\ DataInv /\ RefInv

-----------------------------------------------------------------------------
(* The loop's queue.                                                       *)

\* A functor pushed onto the loop comes last and moves no other.
LEMMA Pushed ==
    ASSUME NEW q \in Seq(FunctorSet), NEW e \in FunctorSet
    PROVE  /\ Append(q, e) \in Seq(FunctorSet)
           /\ Append(q, e) # <<>>
           /\ Len(Append(q, e)) = Len(q) + 1
           /\ \A i \in 1..Len(q) : Append(q, e)[i] = q[i]
           /\ Append(q, e)[Len(q) + 1] = e
           /\ Len(q) \in Nat
OBVIOUS

\* Taking the first functor off moves the others up.
LEMMA Popped ==
    ASSUME NEW q \in Seq(FunctorSet), q # <<>>
    PROVE  /\ Tail(q) \in Seq(FunctorSet)
           /\ Head(q) \in FunctorSet /\ Head(q) = q[1]
           /\ Len(q) \in Nat \ {0}
           /\ Len(Tail(q)) = Len(q) - 1
           /\ \A i \in 1..(Len(q) - 1) : Tail(q)[i] = q[i + 1]
OBVIOUS

\* What is not in the queue does not come in unless it is pushed.
LEMMA WithoutPush ==
    ASSUME NEW q \in Seq(FunctorSet), NEW e \in FunctorSet, NEW fn,
           Without(q, fn), e.fn # fn
    PROVE  Without(Append(q, e), fn)
BY Pushed DEF Without

\* Running the first functor of a queue without such a functor leaves none.
LEMMA WithoutPop ==
    ASSUME NEW q \in Seq(FunctorSet), q # <<>>, NEW fn, Without(q, fn)
    PROVE  Without(Tail(q), fn)
BY Popped DEF Without

\* A destroyed() that is pushed covers every send before it; others neither
\* cover nor uncover any.
LEMMA CoveredPush ==
    ASSUME NEW q \in Seq(FunctorSet), NEW e \in FunctorSet,
           e.fn = "destroyed" \/ (Covered(q) /\ e.fn # "send")
    PROVE  Covered(Append(q, e))
<1>1. CASE e.fn = "destroyed"
  <2> SUFFICES ASSUME NEW i \in 1..(Len(q) + 1), Append(q, e)[i].fn = "send"
               PROVE  \E j \in 1..(Len(q) + 1) :
                          j > i /\ Append(q, e)[j].fn = "destroyed"
    BY Pushed DEF Covered
  <2>1. i # Len(q) + 1
    BY <1>1, Pushed
  <2>2. Len(q) + 1 > i /\ Len(q) + 1 \in 1..(Len(q) + 1)
    BY <2>1, Pushed
  <2> QED
    BY <1>1, <2>2, Pushed
<1>2. CASE Covered(q) /\ e.fn # "send"
  <2> SUFFICES ASSUME NEW i \in 1..(Len(q) + 1), Append(q, e)[i].fn = "send"
               PROVE  \E j \in 1..(Len(q) + 1) :
                          j > i /\ Append(q, e)[j].fn = "destroyed"
    BY Pushed DEF Covered
  <2>1. i \in 1..Len(q) /\ q[i].fn = "send"
    BY <1>2, Pushed
  <2>2. PICK j \in 1..Len(q) : j > i /\ q[j].fn = "destroyed"
    BY <1>2, <2>1 DEF Covered
  <2>3. j \in 1..(Len(q) + 1) /\ Append(q, e)[j] = q[j]
    BY Pushed
  <2> QED
    BY <2>2, <2>3
<1> QED
  BY <1>1, <1>2

\* Running the first functor leaves the other sends covered.
LEMMA CoveredPop ==
    ASSUME NEW q \in Seq(FunctorSet), q # <<>>, Covered(q)
    PROVE  Covered(Tail(q))
<1> SUFFICES ASSUME NEW i \in 1..(Len(q) - 1), Tail(q)[i].fn = "send"
             PROVE  \E j \in 1..(Len(q) - 1) : j > i /\ Tail(q)[j].fn = "destroyed"
  BY Popped DEF Covered
<1>1. i + 1 \in 1..Len(q) /\ q[i + 1].fn = "send"
  BY Popped
<1>2. PICK j \in 1..Len(q) : j > i + 1 /\ q[j].fn = "destroyed"
  BY <1>1 DEF Covered
<1>3. j - 1 \in 1..(Len(q) - 1) /\ j - 1 > i /\ Tail(q)[j - 1] = q[j]
  BY <1>2, Popped
<1> QED
  BY <1>2, <1>3

\* Functors that are bound to a shared_ptr, and the bytes of a send().
LEMMA BindsType == \A fn \in Fns : Binds(fn) \in FunctorSet /\ Binds(fn).fn = fn
BY DEF Binds, Functor, FunctorSet

\* The bytes that one send() passes are bytes of the stream.
LEMMA BytesType == \A n, count \in Nat : Bytes(n, count) \in Seq(ByteSet)
BY DEF Bytes, ByteSet

-----------------------------------------------------------------------------
(* The life of the connection.                                             *)

\* sendInLoop() keeps the types of what it writes.
LEMMA SendInLoopType ==
    ASSUME TypeOK, NEW data \in Seq(ByteSet), NEW fromReceive \in BOOLEAN,
           SendInLoop(data, fromReceive)
    PROVE  /\ writing' \in BOOLEAN /\ unreadable' \in BOOLEAN
           /\ sendBuffer_' \in Seq(ByteSet)
           /\ taken' \in Seq(ByteSet) /\ wire' \in Seq(ByteSet)
<1>1. CASE UNCHANGED <<writing, out>>
  BY <1>1 DEF TypeOK, out
<1>2. ASSUME NEW k \in 0..Len(data), WriteSome(data, fromReceive, k)
      PROVE  /\ writing' \in BOOLEAN /\ unreadable' \in BOOLEAN
             /\ sendBuffer_' \in Seq(ByteSet)
             /\ taken' \in Seq(ByteSet) /\ wire' \in Seq(ByteSet)
  <2>1. writing' \in BOOLEAN /\ unreadable' \in BOOLEAN
    BY <1>2 DEF WriteSome
  <2>2. SubSeq(data, 1, k) \in Seq(ByteSet)
    BY SubSeqProperties
  <2>5. Rest(data, k) \in Seq(ByteSet)
    BY SubSeqProperties DEF Rest
  <2>3. sendBuffer_' \in Seq(ByteSet)
    BY <1>2, <2>5 DEF WriteSome, Readable
  <2>4. taken' \in Seq(ByteSet) /\ wire' \in Seq(ByteSet)
    BY <1>2, <2>2 DEF WriteSome, TypeOK
  <2> QED
    BY <2>1, <2>3, <2>4
<1> QED
  BY <1>1, <1>2 DEF SendInLoop

\* handleClose() and the removal keep the types of what they write.
LEMMA CloseAndRemoveType ==
    ASSUME TypeOK, NEW rest \in Seq(FunctorSet), CloseAndRemove(rest)
    PROVE  /\ state_' = "kDisconnected" /\ reading' = FALSE /\ writing' = FALSE
           /\ disconnects' = disconnects + 1 /\ closes' = closes + 1
           /\ undefined' \in {undefined, "close"}
           /\ UNCHANGED <<fins, connects, out>>
           /\ \/ queue' = rest /\ owner' \in {owner, "removing"}
                 /\ (owner' = owner => owner # "holds")
              \/ queue' = Append(rest, Binds("destroyed")) /\ owner' = "released"
           /\ queue' \in Seq(FunctorSet)
           /\ owner' \in {"holds", "removing", "released", "destroyed"}
<1>1. queue' = rest \/ queue' = Append(rest, Binds("destroyed"))
  BY DEF CloseAndRemove, Remove, NoOwner
<1>2. Binds("destroyed") \in FunctorSet
  BY BindsType DEF Fns
<1>3. queue' \in Seq(FunctorSet)
  BY <1>1, <1>2, Pushed
<1> QED
  BY <1>3 DEF CloseAndRemove, HandleClose, Remove, NoOwner, TypeOK

\* So that they keep the types.
LEMMA ClosedType ==
    ASSUME TypeOK, NEW rest \in Seq(FunctorSet), CloseAndRemove(rest)
    PROVE  /\ state_' \in States
           /\ reading' \in BOOLEAN /\ writing' \in BOOLEAN
           /\ disconnects' \in Nat /\ closes' \in Nat
           /\ undefined' \in {"no", "send", "close"}
           /\ UNCHANGED <<fins, connects, out>>
           /\ queue' \in Seq(FunctorSet)
           /\ owner' \in {"holds", "removing", "released", "destroyed"}
<1>1. disconnects + 1 \in Nat /\ closes + 1 \in Nat
  BY DEF TypeOK
<1> QED
  BY <1>1, CloseAndRemoveType DEF TypeOK, States, fins, out

\* Each step keeps the types.
LEMMA TypeStep == TypeOK /\ [Next]_vars => TypeOK'
<1> SUFFICES ASSUME TypeOK, [Next]_vars PROVE TypeOK'
  OBVIOUS
<1> USE BoundAssumption
<1>1. CASE RunFunctor
  <2>0. /\ queue # <<>> /\ Tail(queue) \in Seq(FunctorSet)
        /\ Head(queue) \in FunctorSet
        /\ abandoned' \in BOOLEAN /\ UNCHANGED <<checked, sends, late>>
    BY <1>1, Popped DEF RunFunctor, TypeOK
  <2>1. CASE /\ EstablishedInLoop
             /\ holders' = Users \cup {LoopUser}
             /\ queue' = Tail(queue)
             /\ UNCHANGED owner
    <3>1. /\ state_' \in States /\ reading' \in BOOLEAN
          /\ connects' \in Nat
          /\ UNCHANGED <<writing, fins, undefined, disconnects, closes, out>>
      <4>1. CASE state_ = "kConnecting"
        BY <2>1, <4>1 DEF EstablishedInLoop, TypeOK, States
      <4>2. CASE state_ # "kConnecting"
        BY <2>1, <4>2 DEF EstablishedInLoop, Quiet, TypeOK, watch, calls
      <4> QED
        BY <4>1, <4>2
    <3> QED
      BY <2>0, <2>1, <3>1 DEF TypeOK, out, fins
  <2>2. CASE /\ SendInLoop(Head(queue).data, FALSE)
             /\ queue' = Tail(queue)
             /\ UNCHANGED <<owner, holders>>
    <3>1. Head(queue).data \in Seq(ByteSet)
      BY <2>0 DEF FunctorSet
    <3> QED
      BY <2>0, <2>2, <3>1, SendInLoopType DEF SendInLoop, TypeOK, fins, calls
  <2>3. CASE /\ undefined' = "send"
             /\ queue' = Tail(queue)
             /\ UNCHANGED <<state_, watch, fins, calls, out, owner, holders>>
    BY <2>0, <2>3 DEF TypeOK, watch, fins, calls, out
  <2>4. CASE /\ ShutdownInLoop
             /\ queue' = Tail(queue)
             /\ UNCHANGED <<owner, holders>>
    BY <2>0, <2>4, ZenonT(30) DEF ShutdownInLoop, FinNow, Quiet, TypeOK, States, watch, fins,
                      calls, out
  <2>5. CASE CloseAndRemove(Tail(queue)) /\ UNCHANGED holders
    BY <2>0, <2>5, ClosedType DEF TypeOK, fins, out
  <2>6. CASE Quiet /\ queue' = Tail(queue) /\ UNCHANGED <<owner, holders>>
    BY <2>0, <2>6 DEF Quiet, TypeOK, watch, fins, calls, out
  <2>7. CASE /\ DestroyedInLoop
             /\ queue' = Tail(queue)
             /\ UNCHANGED <<owner, holders>>
    <3>1. /\ state_' \in States /\ reading' \in BOOLEAN /\ writing' \in BOOLEAN
          /\ disconnects' \in Nat
          /\ UNCHANGED <<fins, undefined, connects, closes, out>>
      <4>1. CASE state_ = "kConnected"
        <5>1. disconnects + 1 \in Nat
          BY DEF TypeOK
        <5> QED
          BY <2>7, <4>1, <5>1 DEF DestroyedInLoop, States
      <4>2. CASE state_ # "kConnected"
        BY <2>7, <4>2 DEF DestroyedInLoop, Quiet, TypeOK, watch, calls
      <4> QED
        BY <4>1, <4>2
    <3> QED
      BY <2>0, <2>7, <3>1 DEF TypeOK, out, fins
  <2> QED
    BY <1>1, <2>1, <2>2, <2>3, <2>4, <2>5, <2>6, <2>7 DEF RunFunctor
<1>2. CASE PeerClosed
  BY <1>2, ClosedType DEF PeerClosed, TypeOK, fins, out, hist
<1>3. ASSUME NEW k \in 1..MaxCount, HandleWrite(k) PROVE TypeOK'
  <2>1. SubSeq(sendBuffer_, 1, k) \in Seq(ByteSet)
        /\ HasSent(sendBuffer_, k) \in Seq(ByteSet)
    BY <1>3 DEF HandleWrite, HasSent, TypeOK
  <2>2. wire' \in Seq(ByteSet) /\ sendBuffer_' \in Seq(ByteSet)
        /\ writing' \in BOOLEAN
    BY <1>3, <2>1 DEF HandleWrite, WritingAfter, TypeOK
  <2> QED
    BY <1>3, <2>2 DEF HandleWrite, TypeOK, fins, refs, calls, hist
<1>4. ASSUME NEW count \in 0..MaxCount, NEW fromReceive \in BOOLEAN,
             SendHere(count, fromReceive)
      PROVE  TypeOK'
  <2>1. sends' \in Nat /\ UNCHANGED <<queue, refs, hist>>
    BY <1>4 DEF SendHere, TypeOK
  <2>2. Bytes(sends', count) \in Seq(ByteSet)
    BY <2>1, BytesType
  <2>3. CASE SendInLoop(Bytes(sends', count), fromReceive)
    BY <2>1, <2>2, <2>3, SendInLoopType
    DEF SendInLoop, TypeOK, fins, refs, calls, hist
  <2>4. CASE Quiet
    BY <2>1, <2>4 DEF Quiet, TypeOK, watch, fins, calls, out, refs, hist
  <2> QED
    BY <1>4, <2>3, <2>4 DEF SendHere
<1>5. ASSUME NEW u \in Users, SendChecks(u) PROVE TypeOK'
  BY <1>5 DEF SendChecks, TypeOK, watch, fins, calls, out, hist
<1>6. ASSUME NEW u \in Users, NEW count \in 0..MaxCount, SendQueues(u, count)
      PROVE  TypeOK'
  <2>1. sends' \in Nat /\ checked' \subseteq Users /\ late' \in BOOLEAN
    BY <1>6 DEF SendQueues, TypeOK
  <2>2. Functor("send", Bytes(sends', count)) \in FunctorSet
    BY <2>1, BytesType DEF Functor, FunctorSet, Fns
  <2>3. queue' \in Seq(FunctorSet)
    BY <1>6, <2>2, Pushed DEF SendQueues, TypeOK
  <2> QED
    BY <1>6, <2>1, <2>3 DEF SendQueues, TypeOK, watch, fins, calls, out
<1>7. ASSUME NEW u \in Users \cup {LoopUser}, Shutdown(u) PROVE TypeOK'
  <2>1. CASE ShutdownInLoop /\ UNCHANGED queue
    BY <1>7, <2>1, ZenonT(30) DEF Shutdown, ShutdownInLoop, FinNow, Quiet, TypeOK, States,
                      watch, fins, calls, out, refs, hist
  <2>2. CASE queue' = Append(queue, Binds("shutdown")) /\ Quiet
    BY <1>7, <2>2, BindsType, Pushed
    DEF Shutdown, Fns, Quiet, TypeOK, watch, fins, calls, out, refs, hist
  <2> QED
    BY <1>7, <2>1, <2>2 DEF Shutdown
<1>8. ASSUME NEW u \in Users \cup {LoopUser}, ForceClose(u) PROVE TypeOK'
  BY <1>8, BindsType, Pushed
  DEF ForceClose, Fns, Quiet, TypeOK, watch, fins, calls, out, refs, hist
<1>9. ASSUME NEW u \in Users \cup {LoopUser}, Drop(u) PROVE TypeOK'
  BY <1>9 DEF Drop, TypeOK, watch, fins, calls, out, hist
<1>10. CASE RemoveConnectionInLoop
  BY <1>10, BindsType, Pushed
  DEF RemoveConnectionInLoop, Fns, TypeOK, watch, fins, calls, out, hist
<1>11. CASE OwnerDestroyed
  BY <1>11, BindsType, Pushed
  DEF OwnerDestroyed, Fns, TypeOK, watch, fins, calls, out, hist
<1>12. CASE UNCHANGED vars
  BY <1>12 DEF vars, TypeOK, watch, fins, calls, out, refs, hist
<1>13. CASE Loop
  BY <1>1, <1>2, <1>3, <1>13 DEF Loop
<1>14. CASE Call
  BY <1>4, <1>5, <1>6, <1>7, <1>8, <1>9, <1>14, Zenon DEF Call
<1> QED
  BY <1>10, <1>11, <1>12, <1>13, <1>14 DEF Next

\* Each step keeps the queue's part in the life of the connection:
\* establishedInLoop() is the first function to run, and runs once.
LEMMA UnknownStep == LifeInv /\ [Next]_vars => Unknown'
<1> SUFFICES ASSUME LifeInv, [Next]_vars PROVE Unknown'
  OBVIOUS
<1> USE BoundAssumption
<1>0. /\ queue \in Seq(FunctorSet) /\ Unknown
      /\ checked \subseteq Users /\ reading \in BOOLEAN
  BY DEF LifeInv, TypeOK
\* A step of a connection that is known.
<1>a. ASSUME state_ # "kConnecting", state_' # "kConnecting",
             NEW q, q = queue \/ (queue # <<>> /\ q = Tail(queue)),
             \/ queue' = q
             \/ \E e \in FunctorSet : e.fn # "established" /\ queue' = Append(q, e)
      PROVE  Unknown'
  <2>1. Without(queue, "established")
    BY <1>0, <1>a DEF Unknown
  <2>2. q \in Seq(FunctorSet) /\ Without(q, "established")
    BY <2>1, <1>0, <1>a, Popped, WithoutPop
  <2>3. Without(queue', "established")
    BY <2>2, <1>a, WithoutPush
  <2> QED
    BY <2>3, <1>a DEF Unknown, Without
\* A step that leaves the life of the connection alone.
<1>b. ASSUME UNCHANGED <<state_, reading, writing, holders, checked, queue>>
      PROVE  Unknown'
  BY <1>0, <1>b DEF Unknown, Without
\* The owner's destroyed().
<1>c. ASSUME queue' = Append(queue, Binds("destroyed")),
             UNCHANGED <<state_, reading, writing, holders, checked>>
      PROVE  Unknown'
  <2>1. Binds("destroyed") \in FunctorSet /\ Binds("destroyed").fn = "destroyed"
    BY BindsType DEF Fns
  <2>2. CASE state_ # "kConnecting"
    BY <2>1, <2>2, <1>a, <1>c
  <2>3. CASE state_ = "kConnecting"
    <3>1. /\ queue # <<>> /\ queue[1].fn = "established"
          /\ \A i \in 2..Len(queue) : queue[i].fn = "destroyed"
          /\ holders = {} /\ checked = {} /\ ~reading /\ ~writing
      BY <1>0, <2>3 DEF Unknown
    <3>2. /\ queue' # <<>> /\ queue'[1].fn = "established"
          /\ \A i \in 2..Len(queue') : queue'[i].fn = "destroyed"
      BY <1>0, <1>c, <3>1, <2>1, Pushed
    <3> QED
      BY <3>1, <3>2, <2>3, <1>c DEF Unknown
  <2> QED
    BY <2>2, <2>3
<1>1. CASE RunFunctor
  <2>0. queue # <<>> /\ Head(queue) = queue[1] /\ Len(queue) \in Nat \ {0}
    BY <1>0, <1>1, Popped DEF RunFunctor
  <2>1. CASE Head(queue).fn = "established"
    <3>1. state_ = "kConnecting"
      BY <2>0, <2>1, <1>0 DEF Unknown, Without
    <3>2. state_' = "kConnected" /\ queue' = Tail(queue)
      BY <3>1, <2>1, <1>1 DEF RunFunctor, EstablishedInLoop
    <3>3. \A i \in 2..Len(queue) : queue[i].fn = "destroyed"
      BY <3>1, <1>0 DEF Unknown
    <3>4. Without(queue', "established")
      BY <3>2, <3>3, <2>0, <1>0, Popped DEF Without
    <3> QED
      BY <3>2, <3>4 DEF Unknown, Without
  <2>2. CASE Head(queue).fn # "established"
    <3>1. state_ # "kConnecting"
      BY <2>0, <2>2, <1>0 DEF Unknown
    <3>2. CASE CloseAndRemove(Tail(queue))
      <4>1. state_' = "kDisconnected"
        BY <3>2 DEF CloseAndRemove, HandleClose
      <4>2. queue' = Tail(queue) \/ queue' = Append(Tail(queue), Binds("destroyed"))
        BY <3>2 DEF CloseAndRemove, Remove
      <4>3. Binds("destroyed") \in FunctorSet
            /\ Binds("destroyed").fn # "established"
        BY BindsType DEF Fns
      <4> QED
        BY <3>1, <4>1, <4>2, <4>3, <2>0, <1>a
    <3>3. CASE ~CloseAndRemove(Tail(queue))
      <4>1. queue' = Tail(queue)
        BY <3>3, <2>2, <1>1 DEF RunFunctor
      <4>2. state_' # "kConnecting"
        BY <3>1, <3>3, <2>2, <1>1
        DEF RunFunctor, SendInLoop, ShutdownInLoop, DestroyedInLoop, Quiet
      <4> QED
        BY <3>1, <4>1, <4>2, <2>0, <1>a
    <3> QED
      BY <3>2, <3>3
  <2> QED
    BY <2>1, <2>2
<1>2. CASE PeerClosed
  <2>1. state_ # "kConnecting"
    BY <1>0, <1>2 DEF PeerClosed, Unknown
  <2>2. state_' = "kDisconnected"
    BY <1>2 DEF PeerClosed, CloseAndRemove, HandleClose
  <2>3. queue' = queue \/ queue' = Append(queue, Binds("destroyed"))
    BY <1>2 DEF PeerClosed, CloseAndRemove, Remove
  <2>4. Binds("destroyed") \in FunctorSet /\ Binds("destroyed").fn # "established"
    BY BindsType DEF Fns
  <2> QED
    BY <2>1, <2>2, <2>3, <2>4, <1>a
<1>3. ASSUME NEW k \in 1..MaxCount, HandleWrite(k) PROVE Unknown'
  <2>1. state_ # "kConnecting" /\ state_' = state_ /\ queue' = queue
    BY <1>0, <1>3 DEF HandleWrite, Unknown
  <2> QED
    BY <2>1, <1>a
<1>4. ASSUME NEW count \in 0..MaxCount, NEW fromReceive \in BOOLEAN,
             SendHere(count, fromReceive)
      PROVE  Unknown'
  <2>1. state_ # "kConnecting" /\ state_' = state_ /\ queue' = queue
    BY <1>0, <1>4 DEF SendHere, SendInLoop, Quiet, Unknown
  <2> QED
    BY <2>1, <1>a
<1>5. ASSUME NEW u \in Users, SendChecks(u) PROVE Unknown'
  <2>1. state_ # "kConnecting" /\ state_' = state_ /\ queue' = queue
    BY <1>0, <1>5 DEF SendChecks, Unknown
  <2> QED
    BY <2>1, <1>a
<1>6. ASSUME NEW u \in Users, NEW count \in 0..MaxCount, SendQueues(u, count)
      PROVE  Unknown'
  <2>1. state_ # "kConnecting" /\ state_' = state_
    BY <1>0, <1>6 DEF SendQueues, Unknown
  <2>2. Functor("send", Bytes(sends', count)) \in FunctorSet
    BY <1>6, BytesType DEF SendQueues, LifeInv, TypeOK, Functor, FunctorSet, Fns
  <2>3. Functor("send", Bytes(sends', count)).fn # "established"
    BY DEF Functor
  <2>4. queue' = Append(queue, Functor("send", Bytes(sends', count)))
    BY <1>6 DEF SendQueues
  <2> QED
    BY <2>1, <2>2, <2>3, <2>4, <1>a
<1>7. ASSUME NEW u \in Users \cup {LoopUser}, Shutdown(u) \/ ForceClose(u)
      PROVE  Unknown'
  <2>1. state_ # "kConnecting"
    BY <1>0, <1>7 DEF Shutdown, ForceClose, Unknown
  <2>2. state_' # "kConnecting"
    BY <2>1, <1>7 DEF Shutdown, ForceClose, ShutdownInLoop, Quiet
  <2>3. \/ queue' = queue
        \/ \E fn \in {"shutdown", "forceClose"} : queue' = Append(queue, Binds(fn))
    BY <1>7 DEF Shutdown, ForceClose
  <2>4. \A fn \in {"shutdown", "forceClose"} :
            Binds(fn) \in FunctorSet /\ Binds(fn).fn # "established"
    BY BindsType DEF Fns
  <2> QED
    BY <2>1, <2>2, <2>3, <2>4, <1>a
<1>8. ASSUME NEW u \in Users \cup {LoopUser}, Drop(u) PROVE Unknown'
  <2>1. state_ # "kConnecting" /\ state_' = state_ /\ queue' = queue
    BY <1>0, <1>8 DEF Drop, Unknown
  <2> QED
    BY <2>1, <1>a
<1>9. CASE RemoveConnectionInLoop \/ OwnerDestroyed
  BY <1>9, <1>c DEF RemoveConnectionInLoop, OwnerDestroyed, watch
<1>10. CASE UNCHANGED vars
  BY <1>10, <1>b DEF vars, watch, refs
<1>11. CASE Loop
  BY <1>1, <1>2, <1>3, <1>11 DEF Loop
<1>12. CASE Call
  BY <1>4, <1>5, <1>6, <1>7, <1>8, <1>12, Zenon DEF Call
<1> QED
  BY <1>9, <1>10, <1>11, <1>12 DEF Next

\* What a step can do to the state: nothing, or one of the four moves that
\* establishedInLoop(), shutdownInLoop(), handleClose() and
\* destroyedInLoop() make.
Stays ==
    /\ UNCHANGED <<state_, reading, connects, disconnects, closes>>
    /\ writing' => writing \/ IsOpen
Establishes ==
    /\ state_ = "kConnecting" /\ state_' = "kConnected" /\ reading' = TRUE
    /\ connects' = connects + 1
    /\ UNCHANGED <<writing, disconnects, closes>>
ShutsDown ==
    /\ state_ = "kConnected" /\ state_' = "kDisconnecting"
    /\ UNCHANGED <<reading, writing, connects, disconnects, closes>>
Closes ==
    /\ IsOpen /\ state_' = "kDisconnected" /\ reading' = FALSE /\ writing' = FALSE
    /\ disconnects' = disconnects + 1
    /\ closes' \in {closes, closes + 1}
    /\ UNCHANGED connects

\* Each step makes one of these moves.
LEMMA Moves ==
    LifeInv /\ [Next]_vars => Stays \/ Establishes \/ ShutsDown \/ Closes
<1> SUFFICES ASSUME LifeInv, [Next]_vars
             PROVE  Stays \/ Establishes \/ ShutsDown \/ Closes
  OBVIOUS
<1> USE DEF watch, fins, calls, out
<1>0. /\ queue \in Seq(FunctorSet) /\ Unknown /\ state_ \in States
      /\ checked \subseteq Users /\ WatchedWhileOpen
  BY DEF LifeInv, TypeOK
<1>a. Quiet => Stays
  BY DEF Quiet, Stays
<1>b. ASSUME NEW data, NEW fromReceive, SendInLoop(data, fromReceive),
             state_ # "kConnecting"
      PROVE  Stays
  <2>1. UNCHANGED <<state_, reading, connects, disconnects, closes>>
    BY <1>b DEF SendInLoop
  <2>2. CASE Ignored(data)
    BY <1>b, <2>1, <2>2 DEF SendInLoop, Stays
  <2>3. CASE ~Ignored(data)
    BY <1>0, <1>b, <2>1, <2>3 DEF Ignored, Stays, IsOpen, States
  <2> QED
    BY <2>2, <2>3
<1>c. ASSUME NEW rest, CloseAndRemove(rest), IsOpen PROVE Closes
  BY <1>c DEF CloseAndRemove, HandleClose, Closes
<1>d. ShutdownInLoop => Stays \/ ShutsDown
  BY <1>a DEF ShutdownInLoop, ShutsDown
<1>1. CASE RunFunctor
  <2>0. queue # <<>> /\ Head(queue) = queue[1] /\ Len(queue) \in Nat \ {0}
    BY <1>0, <1>1, Popped DEF RunFunctor
  <2>1. Head(queue).fn # "established" => state_ # "kConnecting"
    BY <2>0, <1>0 DEF Unknown
  <2>2. EstablishedInLoop => Stays \/ Establishes
    BY <1>a DEF EstablishedInLoop, Establishes
  <2>3. DestroyedInLoop => Stays \/ Closes
    BY <1>a DEF DestroyedInLoop, Closes, IsOpen
  <2>4. CASE Head(queue).fn = "established"
    BY <1>1, <2>4, <2>2 DEF RunFunctor
  <2>5. CASE Head(queue).fn = "send"
    <3>1. SendInLoop(Head(queue).data, FALSE) \/ UNCHANGED <<state_, watch, calls>>
      BY <1>1, <2>5 DEF RunFunctor
    <3> QED
      BY <3>1, <2>1, <2>5, <1>b DEF Stays
  <2>6. CASE Head(queue).fn = "shutdown"
    BY <1>1, <2>6, <1>d DEF RunFunctor
  <2>7. CASE Head(queue).fn = "forceClose"
    BY <1>1, <2>7, <1>a, <1>c DEF RunFunctor
  <2>8. CASE Head(queue).fn = "destroyed"
    BY <1>1, <2>8, <2>3 DEF RunFunctor
  <2> QED
    BY <1>1, <2>4, <2>5, <2>6, <2>7, <2>8 DEF RunFunctor
<1>2. CASE PeerClosed
  BY <1>0, <1>2, <1>c DEF PeerClosed, WatchedWhileOpen
<1>3. ASSUME NEW k \in 1..MaxCount, HandleWrite(k) PROVE Stays
  BY <1>3 DEF HandleWrite, Stays
<1>4. ASSUME NEW count \in 0..MaxCount, NEW fromReceive \in BOOLEAN,
             SendHere(count, fromReceive)
      PROVE  Stays
  BY <1>4, <1>a, <1>b DEF SendHere
<1>5. ASSUME NEW u \in Users, SendChecks(u) PROVE Stays
  BY <1>5 DEF SendChecks, Stays
<1>6. ASSUME NEW u \in Users, NEW count \in 0..MaxCount, SendQueues(u, count)
      PROVE  Stays
  BY <1>6 DEF SendQueues, Stays
<1>7. ASSUME NEW u \in Users \cup {LoopUser}, Shutdown(u)
      PROVE  Stays \/ ShutsDown
  BY <1>7, <1>a, <1>d DEF Shutdown
<1>8. ASSUME NEW u \in Users \cup {LoopUser}, ForceClose(u) PROVE Stays
  BY <1>8, <1>a DEF ForceClose
<1>9. ASSUME NEW u \in Users \cup {LoopUser}, Drop(u) PROVE Stays
  BY <1>9 DEF Drop, Stays
<1>10. CASE RemoveConnectionInLoop \/ OwnerDestroyed
  BY <1>10 DEF RemoveConnectionInLoop, OwnerDestroyed, Stays
<1>11. CASE UNCHANGED vars
  BY <1>11 DEF vars, Stays
<1>12. CASE Loop
  BY <1>1, <1>2, <1>3, <1>12 DEF Loop
<1>13. CASE Call
  BY <1>4, <1>5, <1>6, <1>7, <1>8, <1>9, <1>13, Zenon DEF Call
<1> QED
  BY <1>10, <1>11, <1>12, <1>13 DEF Next

\* Hence each step keeps the first layer.
LEMMA LifeStep == LifeInv /\ [Next]_vars => LifeInv'
<1> SUFFICES ASSUME LifeInv, [Next]_vars PROVE LifeInv'
  OBVIOUS
<1>0. TypeOK /\ WatchedWhileOpen /\ CallbacksPaired
  BY DEF LifeInv
<1>1. TypeOK' /\ Unknown'
  BY TypeStep, UnknownStep DEF LifeInv
<1>2. Stays \/ Establishes \/ ShutsDown \/ Closes
  BY Moves
<1>3. WatchedWhileOpen'
  BY <1>0, <1>1, <1>2
  DEF TypeOK, WatchedWhileOpen, IsOpen, Stays, Establishes, ShutsDown, Closes
<1>4. CallbacksPaired'
  <2>1. CASE Stays
    BY <1>0, <2>1 DEF CallbacksPaired, Stays
  <2>2. CASE Establishes
    BY <1>0, <2>2 DEF CallbacksPaired, Establishes
  <2>3. CASE ShutsDown
    BY <1>0, <2>3 DEF CallbacksPaired, ShutsDown
  <2>4. CASE Closes
    BY <1>0, <2>4 DEF TypeOK, CallbacksPaired, Closes, IsOpen
  <2> QED
    BY <1>2, <2>1, <2>2, <2>3, <2>4
<1> QED
  BY <1>1, <1>3, <1>4 DEF LifeInv

-----------------------------------------------------------------------------
(* The data.                                                               *)

\* Three stretches of the stream put together.
LEMMA Associative ==
    \A s, t, u \in Seq(ByteSet) : (s \o t) \o u = s \o (t \o u)
BY ConcatAssociative

\* What a short write takes and what it leaves are the data.
LEMMA WriteSplits ==
    ASSUME NEW data \in Seq(ByteSet), NEW k \in 0..Len(data)
    PROVE  /\ SubSeq(data, 1, k) \in Seq(ByteSet)
           /\ SubSeq(data, k + 1, Len(data)) \in Seq(ByteSet)
           /\ SubSeq(data, 1, k) \o SubSeq(data, k + 1, Len(data)) = data
           /\ k < Len(data) <=> SubSeq(data, k + 1, Len(data)) # <<>>
<1>1. SubSeq(data, 1, k) \in Seq(ByteSet)
  BY SubSeqProperties
<1>2. SubSeq(data, k + 1, Len(data)) \in Seq(ByteSet)
  BY SubSeqProperties
<1>3. SubSeq(data, 1, k) \o SubSeq(data, k + 1, Len(data)) = data
  <2>1. /\ 1 \in 1..(Len(data) + 1) /\ k \in (1 - 1)..Len(data)
        /\ Len(data) \in k..Len(data)
    OBVIOUS
  <2> QED
    BY <2>1, ConcatAdjacentSubSeq, SubSeqFull, Zenon
<1>4. k < Len(data) <=> SubSeq(data, k + 1, Len(data)) # <<>>
  OBVIOUS
<1> QED
  BY <1>1, <1>2, <1>3, <1>4

\* sendInLoop() writes only when nothing waits, and leaves the rest waiting.
LEMMA WriteSomeKeeps ==
    ASSUME LifeInv, DataInv, NEW data \in Seq(ByteSet), NEW fromReceive \in BOOLEAN,
           NEW k \in 0..Len(data), ~Ignored(data),
           WriteSome(data, fromReceive, k), UNCHANGED <<state_, fins>>
    PROVE  DataInv'
<1>5. /\ sendBuffer_ = <<>> /\ unreadable = FALSE /\ wire \in Seq(ByteSet)
  BY DEF LifeInv, TypeOK, DataInv, WritesWatched, Ignored
<1>6. /\ fin = FALSE /\ fin' = FALSE /\ heldBack' = heldBack
      /\ state_ = "kDisconnecting" => heldBack
  BY DEF LifeInv, TypeOK, DataInv, FinAfterData, WriteSome, fins
<1>7. wire = taken
  BY <1>5, ConcatEmptySeq DEF DataInv, StreamIntact
<1>0. /\ sendBuffer_ = <<>> /\ unreadable = FALSE /\ wire \in Seq(ByteSet)
      /\ wire = taken /\ fin = FALSE /\ fin' = FALSE /\ heldBack' = heldBack
      /\ state_ = "kDisconnecting" => heldBack
  BY <1>5, <1>6, <1>7
<1>1. /\ writing' = (k < Len(data))
      /\ sendBuffer_' = IF fromReceive
                        THEN <<>> ELSE SubSeq(data, k + 1, Len(data))
      /\ unreadable' = (fromReceive /\ k < Len(data))
      /\ wire' = wire \o SubSeq(data, 1, k)
      /\ taken' = wire \o data
  BY <1>0 DEF WriteSome, Readable, Rest
<1>2. WritesWatched' /\ (sendBuffer_ = <<>> \/ ~unreadable)'
  BY <1>1, WriteSplits DEF WritesWatched
<1>3. StreamIntact'
  <2> SUFFICES ASSUME ~unreadable' PROVE wire' \o sendBuffer_' = taken'
    BY DEF StreamIntact
  <2>1. sendBuffer_' = SubSeq(data, k + 1, Len(data))
    BY <1>1, WriteSplits
  <2>3. /\ wire \in Seq(ByteSet)
        /\ SubSeq(data, 1, k) \in Seq(ByteSet)
        /\ SubSeq(data, k + 1, Len(data)) \in Seq(ByteSet)
    BY <1>0, WriteSplits
  <2>2. (wire \o SubSeq(data, 1, k)) \o SubSeq(data, k + 1, Len(data))
            = wire \o (SubSeq(data, 1, k) \o SubSeq(data, k + 1, Len(data)))
    BY <2>3, Associative, Zenon
  <2> QED
    BY <1>1, <2>1, <2>2, WriteSplits
<1>4. FinAfterData'
  BY <1>0 DEF FinAfterData
<1> QED
  BY <1>2, <1>3, <1>4 DEF DataInv

\* handleWrite() takes what it writes off the front of what waits.
LEMMA HandleWriteKeeps ==
    ASSUME LifeInv, DataInv, NEW k, HandleWrite(k)
    PROVE  DataInv'
<1>0. /\ sendBuffer_ \in Seq(ByteSet) /\ wire \in Seq(ByteSet)
      /\ unreadable \in BOOLEAN /\ fin \in BOOLEAN
      /\ sendBuffer_ # <<>>
      /\ k \in 1..Len(sendBuffer_) /\ k \in 0..Len(sendBuffer_)
  BY DEF LifeInv, TypeOK, HandleWrite
<1>1. /\ unreadable = FALSE /\ unreadable' = FALSE /\ fin = FALSE /\ fin' = FALSE
      /\ wire \o sendBuffer_ = taken
      /\ heldBack' = heldBack /\ state_' = state_
      /\ state_ = "kDisconnecting" => heldBack
  BY <1>0 DEF DataInv, StreamIntact, FinAfterData, HandleWrite, fins
<1>2. /\ sendBuffer_' = SubSeq(sendBuffer_, k + 1, Len(sendBuffer_))
      /\ writing' = (sendBuffer_' # <<>>)
      /\ wire' = wire \o SubSeq(sendBuffer_, 1, k)
      /\ taken' = taken
  BY DEF HandleWrite, HasSent, WritingAfter
<1>3. WritesWatched' /\ (sendBuffer_ = <<>> \/ ~unreadable)'
  BY <1>1, <1>2 DEF WritesWatched
<1>4. StreamIntact'
  <2>2. /\ wire \in Seq(ByteSet)
        /\ SubSeq(sendBuffer_, 1, k) \in Seq(ByteSet)
        /\ SubSeq(sendBuffer_, k + 1, Len(sendBuffer_)) \in Seq(ByteSet)
    BY <1>0, WriteSplits
  <2>1. (wire \o SubSeq(sendBuffer_, 1, k))
            \o SubSeq(sendBuffer_, k + 1, Len(sendBuffer_))
        = wire \o (SubSeq(sendBuffer_, 1, k)
            \o SubSeq(sendBuffer_, k + 1, Len(sendBuffer_)))
    BY <2>2, Associative, Zenon
  <2> QED
    BY <1>0, <1>1, <1>2, <2>1, WriteSplits DEF StreamIntact
<1>5. FinAfterData'
  BY <1>1 DEF FinAfterData
<1> QED
  BY <1>3, <1>4, <1>5 DEF DataInv

\* Each step keeps the second layer.
LEMMA DataStep == LifeInv /\ DataInv /\ [Next]_vars => DataInv'
<1> SUFFICES ASSUME LifeInv, DataInv, [Next]_vars PROVE DataInv'
  OBVIOUS
<1> USE BoundAssumption DEF fins, watch, calls
<1>0. /\ TypeOK /\ WatchedWhileOpen /\ Unknown
      /\ queue \in Seq(FunctorSet) /\ state_ \in States
  BY DEF LifeInv, TypeOK
\* The data is left alone by a step that leaves the state alone, closes the
\* connection or opens it.
<1>a. ASSUME UNCHANGED <<out, fins>>,
             \/ UNCHANGED <<state_, writing>>
             \/ state_' = "kDisconnected"
             \/ state_ = "kConnecting" /\ state_' = "kConnected" /\ UNCHANGED writing
      PROVE  DataInv'
  BY <1>a DEF DataInv, WritesWatched, StreamIntact, FinAfterData, out
<1>b. ASSUME NEW data \in Seq(ByteSet), NEW fromReceive \in BOOLEAN,
             SendInLoop(data, fromReceive)
      PROVE  DataInv'
  <2>1. CASE UNCHANGED <<writing, out>>
    BY <1>a, <1>b, <2>1 DEF SendInLoop
  <2>2. ASSUME ~Ignored(data),
               NEW k \in 0..Len(data), WriteSome(data, fromReceive, k)
        PROVE  DataInv'
    BY <1>b, <2>2, WriteSomeKeeps DEF SendInLoop
  <2> QED
    BY <1>b, <2>1, <2>2 DEF SendInLoop
<1>c. ASSUME Quiet PROVE DataInv'
  BY <1>a, <1>c DEF Quiet
<1>d. ASSUME ShutdownInLoop PROVE DataInv'
  <2>1. CASE state_ = "kConnected"
    <3>1. /\ state_' = "kDisconnecting" /\ fin' = ~writing
          /\ heldBack' = (sendBuffer_ # <<>> \/ unreadable)
          /\ writing' = writing /\ sendBuffer_' = sendBuffer_
          /\ unreadable' = unreadable /\ wire' = wire /\ taken' = taken
      BY <1>d, <2>1 DEF ShutdownInLoop, FinNow, out
    <3>2. writing <=> (sendBuffer_ # <<>> \/ unreadable)
      BY <2>1 DEF DataInv, WritesWatched
    <3>3. WritesWatched' /\ StreamIntact' /\ (sendBuffer_ = <<>> \/ ~unreadable)'
      BY <3>1, <3>2 DEF DataInv, WritesWatched, StreamIntact
    <3>4. FinAfterData'
      BY <3>1, <3>2 DEF FinAfterData
    <3> QED
      BY <3>3, <3>4 DEF DataInv
  <2>2. CASE state_ # "kConnected"
    BY <1>c, <1>d, <2>2 DEF ShutdownInLoop
  <2> QED
    BY <2>1, <2>2
<1>e. ASSUME NEW rest, CloseAndRemove(rest) PROVE DataInv'
  BY <1>a, <1>e DEF CloseAndRemove, HandleClose
<1>1. CASE RunFunctor
  <2>0. queue # <<>> /\ Head(queue).data \in Seq(ByteSet)
    BY <1>0, <1>1, Popped DEF RunFunctor, FunctorSet
  <2>1. ASSUME EstablishedInLoop PROVE DataInv'
    BY <1>a, <1>c, <2>1 DEF EstablishedInLoop
  <2>2. ASSUME DestroyedInLoop PROVE DataInv'
    BY <1>a, <1>c, <2>2 DEF DestroyedInLoop
  <2>3. ASSUME SendInLoop(Head(queue).data, FALSE) PROVE DataInv'
    BY <1>b, <2>0, <2>3
  <2>4. ASSUME UNCHANGED <<state_, watch, fins, out>> PROVE DataInv'
    BY <1>a, <2>4
  <2> QED
    BY <1>1, <2>1, <2>2, <2>3, <2>4, <1>c, <1>d, <1>e DEF RunFunctor
<1>2. CASE PeerClosed
  BY <1>2, <1>e DEF PeerClosed
<1>3. ASSUME NEW k \in 1..MaxCount, HandleWrite(k) PROVE DataInv'
  BY <1>3, HandleWriteKeeps
<1>4. ASSUME NEW count \in 0..MaxCount, NEW fromReceive \in BOOLEAN,
             SendHere(count, fromReceive)
      PROVE  DataInv'
  <2>1. Bytes(sends', count) \in Seq(ByteSet)
    BY <1>0, <1>4, BytesType DEF SendHere, TypeOK
  <2> QED
    BY <1>4, <2>1, <1>b, <1>c DEF SendHere
<1>5. ASSUME NEW u \in Users, SendChecks(u) PROVE DataInv'
  BY <1>5, <1>a DEF SendChecks
<1>6. ASSUME NEW u \in Users, NEW count \in 0..MaxCount, SendQueues(u, count)
      PROVE  DataInv'
  BY <1>6, <1>a DEF SendQueues
<1>7. ASSUME NEW u \in Users \cup {LoopUser}, Shutdown(u) PROVE DataInv'
  BY <1>7, <1>c, <1>d DEF Shutdown
<1>8. ASSUME NEW u \in Users \cup {LoopUser}, ForceClose(u) PROVE DataInv'
  BY <1>8, <1>c DEF ForceClose
<1>9. ASSUME NEW u \in Users \cup {LoopUser}, Drop(u) PROVE DataInv'
  BY <1>9, <1>a DEF Drop
<1>10. CASE RemoveConnectionInLoop \/ OwnerDestroyed
  BY <1>10, <1>a DEF RemoveConnectionInLoop, OwnerDestroyed
<1>11. CASE UNCHANGED vars
  BY <1>11, <1>a DEF vars
<1>12. CASE Loop
  BY <1>1, <1>2, <1>3, <1>12 DEF Loop
<1>13. CASE Call
  BY <1>4, <1>5, <1>6, <1>7, <1>8, <1>9, <1>13, Zenon DEF Call
<1> QED
  BY <1>10, <1>11, <1>12, <1>13 DEF Next

-----------------------------------------------------------------------------
(* The references.                                                         *)

\* kDisconnected is final.
LEMMA DisconnectedIsFinal ==
    LifeInv /\ [Next]_vars /\ state_ = "kDisconnected" => state_' = "kDisconnected"
BY Moves DEF Stays, Establishes, ShutsDown, Closes, IsOpen

\* Whatever is pushed, a destroyed() that is queued stays queued.
LEMMA DestroyedPush ==
    ASSUME NEW e \in FunctorSet, queue \in Seq(FunctorSet),
           queue' = Append(queue, e), DestroyedQueued \/ e.fn = "destroyed"
    PROVE  DestroyedQueued'
<1>1. /\ DOMAIN queue = 1..Len(queue)
      /\ DOMAIN queue' = 1..(Len(queue) + 1)
      /\ \A i \in 1..Len(queue) : queue'[i] = queue[i]
      /\ queue'[Len(queue) + 1] = e
      /\ Len(queue) \in Nat
  BY Pushed, LenProperties
<1>2. CASE e.fn = "destroyed"
  <2>1. Len(queue) + 1 \in DOMAIN queue'
    BY <1>1
  <2> QED
    BY <2>1, <1>1, <1>2 DEF DestroyedQueued
<1>3. ASSUME NEW i \in DOMAIN queue, queue[i].fn = "destroyed"
      PROVE  DestroyedQueued'
  <2>1. i \in DOMAIN queue' /\ queue'[i].fn = "destroyed"
    BY <1>1, <1>3
  <2> QED
    BY <2>1 DEF DestroyedQueued
<1> QED
  BY <1>2, <1>3 DEF DestroyedQueued

\* Only running it takes it off the queue.
LEMMA DestroyedPop ==
    ASSUME queue \in Seq(FunctorSet), queue # <<>>, queue' = Tail(queue),
           DestroyedQueued, Head(queue).fn # "destroyed"
    PROVE  DestroyedQueued'
<1>1. PICK i \in DOMAIN queue : queue[i].fn = "destroyed"
  BY DEF DestroyedQueued
<1>2. /\ i \in 1..Len(queue) /\ i # 1
      /\ DOMAIN queue' = 1..(Len(queue) - 1)
  BY <1>1, Popped, LenProperties
<1>4. i - 1 \in 1..(Len(queue) - 1) /\ (i - 1) + 1 = i
  BY <1>2
<1>3. i - 1 \in DOMAIN queue' /\ queue'[i - 1] = queue[i]
  BY <1>2, <1>4, Popped
<1> QED
  BY <1>1, <1>3 DEF DestroyedQueued

\* Each step keeps the third layer.
LEMMA RefStep == LifeInv /\ RefInv /\ [Next]_vars => RefInv'
<1> SUFFICES ASSUME LifeInv, RefInv, [Next]_vars PROVE RefInv'
  OBVIOUS
<1> USE BoundAssumption DEF hist, refs
<1>0. /\ TypeOK /\ Unknown /\ queue \in Seq(FunctorSet)
      /\ owner \in {"holds", "removing", "released", "destroyed"}
      /\ late \in BOOLEAN /\ abandoned \in BOOLEAN
      /\ Len(queue) \in Nat /\ DOMAIN queue = 1..Len(queue)
  BY LenProperties DEF LifeInv, TypeOK
<1>1. /\ SendsCovered /\ OwnerLetsGo /\ DeadSendOnlyIfLate
      /\ state_ = "kDisconnected" => state_' = "kDisconnected"
  BY DisconnectedIsFinal DEF RefInv
\* A step that pushes a functor or none, other than the owner's.
<1>a. ASSUME UNCHANGED <<owner, late, undefined>>, abandoned => abandoned',
             \/ queue' = queue
             \/ \E e \in FunctorSet : e.fn # "send" /\ queue' = Append(queue, e)
      PROVE  RefInv'
  <2>1. SendsCovered'
    BY <1>0, <1>1, <1>a, CoveredPush DEF SendsCovered
  <2>2. DestroyedQueued => DestroyedQueued'
    BY <1>0, <1>a, DestroyedPush DEF DestroyedQueued
  <2>3. OwnerLetsGo'
    BY <1>1, <1>a, <2>2 DEF OwnerLetsGo
  <2>4. DeadSendOnlyIfLate'
    BY <1>1, <1>a DEF DeadSendOnlyIfLate
  <2> QED
    BY <2>1, <2>3, <2>4 DEF RefInv
<1>b. Binds("destroyed") \in FunctorSet /\ Binds("destroyed").fn = "destroyed"
  BY BindsType DEF Fns
\* The owner lets go.
<1>c. ASSUME queue' = Append(queue, Binds("destroyed")), UNCHANGED <<late, undefined>>
      PROVE  RefInv'
  <2>1. SendsCovered' /\ DestroyedQueued'
    BY <1>0, <1>b, <1>c, CoveredPush, DestroyedPush DEF SendsCovered
  <2> QED
    BY <1>1, <1>c, <2>1 DEF RefInv, OwnerLetsGo, DeadSendOnlyIfLate
\* The connection closes.
<1>d. ASSUME NEW rest \in Seq(FunctorSet), CloseAndRemove(rest),
             Covered(queue) => Covered(rest), UNCHANGED late, undefined = "no"
      PROVE  RefInv'
  <2>1. state_' = "kDisconnected" /\ undefined' \in {"no", "close"}
    BY <1>d DEF CloseAndRemove, HandleClose
  <2>2. SendsCovered'
    <3>1. CASE queue' = rest /\ (UNCHANGED owner \/ owner' = "removing")
      BY <1>d, <1>1, <3>1 DEF SendsCovered
    <3>2. CASE queue' = Append(rest, Binds("destroyed"))
      BY <1>b, <1>d, <3>2, CoveredPush DEF SendsCovered
    <3> QED
      BY <1>d, <3>1, <3>2 DEF CloseAndRemove, Remove
  <2> QED
    BY <2>1, <2>2 DEF RefInv, OwnerLetsGo, DeadSendOnlyIfLate
<1>2. CASE RunFunctor
  <2>0. /\ queue # <<>> /\ undefined = "no" /\ UNCHANGED late
        /\ abandoned => abandoned'
        /\ Tail(queue) \in Seq(FunctorSet) /\ Head(queue) = queue[1]
        /\ Head(queue).fn \in Fns
        /\ Covered(queue) => Covered(Tail(queue))
        /\ 1 \in DOMAIN queue
    <3>1. /\ queue # <<>> /\ undefined = "no" /\ UNCHANGED late
          /\ abandoned => abandoned'
      BY <1>2 DEF RunFunctor
    <3>2. /\ Tail(queue) \in Seq(FunctorSet) /\ Head(queue) = queue[1]
          /\ Head(queue).fn \in Fns /\ 1 \in DOMAIN queue
      <4>1. /\ Tail(queue) \in Seq(FunctorSet) /\ Head(queue) = queue[1]
            /\ Head(queue) \in FunctorSet /\ Len(queue) \in Nat \ {0}
        BY <1>0, <3>1, Popped
      <4> QED
        BY <1>0, <4>1 DEF FunctorSet
    <3>3. Covered(queue) => Covered(Tail(queue))
      BY <1>0, <3>1, CoveredPop
    <3> QED
      BY <3>1, <3>2, <3>3
  <2>1. CASE CloseAndRemove(Tail(queue))
    BY <2>0, <2>1, <1>d
  <2>2. CASE ~CloseAndRemove(Tail(queue))
    <3>1. queue' = Tail(queue) /\ UNCHANGED owner
      BY <1>2, <2>2 DEF RunFunctor
    <3>2. SendsCovered'
      BY <1>1, <2>0, <3>1 DEF SendsCovered
    <3>3. OwnerLetsGo'
      <4>1. CASE Head(queue).fn # "destroyed"
        BY <1>0, <1>1, <2>0, <3>1, <4>1, DestroyedPop DEF OwnerLetsGo
      <4>2. CASE Head(queue).fn = "destroyed"
        <5>1. state_ \in {"kConnected", "kDisconnecting", "kDisconnected"}
          BY <1>0, <2>0, <4>2 DEF Unknown, TypeOK, States
        <5>2. CASE state_ = "kDisconnecting"
          BY <1>2, <4>2, <5>2 DEF RunFunctor, OwnerLetsGo
        <5>3. CASE state_ = "kConnected"
          BY <1>2, <4>2, <5>3 DEF RunFunctor, DestroyedInLoop, OwnerLetsGo
        <5> QED
          BY <1>1, <5>1, <5>2, <5>3 DEF OwnerLetsGo
      <4> QED
        BY <4>1, <4>2
    <3>4. DeadSendOnlyIfLate'
      <4>1. CASE undefined' = "send"
        <5>1. Head(queue).fn = "send" /\ ~Alive
          BY <1>2, <2>0, <2>2, <4>1
          DEF RunFunctor, SendInLoop, EstablishedInLoop, ShutdownInLoop,
              DestroyedInLoop, Quiet
        <5>2. owner \notin {"holds", "removing"}
              /\ \A i \in DOMAIN queue : queue[i].fn = "send"
          BY <5>1 DEF Alive
        <5>3. ~Covered(queue)
          BY <1>0, <2>0, <5>1, <5>2 DEF Covered
        <5> QED
          BY <1>1, <2>0, <5>2, <5>3 DEF SendsCovered, DeadSendOnlyIfLate
      <4> QED
        BY <4>1 DEF DeadSendOnlyIfLate
    <3> QED
      BY <3>2, <3>3, <3>4 DEF RefInv
  <2> QED
    BY <2>1, <2>2
<1>3. CASE PeerClosed
  BY <1>0, <1>3, <1>d DEF PeerClosed
<1>4. ASSUME NEW k \in 1..MaxCount, HandleWrite(k) PROVE RefInv'
  BY <1>4, <1>a DEF HandleWrite
<1>5. ASSUME NEW count \in 0..MaxCount, NEW fromReceive \in BOOLEAN,
             SendHere(count, fromReceive)
      PROVE  RefInv'
  BY <1>5, <1>a DEF SendHere, SendInLoop, Quiet
<1>6. ASSUME NEW u \in Users, SendChecks(u) PROVE RefInv'
  BY <1>6, <1>a DEF SendChecks
\* A send that is pushed is late, or the owner still holds on.
<1>7. ASSUME NEW u \in Users, NEW count \in 0..MaxCount, SendQueues(u, count)
      PROVE  RefInv'
  <2>1. Functor("send", Bytes(sends', count)) \in FunctorSet
    BY <1>0, <1>7, BytesType DEF SendQueues, TypeOK, Functor, FunctorSet, Fns
  <2>2. /\ queue' = Append(queue, Functor("send", Bytes(sends', count)))
        /\ late' = (late \/ DestroyedQueued \/ owner \in {"released", "destroyed"})
        /\ UNCHANGED <<state_, owner, undefined, abandoned>>
    BY <1>7 DEF SendQueues
  <2>3. SendsCovered'
    BY <1>0, <2>2 DEF SendsCovered
  <2>4. DestroyedQueued => DestroyedQueued'
    BY <1>0, <2>1, <2>2, DestroyedPush
  <2>5. OwnerLetsGo'
    BY <1>1, <2>2, <2>4 DEF OwnerLetsGo
  <2>6. DeadSendOnlyIfLate'
    BY <1>1, <2>2 DEF DeadSendOnlyIfLate
  <2> QED
    BY <2>3, <2>5, <2>6 DEF RefInv
<1>8. ASSUME NEW u \in Users \cup {LoopUser}, Shutdown(u) \/ ForceClose(u)
      PROVE  RefInv'
  <2>1. UNCHANGED <<owner, late, undefined, abandoned>>
    BY <1>8 DEF Shutdown, ForceClose, ShutdownInLoop, Quiet
  <2>2. \/ queue' = queue
        \/ \E fn \in {"shutdown", "forceClose"} : queue' = Append(queue, Binds(fn))
    BY <1>8 DEF Shutdown, ForceClose
  <2>3. \A fn \in {"shutdown", "forceClose"} :
            Binds(fn) \in FunctorSet /\ Binds(fn).fn # "send"
    BY BindsType DEF Fns
  <2> QED
    BY <2>1, <2>2, <2>3, <1>a
<1>9. ASSUME NEW u \in Users \cup {LoopUser}, Drop(u) PROVE RefInv'
  BY <1>9, <1>a DEF Drop
<1>10. CASE RemoveConnectionInLoop \/ OwnerDestroyed
  BY <1>10, <1>c DEF RemoveConnectionInLoop, OwnerDestroyed
<1>11. CASE UNCHANGED vars
  BY <1>11, <1>a DEF vars
<1>12. CASE Loop
  BY <1>2, <1>3, <1>4, <1>12 DEF Loop
<1>13. CASE Call
  BY <1>5, <1>6, <1>7, <1>8, <1>9, <1>13, Zenon DEF Call
<1> QED
  BY <1>10, <1>11, <1>12, <1>13 DEF Next

-----------------------------------------------------------------------------
(* The theorems.                                                           *)

\* A connection that has just been made satisfies the invariant.
LEMMA InvInit == Init => Inv
<1> SUFFICES ASSUME Init PROVE Inv
  OBVIOUS
<1>1. Binds("established") \in FunctorSet /\ Binds("established").fn = "established"
  BY BindsType DEF Fns
<1>2. /\ queue = <<Binds("established")>> /\ queue \in Seq(FunctorSet)
      /\ Len(queue) = 1 /\ queue[1] = Binds("established")
  BY <1>1 DEF Init
<1>3. TypeOK
  <2>1. <<>> \in Seq(ByteSet)
    OBVIOUS
  <2> QED
    BY <1>2, <2>1 DEF Init, TypeOK, States
<1>4. Unknown /\ WatchedWhileOpen /\ CallbacksPaired
  BY <1>1, <1>2 DEF Init, Unknown, WatchedWhileOpen, CallbacksPaired, IsOpen
<1>5. DataInv
  <2>1. wire \o sendBuffer_ = taken
    BY DEF Init
  <2> QED
    BY <2>1 DEF Init, DataInv, WritesWatched, StreamIntact, FinAfterData
<1>6. RefInv
  BY DEF Init, RefInv, SendsCovered, OwnerLetsGo, DeadSendOnlyIfLate
<1> QED
  BY <1>3, <1>4, <1>5, <1>6 DEF Inv, LifeInv

\* The three layers together are inductive.
THEOREM Invariance == Spec => []Inv
<1>1. Inv /\ [Next]_vars => Inv'
  BY LifeStep, DataStep, RefStep DEF Inv
<1> QED
  BY InvInit, <1>1, PTL DEF Spec

\* However the peer, forceClose(), shutdown() and the owner's destructor
\* race, connectCallback_ and disconnectCallback_ are called in pairs and
\* closeCallback_ at most once.
THEOREM CallbacksArePaired == Spec => []CallbacksPaired
<1>1. Inv => CallbacksPaired
  BY DEF Inv, LifeInv
<1> QED
  BY <1>1, Invariance, PTL

\* Whatever waits to be written is watched, and nothing else is.
THEOREM WritesAreWatched == Spec => []WritesWatched
<1>1. Inv => WritesWatched
  BY DEF Inv, DataInv
<1> QED
  BY <1>1, Invariance, PTL

\* What the kernel got and what waits are what sendInLoop() took, in order.
THEOREM StreamIsIntact == Spec => []StreamIntact
<1>1. Inv => StreamIntact
  BY DEF Inv, DataInv
<1> QED
  BY <1>1, Invariance, PTL

\* shutdownWrite() comes after all data, at once if there is none.
THEOREM FinComesLast == Spec => []FinAfterData
<1>1. Inv => FinAfterData
  BY DEF Inv, DataInv
<1> QED
  BY <1>1, Invariance, PTL

\* A send meets a deleted connection only if it was queued after the owner
\* had let go.
THEOREM DeadSendIsLate == Spec => []DeadSendOnlyIfLate
<1>1. Inv => DeadSendOnlyIfLate
  BY DEF Inv, RefInv
<1> QED
  BY <1>1, Invariance, PTL

\* What is still queued when a connection ends comes too late: sends,
\* shutdowns, forceCloses and destroyed()s that run after the close, however
\* it came about, write nothing, wake no event and call nobody back, and
\* after the FIN nothing more is written or buffered (sendInLoop,
\* handleWrite, shutdownInLoop, forceCloseInLoop, destroyedInLoop).
EndIsFinal ==
    [][/\ state_ = "kDisconnected" => UNCHANGED <<state_, watch, out, fins, calls>>
       /\ fin => UNCHANGED out]_vars

\* Functors that run after the connection was closed, and sends that come
\* after its FIN, have no effect on it.
THEOREM EndStaysFinal == Spec => EndIsFinal
<1> DEFINE Final == /\ state_ = "kDisconnected" =>
                           UNCHANGED <<state_, watch, out, fins, calls>>
                    /\ fin => UNCHANGED out
<1>1. Inv /\ [Next]_vars => [Final]_vars
  <2> SUFFICES ASSUME Inv, Next PROVE Final
    BY DEF vars
  <2>0. /\ queue \in Seq(FunctorSet) /\ WatchedWhileOpen /\ Unknown
        /\ fin => sendBuffer_ = <<>>
        /\ state_ = "kDisconnected" => ~reading /\ ~writing /\ ~IsOpen
    BY DEF Inv, LifeInv, TypeOK, DataInv, FinAfterData, WatchedWhileOpen, IsOpen
  <2>a. Quiet => Final
    BY DEF Quiet
  <2>b. ASSUME NEW data, NEW fromReceive, SendInLoop(data, fromReceive)
        PROVE  Final
    <3>1. UNCHANGED <<state_, reading, fins, calls>>
      BY <2>b DEF SendInLoop
    <3>2. CASE UNCHANGED <<writing, out>>
      BY <3>1, <3>2 DEF watch
    <3>3. CASE ~Ignored(data) /\ ~fin
      BY <3>3 DEF Ignored
    <3> QED
      BY <2>b, <3>2, <3>3 DEF SendInLoop, WriteSome
  <2>c. ASSUME NEW rest, CloseAndRemove(rest), IsOpen PROVE Final
    BY <2>c, <2>0 DEF CloseAndRemove, HandleClose
  <2>d. ShutdownInLoop => Final
    BY <2>a DEF ShutdownInLoop
  <2>1. CASE RunFunctor
    <3>1. EstablishedInLoop => Final
      BY <2>a DEF EstablishedInLoop
    <3>2. DestroyedInLoop => Final
      BY <2>a DEF DestroyedInLoop
    <3>3. UNCHANGED <<state_, watch, fins, calls, out>> => Final
      OBVIOUS
    <3> QED
      BY <2>1, <2>a, <2>b, <2>c, <2>d, <3>1, <3>2, <3>3 DEF RunFunctor
  <2>2. CASE PeerClosed
    BY <2>2, <2>0, <2>c DEF PeerClosed, WatchedWhileOpen
  \* The write event is off after a close, and after a FIN nothing is left.
  <2>3. ASSUME NEW k \in 1..MaxCount, HandleWrite(k) PROVE Final
    <3>1. Len(sendBuffer_) # 0
      BY <2>3, BoundAssumption DEF HandleWrite
    <3> QED
      BY <2>3, <2>0, <3>1 DEF HandleWrite
  <2>4. ASSUME NEW count \in 0..MaxCount, NEW fromReceive \in BOOLEAN,
               SendHere(count, fromReceive)
        PROVE  Final
    BY <2>4, <2>a, <2>b DEF SendHere
  <2>5. ASSUME NEW u \in Users,
               SendChecks(u) \/ \E count \in 0..MaxCount : SendQueues(u, count)
        PROVE  Final
    BY <2>5 DEF SendChecks, SendQueues
  <2>6. ASSUME NEW u \in Users \cup {LoopUser},
               Shutdown(u) \/ ForceClose(u) \/ Drop(u)
        PROVE  Final
    BY <2>6, <2>a, <2>d DEF Shutdown, ForceClose, Drop
  <2>7. CASE RemoveConnectionInLoop \/ OwnerDestroyed
    BY <2>7 DEF RemoveConnectionInLoop, OwnerDestroyed
  <2>8. CASE Loop
    BY <2>1, <2>2, <2>3, <2>8 DEF Loop
  <2>9. CASE Call
    BY <2>4, <2>5, <2>6, <2>9, Zenon DEF Call
  <2> QED
    BY <2>7, <2>8, <2>9 DEF Next
<1> QED
  BY <1>1, Invariance, PTL DEF Spec, EndIsFinal

\* A connection that poll() watches is deleted only after a destroyed() that
\* found it in kDisconnecting.
THEOREM DeletedIsUnwatched == Spec => []DeletedUnwatched
<1>1. Inv => DeletedUnwatched
  <2> SUFFICES ASSUME Inv, ~Alive, Registered PROVE abandoned
    BY DEF DeletedUnwatched
  <2>1. state_ # "kDisconnected"
    BY DEF Inv, LifeInv, WatchedWhileOpen, Registered, IsOpen
  <2>2. owner \in {"released", "destroyed"} /\ ~DestroyedQueued
    BY DEF Inv, LifeInv, TypeOK, Alive, DestroyedQueued
  <2> QED
    BY <2>1, <2>2 DEF Inv, RefInv, OwnerLetsGo
<1> QED
  BY <1>1, Invariance, PTL
=============================================================================
