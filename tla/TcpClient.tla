----------------------------- MODULE TcpClient -----------------------------
(***************************************************************************)
(* nutty::TcpClient (nutty/net/TcpClient.h, TcpClient.cpp): keeps one      *)
(* connection to a server, with the Connector that makes it.               *)
(*                                                                         *)
(* connect() and disconnect() may be called on any thread.  Each first     *)
(* exchanges started_ and then hands start() or stop() to the connector's  *)
(* loop; disconnect() then locks mutex_ and looks for a connection to shut *)
(* down.  Everything else runs on the loop, whose iteration and queue are  *)
(* those of module Connector.  Of a TcpConnection only its state and its   *)
(* calls back to the client are kept; module TcpConnection has the rest.   *)
(***************************************************************************)
EXTENDS Connector

CONSTANTS
    Callers,    \* threads other than the loop's
    Conns       \* connection objects; one that is gone may be used again

ASSUME ConnsAssumption == Others = Conns \X {"shutdown", "forceClose", "destroyed"}
ASSUME NullAssumption == "null" \notin Conns

VARIABLES
    started_,
    retryEnabled,   \* retry_ of the client
    connection_,    \* "null" or a member of Conns
    conns,          \* state_ of each connection
    calls,          \* what each caller has still to do in its call
    client,         \* "alive", "destroying" on another thread, "deleted"
    undefined,      \* the function called on the deleted client, or "no"
    raced,          \* history: a call exchanged started_ while the start()
                    \* or stop() of another one was still to come
    slipped,        \* history: handleConnection() after disconnect() looked
    overlapped,     \* history: handleConnection() with a connection still open
    foreign         \* history: the client was destroyed on another thread

clientVars == <<started_, retryEnabled, connection_, conns, calls, client,
                undefined>>
clientHist == <<raced, slipped, overlapped, foreign>>
allVars == <<vars, clientVars, clientHist>>

Open(c) == conns[c] \in {"kConnected", "kDisconnecting"}
Gone(c) ==
    /\ conns[c] = "kDisconnected"
    /\ connection_ # c
    /\ \A fn \in {"shutdown", "forceClose", "destroyed"} : ~Queued(<<c, fn>>)

ClientInit ==
    /\ Init
    /\ started_ = FALSE
    /\ retryEnabled = FALSE
    /\ connection_ = "null"
    /\ conns = [c \in Conns |-> "kDisconnected"]
    /\ calls = [t \in Callers |-> "none"]
    /\ client = "alive"
    /\ undefined = "no"
    /\ raced = FALSE
    /\ slipped = FALSE
    /\ overlapped = FALSE
    /\ foreign = FALSE

-----------------------------------------------------------------------------
(* connect() and disconnect() on another thread.                           *)

\* Some caller is between its exchange of started_ and its queueInLoop().
Exchanged == \E t \in Callers : calls[t] \in {"start", "stop"}

\* A start() or stop() is on its way to the connector.
Pending ==
    Exchanged \/ Queued(Own("startInLoop")) \/ Queued(Own("stopInLoop"))

MayCall == client = "alive" /\ ~dangling /\ undefined = "no"

\* Bound: calls begin only while few functors wait on the loop.
Quiet == Len(functors) + Len(pendingFunctors_) < MaxQueue

EnableRetry ==
    /\ MayCall
    /\ ~retryEnabled
    /\ retryEnabled' = TRUE
    /\ UNCHANGED <<vars, started_, connection_, conns, calls, client, undefined,
                   clientHist>>

ConnectExchanges(t) ==
    /\ MayCall
    /\ Quiet
    /\ calls[t] = "none"
    /\ ~started_
    /\ started_' = TRUE
    /\ calls' = [calls EXCEPT ![t] = "start"]
    /\ raced' = (raced \/ Exchanged)
    /\ UNCHANGED <<vars, retryEnabled, connection_, conns, client, undefined,
                   slipped, overlapped, foreign>>

DisconnectExchanges(t) ==
    /\ MayCall
    /\ Quiet
    /\ calls[t] = "none"
    /\ started_' = FALSE
    /\ calls' = [calls EXCEPT ![t] = IF started_ THEN "stop" ELSE "look"]
    /\ raced' = (raced \/ (started_ /\ Exchanged))
    /\ UNCHANGED <<vars, retryEnabled, connection_, conns, client, undefined,
                   slipped, overlapped, foreign>>

\* queueInLoop() of a thread that is not the loop's.
Push(f) ==
    /\ pendingFunctors_' = Append(pendingFunctors_, f)
    /\ UNCHANGED <<flags, connectSocket_, watcher_, revents_, pc, functors,
                   timers, dangling, hist>>

\* Mutant: disconnect() does not stop the connector.
CallQueuesStart(t) ==
    /\ MayCall
    /\ \/ /\ calls[t] = "start"
          /\ Push(Own("startInLoop"))
          /\ calls' = [calls EXCEPT ![t] = "none"]
       \/ /\ calls[t] = "stop"
          /\ calls' = [calls EXCEPT ![t] = "look"]
          /\ UNCHANGED vars
    /\ UNCHANGED <<started_, retryEnabled, connection_, conns, client, undefined,
                   clientHist>>

CallQueues(t) ==
    /\ MayCall
    /\ \/ /\ calls[t] = "start"
          /\ Push(Own("startInLoop"))
          /\ calls' = [calls EXCEPT ![t] = "none"]
       \/ /\ calls[t] = "stop"
          /\ Push(Own("stopInLoop"))
          /\ calls' = [calls EXCEPT ![t] = "look"]
    /\ UNCHANGED <<started_, retryEnabled, connection_, conns, client, undefined,
                   clientHist>>

\* Mutant: disconnect() leaves the connection alone.
DisconnectLooksAway(t) ==
    /\ MayCall
    /\ calls[t] = "look"
    /\ calls' = [calls EXCEPT ![t] = "none"]
    /\ UNCHANGED <<vars, started_, retryEnabled, connection_, conns, client,
                   undefined, clientHist>>

\* The locked block at the end of disconnect().
DisconnectLooks(t) ==
    /\ MayCall
    /\ calls[t] = "look"
    /\ calls' = [calls EXCEPT ![t] = "none"]
    /\ IF connection_ = "null"
       THEN UNCHANGED vars
       ELSE Push(<<connection_, "shutdown">>)
    /\ UNCHANGED <<started_, retryEnabled, connection_, conns, client, undefined,
                   clientHist>>

-----------------------------------------------------------------------------
(* The same on the loop's thread, in a callback.                           *)

InCallback ==
    /\ pc \in {"poll", "functors"}
    /\ MayCall
    /\ Quiet

\* shutdownInLoop(), as far as state_ goes.
Shut(c) == [conns EXCEPT ![c] = IF @ = "kConnected" THEN "kDisconnecting" ELSE @]

ConnectHere ==
    /\ InCallback
    /\ ~started_
    /\ started_' = TRUE
    /\ StartInLoop
    /\ raced' = (raced \/ Pending)
    /\ UNCHANGED <<revents_, pc, functors, retryEnabled, connection_, conns,
                   calls, client, undefined, slipped, overlapped, foreign>>

DisconnectHere ==
    /\ InCallback
    /\ started_' = FALSE
    /\ IF started_
       THEN StopInLoop(pendingFunctors_) /\ UNCHANGED <<revents_, pc, functors>>
       ELSE UNCHANGED vars
    /\ conns' = IF connection_ = "null" THEN conns ELSE Shut(connection_)
    /\ raced' = (raced \/ (started_ /\ Pending))
    /\ UNCHANGED <<retryEnabled, connection_, calls, client, undefined, slipped,
                   overlapped, foreign>>

\* forceClose() by a user, who holds the TcpConnectionPtr.  A user's own
\* shutdown() is left to module TcpConnection: it changes nothing here that
\* the client's disconnect() does not.
ForceClose(c) ==
    /\ MayCall
    /\ Quiet
    /\ Open(c)
    /\ Push(<<c, "forceClose">>)
    /\ UNCHANGED <<clientVars, clientHist>>

-----------------------------------------------------------------------------
(* The callbacks from the connector and from connections.                  *)

\* Mutant: the connection is not remembered.
TrackNothing(c) == "null"

Track(c) == c

\* handleConnection(): established() runs in place.
HandleConnection(c) ==
    /\ Gone(c)
    /\ conns' = [conns EXCEPT ![c] = "kConnected"]
    /\ connection_' = Track(c)
    /\ overlapped' = (overlapped \/ \E d \in Conns : Open(d))
    /\ slipped' = (slipped \/ (~started_ /\ \A t \in Callers : calls[t] = "none"))
    /\ UNCHANGED undefined

\* Without the client, the connector lives as long as a functor or a timer is
\* bound to it; the callbacks of its watcher hold the plain pointer.
ConnectorFreed ==
    /\ client = "deleted"
    /\ timers = 0
    /\ ~Queued(Own("startInLoop")) /\ ~Queued(Own("stopInLoop")) /\ ~ResetQueued

FreedConnectorCalled ==
    /\ pc = "poll"
    /\ ~dangling /\ undefined = "no"
    /\ revents_ # {}
    /\ ConnectorFreed
    /\ undefined' = "connector"
    /\ UNCHANGED <<vars, started_, retryEnabled, connection_, conns, calls, client,
                   clientHist>>

\* A write event of the connecting socket.
ConnectorWrites(error) ==
    /\ undefined = "no"
    /\ ~ConnectorFreed
    /\ HandleWrite(error)
    /\ IF error \/ ~StillConnecting
       THEN UNCHANGED <<connection_, conns, undefined, slipped, overlapped>>
       ELSE \/ client # "deleted" /\ \E c \in Conns : HandleConnection(c)
            \/ /\ client = "deleted"
               /\ undefined' = "handleConnection"
               /\ UNCHANGED <<connection_, conns, slipped, overlapped>>
    /\ UNCHANGED <<started_, retryEnabled, calls, client, raced, foreign>>

NoRestart ==
    UNCHANGED <<flags, connectSocket_, watcher_, timers, dangling, hist>>

\* handleClose() of a connection and the client's removeConnection(), whose
\* first step is to drop connection_, whichever connection that is.
Close(c) ==
    /\ conns' = [conns EXCEPT ![c] = "kDisconnected"]
    /\ IF client = "deleted"
       THEN /\ undefined' = "removeConnection"
            /\ NoRestart
            /\ UNCHANGED <<connection_, pendingFunctors_>>
       ELSE /\ connection_' = "null"
            /\ pendingFunctors_' = Append(pendingFunctors_, <<c, "destroyed">>)
            /\ IF retryEnabled /\ started_ THEN Restart ELSE NoRestart
            /\ UNCHANGED undefined

PeerClosed(c) ==
    /\ pc = "poll"
    /\ ~dangling /\ undefined = "no"
    /\ Open(c)
    /\ Close(c)
    /\ UNCHANGED <<revents_, pc, functors, started_, retryEnabled, calls, client,
                   clientHist>>

\* A functor bound to a connection.
RunOther ==
    /\ pc = "functors"
    /\ functors # <<>>
    /\ ~dangling /\ undefined = "no"
    /\ functors' = Tail(functors)
    /\ \E c \in Conns :
          \/ /\ Head(functors) = <<c, "shutdown">>
             /\ conns' = Shut(c)
             /\ NoRestart
             /\ UNCHANGED <<connection_, pendingFunctors_, undefined>>
          \/ /\ Head(functors) = <<c, "forceClose">>
             /\ IF Open(c)
                THEN Close(c)
                ELSE /\ NoRestart
                     /\ UNCHANGED <<conns, connection_, pendingFunctors_, undefined>>
          \/ /\ Head(functors) = <<c, "destroyed">>
             /\ conns' = [conns EXCEPT ![c] =
                              IF @ = "kConnected" THEN "kDisconnected" ELSE @]
             /\ NoRestart
             /\ UNCHANGED <<connection_, pendingFunctors_, undefined>>
    /\ UNCHANGED <<revents_, pc, started_, retryEnabled, calls, client, clientHist>>

-----------------------------------------------------------------------------
(* ~TcpClient().  No call of another thread is under way.                  *)

DestroyedFunctors ==
    IF connection_ = "null" THEN <<>> ELSE << <<connection_, "destroyed">> >>

MayDestroy == MayCall /\ \A t \in Callers : calls[t] = "none"

\* On another thread: first the connection ...
DestroyBegins ==
    /\ MayDestroy
    /\ client' = "destroying"
    /\ foreign' = TRUE
    /\ pendingFunctors_' = pendingFunctors_ \o DestroyedFunctors
    /\ NoRestart
    /\ UNCHANGED <<revents_, pc, functors, started_, retryEnabled, connection_,
                   conns, calls, undefined, raced, slipped, overlapped>>

\* ... then the connector, and the members.
DestroyEnds ==
    /\ client = "destroying"
    /\ ~dangling /\ undefined = "no"
    /\ client' = "deleted"
    /\ connection_' = "null"
    /\ IF started_ THEN Push(Own("stopInLoop")) ELSE UNCHANGED vars
    /\ UNCHANGED <<started_, retryEnabled, conns, calls, undefined, clientHist>>

\* Mutant: the connector is left to itself.
StopNothing(queued) == NoRestart /\ pendingFunctors_' = queued

StopConnector(queued) ==
    IF started_ THEN StopInLoop(queued) ELSE NoRestart /\ pendingFunctors_' = queued

\* On the loop's thread, in a callback.
DestroyHere ==
    /\ InCallback
    /\ MayDestroy
    /\ client' = "deleted"
    /\ connection_' = "null"
    /\ raced' = (raced \/ Pending)
    /\ StopConnector(pendingFunctors_ \o DestroyedFunctors)
    /\ UNCHANGED <<revents_, pc, functors, started_, retryEnabled, conns, calls,
                   undefined, slipped, overlapped, foreign>>

-----------------------------------------------------------------------------
\* What the connector does by itself.
ConnectorStep ==
    /\ undefined = "no"
    /\ \/ \E revents \in SUBSET Events : Poll(revents)
       \/ Retrying
       \/ ~ConnectorFreed /\ HandleError
       \/ DoPendingFunctors
       \/ RunFunctor
    /\ UNCHANGED <<clientVars, clientHist>>

ClientNext ==
    \/ EnableRetry
    \/ \E t \in Callers :
           \/ ConnectExchanges(t) \/ DisconnectExchanges(t)
           \/ CallQueues(t) \/ DisconnectLooks(t)
    \/ ConnectHere \/ DisconnectHere
    \/ \E c \in Conns : ForceClose(c) \/ PeerClosed(c)
    \/ \E error \in BOOLEAN : ConnectorWrites(error)
    \/ FreedConnectorCalled
    \/ RunOther
    \/ DestroyBegins \/ DestroyEnds \/ DestroyHere
    \/ ConnectorStep

ClientSpec == ClientInit /\ [][ClientNext]_allVars

-----------------------------------------------------------------------------
(* Properties.                                                             *)

Settled == ~Pending /\ \A t \in Callers : calls[t] = "none"

\* Once all calls have arrived, the connector tries to connect exactly if the
\* last connect() or disconnect() to exchange started_ says so, unless two
\* calls overlapped: an exchange and its queueInLoop() are two steps, and a
\* call on the loop's thread overtakes a queued one (connect, disconnect).
StartedAgrees ==
    client = "alive" /\ Settled /\ ~raced => (connect_ <=> started_)

\* connection_ is the open connection, if there is one, so that disconnect()
\* and ~TcpClient() reach it; except that a client that connects again while
\* its former connection is still closing forgets the new one when the former
\* one closes (handleConnection, removeConnection).
LiveIsTracked ==
    client = "alive" /\ ~overlapped =>
        {c \in Conns : Open(c)} = {connection_} \ {"null"}

\* After a disconnect() the connection is closed or closing, and stays so,
\* unless the handshake ended between disconnect()'s look at connection_ and
\* the queued stop() (disconnect, handleConnection, removeConnection).
DisconnectHolds ==
    client = "alive" /\ Settled /\ ~started_ /\ ~raced /\ ~slipped /\ ~overlapped =>
        \A c \in Conns : conns[c] = "kConnected" => Queued(<<c, "shutdown">>)

\* What a client destroyed on the loop's thread leaves behind ends by itself.
\* The connector never hands a connection to the deleted client, nor is called
\* back after its own deletion, if no start() or stop() was pending; and a
\* connection that is still kConnected has its destroyed() queued, so that it
\* calls removeConnection() on the deleted client only if it closes before that
\* runs, or had been shut down, when destroyed() passes it over (~TcpClient).
\* Excepted is a client that had two connections open at once.
DeadClientReleased ==
    /\ undefined \in {"handleConnection", "connector"} => foreign \/ raced
    /\ client = "deleted" /\ ~foreign /\ ~overlapped =>
          \A c \in Conns : conns[c] = "kConnected" => Queued(<<c, "destroyed">>)
=============================================================================
