----------------------------- MODULE TcpServer -----------------------------
(***************************************************************************)
(* nutty::TcpServer with its Acceptor and its EventLoopThreadPool          *)
(* (nutty/net/TcpServer.cpp, Acceptor.cpp, base/EventLoopThreadPool.cpp).  *)
(*                                                                         *)
(* The base loop accepts, and hands every connection to the next loop of   *)
(* the pool; a connection that closes on its loop is removed on the base   *)
(* loop and destroyed on its own.  Loops are serial executors              *)
(* (SerialExecutor).  File descriptors are counted, as the acceptor keeps  *)
(* one in reserve for the moment when there are none left.                 *)
(***************************************************************************)
EXTENDS Integers, Sequences, FiniteSets, Functions

CONSTANTS
    Peers,         \* clients, each waiting to be accepted at most once
    Conns,         \* connection objects; one that is gone may be used again
    MaxThreads,    \* largest argument of setThreadNum()
    MaxFds,        \* descriptors left for connections, idleFd_ and others
    MaxUserCalls   \* bound: calls from other threads waiting for a connection

ASSUME FdAssumption ==
    MaxFds \in Nat \ {0} /\ IsFiniteSet(Conns) /\ Cardinality(Conns) >= MaxFds
ASSUME ThreadNumAssumption == MaxThreads \in Nat

BaseLoop == 0
Loops == BaseLoop..MaxThreads

VARIABLES
    started_,
    numThreads_,
    loops_,         \* the pool's loops are 1..loops_
    next_,
    listenning_,
    idleFd_,        \* TRUE when it is an open descriptor
    connections_,
    server,         \* "alive", "joining" its threads, "deleted"
    ended,          \* loops whose threads have been joined
    queues,         \* the functors queued on each loop
    conns,          \* state_ of each connection
    loopOf,         \* loop_ of each connection
    backlog,        \* peers the kernel holds for accept()
    others,         \* descriptors used by the rest of the program
    apc,            \* handleRead(): "out", or past closing idleFd_ ("closed")
                    \* or past the second accept() ("dropped")
    undefined,      \* the deleted server, or a deleted connection, has been
                    \* called
    stolen          \* history: a descriptor was taken during handleRead()

poolVars == <<started_, numThreads_, loops_, next_>>
acceptVars == <<listenning_, idleFd_, backlog, others, apc, stolen>>
connVars == <<connections_, queues, conns, loopOf>>
endVars == <<server, ended, undefined>>
vars == <<poolVars, acceptVars, connVars, endVars>>

Init ==
    /\ started_ = FALSE
    /\ numThreads_ = 0
    /\ loops_ = 0
    /\ next_ = 0
    /\ listenning_ = FALSE
    /\ idleFd_ = TRUE
    /\ connections_ = {}
    /\ server = "alive"
    /\ ended = {}
    /\ queues = [l \in Loops |-> <<>>]
    /\ conns = [c \in Conns |-> "kDisconnected"]
    /\ loopOf = [c \in Conns |-> BaseLoop]
    /\ backlog = <<>>
    /\ others = 0
    /\ apc = "out"
    /\ undefined = FALSE
    /\ stolen = FALSE

Functor(fn, c) == [fn |-> fn, conn |-> c]
Queued(l, f) == f \in Range(queues[l])
Push(l, f) == [queues EXCEPT ![l] = Append(@, f)]

\* Something holds a reference to the connection, and so its descriptor.
Exists(c) ==
    c \in connections_ \/ \E l \in Loops : \E f \in Range(queues[l]) : f.conn = c

FreeFds ==
    MaxFds - others - (IF idleFd_ THEN 1 ELSE 0)
           - Cardinality({c \in Conns : Exists(c)})

\* The base loop's thread is neither inside handleRead() nor joining.
BaseFree == apc = "out" /\ server # "joining" /\ ~undefined

LoopRuns(l) == l \notin ended /\ ~undefined /\ (l = BaseLoop => BaseFree)

-----------------------------------------------------------------------------
(* setThreadNum() and listen().                                            *)

\* Read by the pool's start() alone: a later call changes nothing more.
SetThreadNum(n) ==
    /\ server = "alive"
    /\ ~started_
    /\ numThreads_' = n
    /\ UNCHANGED <<started_, loops_, next_, acceptVars, connVars, endVars>>

\* EventLoopThreadPool::start().
StartPool == loops_' = numThreads_

\* listen() on another thread, or on the base loop's, where Acceptor::listen()
\* runs in place.  The pool is started first.
Listen(inPlace) ==
    /\ server = "alive"
    /\ ~started_
    /\ started_' = TRUE
    /\ StartPool
    /\ IF inPlace
       THEN listenning_' = TRUE /\ UNCHANGED queues
       ELSE queues' = Push(BaseLoop, Functor("listen", "none"))
            /\ UNCHANGED listenning_
    /\ UNCHANGED <<numThreads_, next_, idleFd_, backlog, others, apc, stolen,
                   connections_, conns, loopOf, endVars>>

-----------------------------------------------------------------------------
(* Accepting.                                                              *)

\* EventLoopThreadPool::getLoop(), and the index it leaves behind.
GetLoop == IF loops_ = 0 THEN BaseLoop ELSE next_ + 1
NextLoop == IF loops_ = 0 \/ next_ + 1 >= loops_ THEN 0 ELSE next_ + 1

\* TcpServer::handleConnection(): established() runs in place on the base
\* loop and is queued on any other.
HandleConnection(c) ==
    /\ loopOf' = [loopOf EXCEPT ![c] = GetLoop]
    /\ next_' = NextLoop
    /\ connections_' = connections_ \cup {c}
    /\ IF GetLoop = BaseLoop
       THEN conns' = [conns EXCEPT ![c] = "kConnected"] /\ UNCHANGED queues
       ELSE /\ conns' = [conns EXCEPT ![c] = "kConnecting"]
            /\ queues' = Push(GetLoop, Functor("established", c))

Readable == listenning_ /\ server = "alive" /\ BaseFree /\ backlog # <<>>

\* handleRead() with a descriptor to be had.
Accept(c) ==
    /\ Readable
    /\ FreeFds > 0
    /\ ~Exists(c)
    /\ backlog' = Tail(backlog)
    /\ HandleConnection(c)
    /\ UNCHANGED <<started_, numThreads_, loops_, listenning_, idleFd_, others,
                   apc, stolen, endVars>>

\* Mutant: without a descriptor, handleRead() gives up.
AcceptGivesUp ==
    /\ Readable
    /\ FreeFds = 0
    /\ apc' = "dropped"
    /\ UNCHANGED <<poolVars, listenning_, idleFd_, backlog, others, stolen,
                   connVars, endVars>>

\* EMFILE or ENFILE: the idle descriptor is given up ...
AcceptFails ==
    /\ Readable
    /\ FreeFds = 0
    /\ idleFd_' = FALSE
    /\ apc' = "closed"
    /\ UNCHANGED <<poolVars, listenning_, backlog, others, stolen, connVars,
                   endVars>>

\* ... the peer is accepted and closed, if nobody has taken the descriptor ...
AcceptDrops ==
    /\ apc = "closed"
    /\ apc' = "dropped"
    /\ backlog' = IF FreeFds > 0 THEN Tail(backlog) ELSE backlog
    /\ UNCHANGED <<poolVars, listenning_, idleFd_, others, stolen, connVars,
                   endVars>>

\* ... and the idle descriptor is opened again.
ReopenIdle ==
    /\ apc = "dropped"
    /\ idleFd_' = (FreeFds > 0)
    /\ apc' = "out"
    /\ UNCHANGED <<poolVars, listenning_, backlog, others, stolen, connVars,
                   endVars>>

-----------------------------------------------------------------------------
(* Connections closing, each on its own loop.                              *)

\* removeConnectionInLoop(): destroyed() is queued on the connection's loop.
Removal(c, q) == [q EXCEPT ![loopOf[c]] = Append(@, Functor("destroyed", c))]

\* handleClose() and the server's removeConnection(); q is queues without the
\* functor that is running.
Close(c, q) ==
    /\ conns' = [conns EXCEPT ![c] = "kDisconnected"]
    /\ \/ /\ server = "deleted"
          /\ undefined' = TRUE
          /\ queues' = q
          /\ UNCHANGED connections_
       \/ /\ server # "deleted"
          /\ loopOf[c] = BaseLoop
          /\ connections_' = connections_ \ {c}
          /\ queues' = Removal(c, q)
          /\ UNCHANGED undefined
       \/ /\ server # "deleted"
          /\ loopOf[c] # BaseLoop
          /\ queues' = [q EXCEPT ![BaseLoop] =
                            Append(@, Functor("removeConnectionInLoop", c))]
          /\ UNCHANGED <<connections_, undefined>>

\* The states in which the watcher is in poll and forceClose() closes.
Open(c) == conns[c] \in {"kConnected", "kDisconnecting"}

\* The peer ends the connection.  One that nobody refers to any more is gone,
\* its watcher still in poll, unless a user has kept it.
PeerClosed(c) ==
    /\ LoopRuns(loopOf[c])
    /\ Open(c)
    /\ \/ Close(c, queues)
       \/ ~Exists(c) /\ undefined' = TRUE /\ UNCHANGED <<connections_, queues, conns>>
    /\ UNCHANGED <<poolVars, acceptVars, loopOf, server, ended>>

\* The calls of users from other threads that wait for c on loop l.
UserCalls(l, c) ==
    {i \in DOMAIN queues[l] :
        queues[l][i] \in {Functor("forceClose", c), Functor("shutdown", c)}}

\* A user, told of the connection, calls a function of it from another thread.
UserQueues(fn, c) ==
    /\ Open(c)
    /\ ~undefined
    /\ loopOf[c] \notin ended
    /\ Cardinality(UserCalls(loopOf[c], c)) < MaxUserCalls
    /\ queues' = Push(loopOf[c], Functor(fn, c))
    /\ UNCHANGED conns

ForceClose(c) ==
    /\ UserQueues("forceClose", c)
    /\ UNCHANGED <<poolVars, acceptVars, connections_, loopOf, endVars>>

\* shutdownInLoop(), without the half-close of the socket: the peer, told of
\* it, may close at any time anyway.
ShutdownInLoop(c) ==
    conns' = [conns EXCEPT ![c] = IF @ = "kConnected" THEN "kDisconnecting" ELSE @]

\* shutdown(), in place on the connection's own loop.
Shutdown(c) ==
    /\ \/ UserQueues("shutdown", c)
       \/ LoopRuns(loopOf[c]) /\ ShutdownInLoop(c) /\ UNCHANGED queues
    /\ UNCHANGED <<poolVars, acceptVars, connections_, loopOf, endVars>>

\* What a functor does, once it is off its queue.
Run(f, q) ==
    \/ /\ f.fn = "listen"
       /\ listenning_' = TRUE
       /\ undefined' = (server = "deleted")
       /\ queues' = q
       /\ UNCHANGED <<connections_, conns>>
    \/ /\ f.fn = "removeConnectionInLoop"
       /\ IF server = "deleted"
          THEN undefined' = TRUE /\ queues' = q /\ UNCHANGED connections_
          ELSE /\ connections_' = connections_ \ {f.conn}
               /\ queues' = Removal(f.conn, q)
               /\ UNCHANGED undefined
       /\ UNCHANGED <<listenning_, conns>>
    \/ /\ f.fn = "established"
       /\ conns' = [conns EXCEPT ![f.conn] =
                        IF @ = "kConnecting" THEN "kConnected" ELSE @]
       /\ queues' = q
       /\ UNCHANGED <<listenning_, connections_, undefined>>
    \/ /\ f.fn = "forceClose"
       /\ IF Open(f.conn)
          THEN Close(f.conn, q)
          ELSE queues' = q /\ UNCHANGED <<conns, connections_, undefined>>
       /\ UNCHANGED listenning_
    \/ /\ f.fn = "shutdown"
       /\ ShutdownInLoop(f.conn)
       /\ queues' = q
       /\ UNCHANGED <<listenning_, connections_, undefined>>
    \/ /\ f.fn = "destroyed"
       /\ conns' = [conns EXCEPT ![f.conn] =
                        IF @ = "kConnected" THEN "kDisconnected" ELSE @]
       /\ queues' = q
       /\ UNCHANGED <<listenning_, connections_, undefined>>

RunFunctor(l) ==
    /\ LoopRuns(l)
    /\ queues[l] # <<>>
    /\ Run(Head(queues[l]), [queues EXCEPT ![l] = Tail(@)])
    /\ UNCHANGED <<poolVars, idleFd_, backlog, others, apc, stolen, loopOf,
                   server, ended>>

-----------------------------------------------------------------------------
(* ~TcpServer(), on the base loop's thread.                                *)

\* Mutant: the connections are left to themselves.
DestroysNone(l) == {<<>>}

\* destroyed() of each connection of a loop, in any order: the destructor goes
\* through a hash set.
Destroys(l) ==
    LET mine == {c \in connections_ : loopOf[c] = l}
        nth == 1..Cardinality(mine)
    IN  {[i \in nth |-> Functor("destroyed", order[i])] :
            order \in Bijection(nth, mine)}

\* The destructor's body; the pool's destructor then quits the threads.
Destroy ==
    /\ server = "alive"
    /\ BaseFree
    /\ server' = "joining"
    /\ \E destroys \in [Loops -> UNION {Destroys(l) : l \in Loops}] :
          /\ \A l \in Loops : destroys[l] \in Destroys(l)
          /\ queues' = [l \in Loops |-> queues[l] \o destroys[l]]
    /\ connections_' = {}
    /\ UNCHANGED <<poolVars, acceptVars, conns, loopOf, ended, undefined>>

\* A thread leaves loop(), possibly with functors still queued, which are
\* dropped with the loop.
LoopEnds(l) ==
    /\ server = "joining"
    /\ l \in 1..loops_ \ ended
    /\ ended' = ended \cup {l}
    /\ queues' = [queues EXCEPT ![l] = <<>>]
    /\ UNCHANGED <<poolVars, acceptVars, connections_, conns, loopOf, server,
                   undefined>>

\* All threads are joined; ~Acceptor() closes its descriptors.
Joined ==
    /\ server = "joining"
    /\ 1..loops_ \subseteq ended
    /\ server' = "deleted"
    /\ idleFd_' = FALSE
    /\ backlog' = <<>>
    /\ UNCHANGED <<poolVars, listenning_, others, apc, stolen, connVars, ended,
                   undefined>>

-----------------------------------------------------------------------------
(* The rest of the world.                                                  *)

PeerConnects(p) ==
    /\ listenning_
    /\ server # "deleted"
    /\ p \notin Range(backlog)
    /\ backlog' = Append(backlog, p)
    /\ UNCHANGED <<poolVars, listenning_, idleFd_, others, apc, stolen, connVars,
                   endVars>>

OthersOpen ==
    /\ FreeFds > 0
    /\ others' = others + 1
    /\ stolen' = (stolen \/ apc # "out")
    /\ UNCHANGED <<poolVars, listenning_, idleFd_, backlog, apc, connVars, endVars>>

OthersClose ==
    /\ others > 0
    /\ others' = others - 1
    /\ UNCHANGED <<poolVars, listenning_, idleFd_, backlog, apc, stolen, connVars,
                   endVars>>

-----------------------------------------------------------------------------
HandleRead ==
    \/ \E c \in Conns : Accept(c)
    \/ AcceptFails \/ AcceptDrops \/ ReopenIdle

Next ==
    \/ \E n \in 0..MaxThreads : SetThreadNum(n)
    \/ \E inPlace \in BOOLEAN : Listen(inPlace)
    \/ HandleRead
    \/ \E c \in Conns : PeerClosed(c) \/ ForceClose(c) \/ Shutdown(c)
    \/ \E l \in Loops : RunFunctor(l) \/ LoopEnds(l)
    \/ Destroy \/ Joined
    \/ \E p \in Peers : PeerConnects(p)
    \/ OthersOpen \/ OthersClose

\* poll() reports a listening socket with peers waiting, and every loop goes
\* round: each gets to its events and to its functors.
Fairness ==
    /\ WF_vars(HandleRead)
    /\ \A l \in Loops : WF_vars(RunFunctor(l))

Spec == Init /\ [][Next]_vars /\ Fairness

-----------------------------------------------------------------------------
(* Properties.                                                             *)

\* A connection that is open on some loop belongs to the server, or its
\* destruction is queued on that loop, behind its establishment, until the
\* loop itself has ended (handleConnection, removeConnection, ~TcpServer).  The
\* one exception: a connection that has been shut down, and whose peer has not
\* closed, when the server is destroyed.  destroyedInLoop() passes it over, and
\* it is left open on its loop with nobody to close it.
OpenIsOwned ==
    \A c \in Conns : conns[c] # "kDisconnected" =>
        \/ c \in connections_
        \/ Queued(loopOf[c], Functor("destroyed", c))
        \/ loopOf[c] \in ended
        \/ conns[c] = "kDisconnecting" /\ server # "alive"

\* A waiting peer is accepted or turned away, however few descriptors there
\* are, unless another thread took the one given up in handleRead().
PendingServed ==
    \A p \in Peers :
        (p \in Range(backlog)) ~> (p \notin Range(backlog) \/ stolen \/ server # "alive")
=============================================================================
