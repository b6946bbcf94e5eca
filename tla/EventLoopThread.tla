-------------------------- MODULE EventLoopThread --------------------------
(***************************************************************************)
(* nutty::EventLoopThread (nutty/base/EventLoopThread.h, .cpp): an object  *)
(* whose constructor starts a thread that runs an EventLoop and waits      *)
(* until the loop can be used, and whose destructor quits the loop and     *)
(* joins the thread.                                                       *)
(*                                                                         *)
(* The loop itself is module EventLoop; this module adds the owner, which  *)
(* runs constructor and destructor, and threadFunc() around loop().        *)
(* thread_ is declared before mutex_ and cv_, so the thread may reach its  *)
(* lock before they are constructed.                                       *)
(***************************************************************************)
EXTENDS EventLoop

CONSTANTS
    Owner,       \* the thread that constructs and destroys the object
    Quitters     \* threads other than Owner whose code calls quit()

ASSUME OwnerAssumption == Owner \in Callers
ASSUME QuittersAssumption == Quitters \subseteq Threads \ {Owner}

VARIABLES
    loop_,       \* "null", or "loop": the address of threadFunc's local
    life,        \* of that local: "unborn", "alive" or "dead"
    mutex_,      \* "free", "owner", "thread"; "garbage" is unconstructed
                 \* memory that reads as locked
    notified,    \* the owner's wait on cv_ has been notified
    opc,         \* where the owner is
    tpc,         \* where threadFunc() is
    othersQuit   \* history: someone other than the destructor called quit()

threadVars == <<loop_, life, mutex_, notified, opc, tpc, othersQuit>>
allVars == <<vars, threadVars>>

OwnerControl == {"spawned", "lock", "check", "towait", "waiting", "ready",
                 "joining", "joined", "crashed"}
ThreadControl == {"construct", "lock", "stuck", "publish", "loop", "looping",
                  "clear", "destroy", "end"}

\* The first member initialisers have run: loop_ is null, thread_ is started.
ThreadInit ==
    /\ Init
    /\ loop_ = "null"
    /\ life = "unborn"
    /\ mutex_ \in {"free", "garbage"}
    /\ notified = FALSE
    /\ opc = "spawned"
    /\ tpc = "construct"
    /\ othersQuit = FALSE

-----------------------------------------------------------------------------
(* The owner: EventLoopThread(), uses of getLoop(), ~EventLoopThread().    *)

\* The members declared after thread_ are constructed: this overwrites
\* whatever the new thread has already done to the mutex.
ConstructMembers ==
    /\ opc = "spawned"
    /\ mutex_' = "free"
    /\ opc' = "lock"
    /\ UNCHANGED <<vars, loop_, life, notified, tpc, othersQuit>>

CtorLock ==
    /\ opc = "lock"
    /\ mutex_ = "free"
    /\ mutex_' = "owner"
    /\ opc' = "check"
    /\ UNCHANGED <<vars, loop_, life, notified, tpc, othersQuit>>

\* Mutant: the constructor does not wait for the thread.
CtorCheckNothing ==
    /\ opc = "check"
    /\ opc' = "ready"
    /\ mutex_' = "free"
    /\ UNCHANGED <<vars, loop_, life, notified, tpc, othersQuit>>

\* while (!loop_): leave with the lock released, or go and wait.
CtorCheck ==
    /\ opc = "check"
    /\ IF loop_ # "null"
       THEN opc' = "ready" /\ mutex_' = "free"
       ELSE opc' = "towait" /\ UNCHANGED mutex_
    /\ UNCHANGED <<vars, loop_, life, notified, tpc, othersQuit>>

CtorWait ==
    /\ opc = "towait"
    /\ mutex_' = "free"
    /\ notified' = FALSE
    /\ opc' = "waiting"
    /\ UNCHANGED <<vars, loop_, life, tpc, othersQuit>>

\* cv_.wait() returns, notified or spuriously, and takes the lock again.
CtorWakes(spurious) ==
    /\ opc = "waiting"
    /\ notified \/ spurious
    /\ opc' = "lock"
    /\ UNCHANGED <<vars, loop_, life, mutex_, notified, tpc, othersQuit>>

\* ~EventLoopThread() up to the wakeup() of its quit(): loop_ is read without
\* the lock.  Other callers have stopped using the loop by then.
DtorQuit ==
    /\ opc = "ready"
    /\ waking \cap Callers = {}
    /\ \/ /\ loop_ # "null"
          /\ Quit(Owner)
          /\ opc' = "joining"
       \/ /\ loop_ = "null"
          /\ opc' = "crashed"
          /\ UNCHANGED vars
    /\ UNCHANGED <<loop_, life, mutex_, notified, tpc, othersQuit>>

DtorJoin ==
    /\ opc = "joining"
    /\ Owner \notin waking
    /\ tpc = "end"
    /\ opc' = "joined"
    /\ UNCHANGED <<vars, loop_, life, mutex_, notified, tpc, othersQuit>>

-----------------------------------------------------------------------------
(* threadFunc().                                                           *)

ThreadConstruct ==
    /\ tpc = "construct"
    /\ life' = "alive"
    /\ tpc' = "lock"
    /\ UNCHANGED <<vars, loop_, mutex_, notified, opc, othersQuit>>

\* Memory that reads as locked is waited on; constructing the mutex later
\* wakes nobody.
ThreadLock ==
    /\ tpc = "lock"
    /\ \/ mutex_ = "free" /\ mutex_' = "thread" /\ tpc' = "publish"
       \/ mutex_ = "garbage" /\ tpc' = "stuck" /\ UNCHANGED mutex_
    /\ UNCHANGED <<vars, loop_, life, notified, opc, othersQuit>>

\* Mutant: the owner is not notified.
ThreadPublishSilently ==
    /\ tpc = "publish"
    /\ loop_' = "loop"
    /\ mutex_' = "free"
    /\ tpc' = "loop"
    /\ UNCHANGED <<vars, life, notified, opc, othersQuit>>

\* The locked block: the loop's address is stored and the owner notified.
ThreadPublish ==
    /\ tpc = "publish"
    /\ loop_' = "loop"
    /\ notified' = (notified \/ opc = "waiting")
    /\ mutex_' = "free"
    /\ tpc' = "loop"
    /\ UNCHANGED <<vars, life, opc, othersQuit>>

ThreadEnterLoop ==
    /\ tpc = "loop"
    /\ LoopEnter
    /\ tpc' = "looping"
    /\ UNCHANGED <<loop_, life, mutex_, notified, opc, othersQuit>>

ThreadLoopReturns ==
    /\ tpc = "looping"
    /\ LoopExit
    /\ tpc' = "clear"
    /\ UNCHANGED <<loop_, life, mutex_, notified, opc, othersQuit>>

ThreadClear ==
    /\ tpc = "clear"
    /\ loop_' = "null"
    /\ tpc' = "destroy"
    /\ UNCHANGED <<vars, life, mutex_, notified, opc, othersQuit>>

ThreadDestroy ==
    /\ tpc = "destroy"
    /\ life' = "dead"
    /\ tpc' = "end"
    /\ UNCHANGED <<vars, loop_, mutex_, notified, opc, othersQuit>>

-----------------------------------------------------------------------------
(* Steps of the loop and of the threads that use it.                       *)

\* Other threads call through getLoop() until the object is destroyed; the
\* loop's own thread calls from its callbacks.
MayUseLoop(t) ==
    IF t = LoopThread THEN pc \in {"iocb", "cb"} ELSE opc = "ready"

UseLoop ==
    \E t \in Threads :
        /\ MayUseLoop(t)
        /\ loop_ # "null"
        /\ \/ \E f \in Functors : QueueInLoop(t, f)
              /\ UNCHANGED threadVars
           \/ /\ t \in Quitters
              /\ Quit(t)
              /\ othersQuit' = TRUE
              /\ UNCHANGED <<loop_, life, mutex_, notified, opc, tpc>>

\* A thread gets to its eventfd write.  If the loop is gone by then, the code
\* reads a dead object for the descriptor; that is modelled as a write that
\* goes to a closed descriptor, fails, and is ignored.
FinishWakeup(t) ==
    /\ IF life = "alive"
       THEN Wakeup(t)
       ELSE /\ t \in waking
            /\ waking' = waking \ {t}
            /\ UNCHANGED <<quit_, callingPendingFunctors_, pendingFunctors_,
                           functors, activeWatchers_, wakeupFd_, pc, histVars>>
    /\ UNCHANGED threadVars

LoopStep ==
    /\ tpc = "looping"
    /\ \/ LoopPoll
       \/ HandleWakeup \/ (\E w \in IoWatchers : HandleEvents(w))
       \/ EventsReturn
       \/ DoPendingFunctors \/ RunFunctor \/ FunctorReturn \/ PendingDone
    /\ UNCHANGED threadVars

\* Watchers with user code behind them are registered through getLoop(),
\* hence not before the constructor has returned.
PollStep ==
    /\ Poll
    /\ activeWatchers_' \cap IoWatchers # {} => opc \in {"ready", "joining"}
    /\ UNCHANGED threadVars

ThreadFunc ==
    \/ ThreadConstruct \/ ThreadLock \/ ThreadPublish \/ ThreadEnterLoop
    \/ ThreadLoopReturns \/ ThreadClear \/ ThreadDestroy

Ctor == ConstructMembers \/ CtorLock \/ CtorCheck \/ CtorWait

ThreadNext ==
    \/ Ctor \/ (\E spurious \in BOOLEAN : CtorWakes(spurious))
    \/ DtorQuit \/ DtorJoin
    \/ ThreadFunc
    \/ UseLoop \/ (\E t \in Threads : FinishWakeup(t))
    \/ LoopStep \/ PollStep

\* Both threads are scheduled, a notified wait returns, poll() returns when
\* the eventfd is readable.  A mutex that is free again and again is taken in
\* the end (spurious wakeups of the owner do not starve the thread).  Nothing
\* makes the owner destroy the object.
ThreadFairness ==
    /\ WF_allVars(Ctor) /\ WF_allVars(CtorWakes(FALSE)) /\ WF_allVars(DtorJoin)
    /\ WF_allVars(ThreadFunc) /\ SF_allVars(ThreadLock) /\ WF_allVars(LoopStep)
    /\ \A t \in Threads : WF_allVars(FinishWakeup(t))
    /\ WF_allVars(wakeupFd_ > 0 /\ PollStep)

ThreadSpec == ThreadInit /\ [][ThreadNext]_allVars /\ ThreadFairness

-----------------------------------------------------------------------------
(* Properties.                                                             *)

\* Once the constructor has returned, and until the destructor runs, getLoop()
\* gives a constructed EventLoop that nobody has left, unless the program's
\* own code has quit it.  This holds in spite of the order of the members: the
\* constructor believes only loop_ (EventLoopThread, threadFunc).  And the
\* destructor dereferences a null loop_ only if the loop was quit by someone
\* else first (~EventLoopThread reads what threadFunc clears).
LoopUsable ==
    ~othersQuit =>
        /\ opc # "crashed"
        /\ opc = "ready" => /\ loop_ = "loop"
                            /\ life = "alive"
                            /\ tpc \in {"loop", "looping"}

\* If the members are constructed before the thread takes the lock, the
\* constructor returns: the notification cannot slip between its test of
\* loop_ and its wait.  And a quit() that finds the thread inside loop() ends
\* it: the thread leaves and the destructor's join returns.
OwnerReturns ==
    /\ (opc # "spawned" /\ tpc \in {"construct", "lock"}) ~> (opc = "ready")
    /\ (opc = "joining" /\ quit_ /\ tpc = "looping") ~> (opc = "joined")

\* loop() blocks until quit ("blocking until quit", EventLoop.cpp): once the
\* destructor has called quit(), the thread gets out of loop().
QuitEndsThread == (opc = "joining") ~> (tpc = "end")
=============================================================================
