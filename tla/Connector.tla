----------------------------- MODULE Connector -----------------------------
(***************************************************************************)
(* nutty::Connector (nutty/net/Connector.h, Connector.cpp): makes a client *)
(* connection without blocking, tries again with a growing delay, and      *)
(* hands the connected socket over.                                        *)
(*                                                                         *)
(* Everything runs on the loop's thread: functors queued on the loop, a    *)
(* retry timer, events of the connecting socket, and calls made in place   *)
(* by other callbacks.  The loop's iteration is kept: a poll, callbacks of *)
(* what it reported, then the batch of functors queued by then (EventLoop  *)
(* shows that this is what the loop does).                                 *)
(***************************************************************************)
EXTENDS Integers, Sequences, Functions

CONSTANTS
    kInitRetryDelayMs,
    kMaxRetryDelayMs,
    MaxQueue,            \* calls from other threads wait only up to this many
    Others               \* functors other objects queue on the same loop

ASSUME DelayAssumption ==
    /\ kInitRetryDelayMs \in Nat \ {0}
    /\ kMaxRetryDelayMs \in Nat
    /\ kInitRetryDelayMs <= kMaxRetryDelayMs
ASSUME QueueAssumption == MaxQueue \in Nat

VARIABLES
    connect_,         \* start() has been called, and no stop() since
    connecting_,
    retry_,
    retryDelayMs_,
    connectSocket_,   \* TRUE when it holds a socket
    watcher_,         \* "null", or a watcher "idle" or "registered" with poll
    revents_,         \* events of the watcher that are still to be handled
    pc,               \* the loop is in a "poll" phase, inside handleEvents()
                      \* ("events"), or running a batch of "functors"
    functors,         \* the batch
    pendingFunctors_, \* functors of the next batch
    timers,           \* number of pending retrying() timers
    dangling,         \* poll still holds a watcher that was deleted
    outcome,          \* history: how the last attempt ended
    overtaken         \* history: connect() came before a queued resetWatcher()

flags == <<connect_, connecting_, retry_, retryDelayMs_>>
hist == <<outcome, overtaken>>
queues == <<functors, pendingFunctors_>>
vars == <<flags, connectSocket_, watcher_, revents_, pc, queues, timers,
          dangling, hist>>

\* A functor is an object and the member function bound to it.
Own(fn) == <<"connector", fn>>
Functors == {Own(fn) : fn \in {"startInLoop", "stopInLoop", "resetWatcher"}} \cup Others
Events == {"POLLERR", "POLLOUT"}

Init ==
    /\ connect_ = FALSE
    /\ connecting_ = FALSE
    /\ retry_ = FALSE
    /\ retryDelayMs_ = kInitRetryDelayMs
    /\ connectSocket_ = FALSE
    /\ watcher_ = "null"
    /\ revents_ = {}
    /\ pc = "functors"
    /\ functors = <<>>
    /\ pendingFunctors_ = <<>>
    /\ timers = 0
    /\ dangling = FALSE
    /\ outcome = "none"
    /\ overtaken = FALSE

-----------------------------------------------------------------------------
(* The private steps, as parts of the actions below.                       *)

NextDelay(delay) ==
    IF delay * 2 < kMaxRetryDelayMs THEN delay * 2 ELSE kMaxRetryDelayMs

\* Mutant: a failed attempt is the last one.
RetryNever(wanted, delay, pending) ==
    /\ connectSocket_' = FALSE
    /\ outcome' = "failed"
    /\ timers' = pending
    /\ retryDelayMs_' = delay
    /\ UNCHANGED retry_

\* Mutant: a retry is noted but no timer is set for it.
RetryWithoutTimer(wanted, delay, pending) ==
    /\ connectSocket_' = FALSE
    /\ outcome' = "failed"
    /\ retry_' = (wanted \/ retry_)
    /\ timers' = pending
    /\ retryDelayMs_' = delay

\* retry(): the socket is dropped and, if a connection is still wanted, a
\* timer is set.  delay and pending are retryDelayMs_ and timers as the
\* caller leaves them.
Retry(wanted, delay, pending) ==
    /\ connectSocket_' = FALSE
    /\ outcome' = "failed"
    /\ retry_' = (wanted \/ retry_)
    /\ timers' = IF wanted THEN pending + 1 ELSE pending
    /\ retryDelayMs_' = IF wanted THEN NextDelay(delay) ELSE delay

\* connecting(): a new watcher replaces, and so deletes, the old one, which
\* poll must neither hold nor have reported.
Connecting ==
    /\ connectSocket_' = TRUE
    /\ connecting_' = TRUE
    /\ watcher_' = "registered"
    /\ dangling' = (watcher_ = "registered" \/ revents_ # {})
    /\ outcome' = "none"

Queued(f) == f \in Range(functors) \cup Range(pendingFunctors_)

ResetQueued == Queued(Own("resetWatcher"))

\* connect(), called when a connection is wanted and no retry is due: in
\* progress, an error worth a retry, or any other error.
Connect(delay, pending) ==
    /\ overtaken' = (overtaken \/ ResetQueued)
    /\ \/ /\ Connecting
          /\ retry_' = FALSE
          /\ timers' = pending
          /\ retryDelayMs_' = delay
       \/ /\ Retry(TRUE, delay, pending)
          /\ UNCHANGED <<connecting_, watcher_, dangling>>
       \/ /\ connectSocket_' = FALSE
          /\ outcome' = "fatal"
          /\ retry_' = FALSE
          /\ timers' = pending
          /\ retryDelayMs_' = delay
          /\ UNCHANGED <<connecting_, watcher_, dangling>>

NoConnect == UNCHANGED <<connecting_, connectSocket_, watcher_, dangling, hist>>

\* Mutant: the watcher stays registered until it is deleted.
StopAndLeaveWatcher(queued) ==
    /\ pendingFunctors_' = Append(queued, Own("resetWatcher"))
    /\ connecting_' = FALSE
    /\ UNCHANGED watcher_

\* stopAndResetWatcher(): the watcher is taken out of poll; it is deleted
\* later, as this may be its own callback.  queued is pendingFunctors_ as the
\* caller leaves it.
StopAndResetWatcher(queued) ==
    /\ watcher_' = "idle"
    /\ pendingFunctors_' = Append(queued, Own("resetWatcher"))
    /\ connecting_' = FALSE

-----------------------------------------------------------------------------
(* The member functions, as parts of a callback of the loop's thread; the  *)
(* caller says what becomes of the batch, of the events and of pc.  What   *)
(* follows the use of a deleted watcher is undefined, and not modelled.    *)

StartInLoop ==
    /\ ~dangling
    /\ connect_' = TRUE
    /\ IF connect_ \/ retry_
       THEN NoConnect /\ UNCHANGED <<retry_, retryDelayMs_, timers>>
       ELSE Connect(retryDelayMs_, timers)
    /\ UNCHANGED pendingFunctors_

\* Mutant: stop() forgets the attempt in progress.
StopOnlyFlag(queued) ==
    /\ ~dangling
    /\ connect_' = FALSE
    /\ pendingFunctors_' = queued
    /\ UNCHANGED <<connecting_, retry_, retryDelayMs_, connectSocket_, watcher_,
                   timers, dangling, hist>>

\* A retry timer is left to run out.
StopInLoop(queued) ==
    /\ ~dangling
    /\ connect_' = FALSE
    /\ IF connect_ /\ connecting_
       THEN StopAndResetWatcher(queued) /\ connectSocket_' = FALSE
       ELSE /\ pendingFunctors_' = queued
            /\ UNCHANGED <<connecting_, watcher_, connectSocket_>>
    /\ UNCHANGED <<retry_, retryDelayMs_, timers, dangling, hist>>

MayRestart == connect_ /\ ~connecting_ /\ ~retry_

\* restart(), called when a connection has been lost.
Restart ==
    /\ ~dangling
    /\ IF MayRestart
       THEN Connect(kInitRetryDelayMs, timers)
       ELSE NoConnect /\ UNCHANGED <<retry_, retryDelayMs_, timers>>
    /\ UNCHANGED connect_

\* resetWatcher(): deletes the watcher; its destructor does not unregister.
ResetWatcher ==
    /\ ~dangling
    /\ watcher_' = "null"
    /\ dangling' = (watcher_ = "registered")
    /\ UNCHANGED <<flags, connectSocket_, pendingFunctors_, timers, hist>>

-----------------------------------------------------------------------------
(* Calls.                                                                  *)

HasRoom == Len(pendingFunctors_) < MaxQueue

\* start() and stop() from another thread.
Call(functor) ==
    /\ HasRoom
    /\ ~dangling
    /\ pendingFunctors_' = Append(pendingFunctors_, Own(functor))
    /\ UNCHANGED <<flags, connectSocket_, watcher_, revents_, pc, functors,
                   timers, dangling, hist>>

\* start(), stop() and restart() on the loop's thread run in place, in the
\* callback of some other watcher, timer or functor.
InPlace ==
    /\ pc \in {"poll", "functors"}
    /\ HasRoom
    /\ \/ StartInLoop
       \/ StopInLoop(pendingFunctors_)
       \/ Restart /\ UNCHANGED pendingFunctors_
    /\ UNCHANGED <<revents_, pc, functors>>

-----------------------------------------------------------------------------
(* The loop's iteration.                                                   *)

\* poll() returns; the connecting watcher is reported or not.
Poll(revents) ==
    /\ pc = "functors"
    /\ functors = <<>>
    /\ ~dangling
    /\ revents # {} => watcher_ = "registered"
    /\ revents_' = revents
    /\ pc' = "poll"
    /\ UNCHANGED <<flags, connectSocket_, watcher_, queues, timers, dangling,
                   hist>>

\* retrying(), called by its timer.  A timer set earlier in the same phase
\* may have run out, if another callback took long.
Retrying ==
    /\ pc = "poll"
    /\ ~dangling
    /\ timers > 0
    /\ IF connect_
       THEN Connect(retryDelayMs_, timers - 1)
       ELSE /\ retry_' = FALSE
            /\ timers' = timers - 1
            /\ UNCHANGED retryDelayMs_
            /\ NoConnect
    /\ UNCHANGED <<connect_, revents_, pc, queues>>

\* Mutant: the first callback does not keep the second one out.
StillConnectingAlways == TRUE

StillConnecting == connecting_

\* handleEvents() calls the error callback first.
HandleError ==
    /\ pc = "poll"
    /\ ~dangling
    /\ "POLLERR" \in revents_
    /\ revents_' = revents_ \ {"POLLERR"}
    /\ pc' = IF revents_' = {} THEN "poll" ELSE "events"
    /\ IF StillConnecting
       THEN /\ StopAndResetWatcher(pendingFunctors_)
            /\ Retry(connect_, retryDelayMs_, timers)
       ELSE UNCHANGED <<connecting_, retry_, retryDelayMs_, connectSocket_,
                        watcher_, pendingFunctors_, timers, outcome>>
    /\ UNCHANGED <<connect_, functors, dangling, overtaken>>

\* handleEvents() calls the write callback last.  error: SO_ERROR is set, or
\* the socket has connected to itself; otherwise the socket is handed over
\* to connectionCallback_.
HandleWrite(error) ==
    /\ ~dangling
    /\ revents_ = {"POLLOUT"}
    /\ revents_' = {}
    /\ pc' = "poll"
    /\ IF StillConnecting
       THEN /\ StopAndResetWatcher(pendingFunctors_)
            /\ IF error
               THEN Retry(connect_, retryDelayMs_, timers)
               ELSE /\ connectSocket_' = FALSE
                    /\ outcome' = "delivered"
                    /\ UNCHANGED <<retry_, timers, retryDelayMs_>>
       ELSE UNCHANGED <<connecting_, retry_, retryDelayMs_, connectSocket_,
                        watcher_, pendingFunctors_, timers, outcome>>
    /\ UNCHANGED <<connect_, functors, dangling, overtaken>>

DoPendingFunctors ==
    /\ pc = "poll"
    /\ revents_ = {}
    /\ ~dangling
    /\ functors' = pendingFunctors_
    /\ pendingFunctors_' = <<>>
    /\ pc' = "functors"
    /\ UNCHANGED <<flags, connectSocket_, watcher_, revents_, timers, dangling,
                   hist>>

RunFunctor ==
    /\ pc = "functors"
    /\ functors # <<>>
    /\ functors' = Tail(functors)
    /\ \/ Head(functors) = Own("startInLoop") /\ StartInLoop
       \/ Head(functors) = Own("stopInLoop") /\ StopInLoop(pendingFunctors_)
       \/ Head(functors) = Own("resetWatcher") /\ ResetWatcher
    /\ UNCHANGED <<revents_, pc>>

-----------------------------------------------------------------------------
Next ==
    \/ \E functor \in {"startInLoop", "stopInLoop"} : Call(functor)
    \/ InPlace
    \/ \E revents \in SUBSET Events : Poll(revents)
    \/ Retrying
    \/ HandleError
    \/ \E error \in BOOLEAN : HandleWrite(error)
    \/ DoPendingFunctors
    \/ RunFunctor

Spec == Init /\ [][Next]_vars

\* The loop goes round, and handles what poll() reports.  Timers run out.
\* poll() reports a socket whose handshake has ended.  The network is
\* assumed not to fail for ever: among infinitely many attempts some get
\* under way, and some of those succeed.
Fairness ==
    /\ WF_vars(\E revents \in SUBSET Events : Poll(revents))
    /\ WF_vars(HandleError)
    /\ WF_vars(\E error \in BOOLEAN : HandleWrite(error))
    /\ WF_vars(DoPendingFunctors)
    /\ WF_vars(RunFunctor)
    /\ SF_vars(Retrying)
    /\ SF_vars(Retrying /\ connecting_')
    /\ SF_vars(Poll({"POLLOUT"}))
    /\ SF_vars(HandleWrite(FALSE) /\ outcome' = "delivered")

FairSpec == Spec /\ Fairness

-----------------------------------------------------------------------------
(* Properties.                                                             *)

TypeOK ==
    /\ connect_ \in BOOLEAN
    /\ connecting_ \in BOOLEAN
    /\ retry_ \in BOOLEAN
    /\ retryDelayMs_ \in kInitRetryDelayMs..kMaxRetryDelayMs
    /\ connectSocket_ \in BOOLEAN
    /\ watcher_ \in {"null", "idle", "registered"}
    /\ revents_ \subseteq Events
    /\ pc \in {"poll", "events", "functors"}
    /\ functors \in Seq(Functors)
    /\ pendingFunctors_ \in Seq(Functors)
    /\ timers \in Nat
    /\ dangling \in BOOLEAN
    /\ outcome \in {"none", "failed", "fatal", "delivered"}
    /\ overtaken \in BOOLEAN

\* However start(), stop(), restart(), failures and timers interleave, there
\* is one retry timer when retry_ is set and none otherwise; so attempts
\* never multiply (retry, retrying, restart, startInLoop).
OneRetryTimer == timers = IF retry_ THEN 1 ELSE 0

\* An attempt in progress is wanted, is watched, and no retry competes with
\* it; a socket is held exactly while there is one (stopInLoop, handleError,
\* handleWrite, connect).
AttemptConsistent ==
    /\ connecting_ => connect_ /\ ~retry_ /\ (dangling \/ watcher_ = "registered")
    /\ connectSocket_ <=> connecting_

\* A wanted connection is never forgotten: it is being attempted, or a retry
\* is due, or the last attempt succeeded or failed for good.
KeepsTrying == connect_ => connecting_ \/ retry_ \/ outcome \in {"delivered", "fatal"}

\* The only way poll() is left with a deleted watcher is the one in which
\* connect() runs between stopAndResetWatcher() and its queued
\* resetWatcher(), which then deletes the watcher of the newer attempt.
DanglingOnlyIfOvertaken == dangling => overtaken

\* With a network that does not fail for ever, a wanted connection is made,
\* unless an error ends the attempts, or connect() overtakes a reset.
Connected ==
    connect_ ~> (outcome \in {"delivered", "fatal"} \/ ~connect_ \/ overtaken)
=============================================================================
