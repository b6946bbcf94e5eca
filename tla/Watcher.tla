------------------------------- MODULE Watcher -------------------------------
(***************************************************************************)
(* nutty::Watcher (nutty/base/Watcher.h, Watcher.cpp) and the loop's part  *)
(* in it (EventLoop.cpp): watchers with either of the two pollers.         *)
(*                                                                         *)
(* Everything here happens on the loop's thread, but for the kernel.  A    *)
(* watcher changes its events in callbacks, of its own or of others in the *)
(* same batch, and in functors: at any point between two polls.            *)
(***************************************************************************)
EXTENDS PollPoller, EPollPoller

VARIABLES
    poller_,      \* the class of the loop's poller
    started_      \* the poller has been told of the watcher

watcherVars == <<poller_, started_>>
vars == <<pollerVars, pollVars, epollVars, watcherVars>>

Init ==
    /\ PollerInit
    /\ PollInit
    /\ EPollInit
    /\ poller_ \in {"PollPoller", "EPollPoller"}
    /\ started_ = [w \in Watchers |-> FALSE]

\* The virtual functions, through the loop.
AddWatcher(w, events) ==
    IF poller_ = "PollPoller"
    THEN PollAdd(w, events) /\ UNCHANGED epollVars
    ELSE EPollAdd(w, events) /\ UNCHANGED pollVars

UpdateWatcher(w, events) ==
    IF poller_ = "PollPoller"
    THEN PollUpdate(w, events) /\ UNCHANGED epollVars
    ELSE EPollUpdate(w, events) /\ UNCHANGED pollVars

RemoveWatcher(w) ==
    IF poller_ = "PollPoller"
    THEN PollRemove(w) /\ UNCHANGED epollVars
    ELSE EPollRemove(w) /\ UNCHANGED pollVars

\* A descriptor passes from one watcher to another, as from the connector's
\* to the connection's, only once the first is disabled.  Watchers that are
\* deleted while they are registered are not modelled here (see
\* DanglingOnlyIfOvertaken in Connector, DeletedUnwatched in TcpConnection).
Free(w) == \A v \in Watchers \ {w} : fd_[v] = fd_[w] => ~started_[v]

\* update(), with the events that an enable or disable function has set.
Update(w, events) ==
    /\ ~corrupted
    /\ Free(w)
    /\ events_' = [events_ EXCEPT ![w] = events]
    /\ started_' = [started_ EXCEPT ![w] = (events # {})]
    /\ CASE started_[w] /\ events = {} -> RemoveWatcher(w)
         [] started_[w] /\ events # {} -> UpdateWatcher(w, events)
         [] ~started_[w] /\ events # {} -> AddWatcher(w, events)
         [] OTHER -> UNCHANGED <<pollVars, epollVars>>
    /\ UNCHANGED <<fd_, ready, activeWatchers_, poller_>>

EnableReading(w) == Update(w, events_[w] \cup {"IN"})
DisableReading(w) == Update(w, events_[w] \ {"IN"})
EnableWriting(w) == Update(w, events_[w] \cup {"OUT"})
DisableWriting(w) == Update(w, events_[w] \ {"OUT"})
DisableAll(w) == Update(w, {})

\* poll(), when it finds something; otherwise nothing changes.
Poll ==
    /\ ~corrupted
    /\ activeWatchers_ = <<>>
    /\ IF poller_ = "PollPoller"
       THEN PollPolls /\ UNCHANGED epollVars
       ELSE EPollPolls /\ UNCHANGED pollVars
    /\ UNCHANGED <<fd_, events_, ready, watcherVars>>

Dispatch ==
    /\ ~corrupted
    /\ HandleEvents
    /\ UNCHANGED <<pollVars, epollVars, watcherVars>>

Kernel ==
    /\ ~corrupted
    /\ \E fd \in Fds, condition \in Conditions :
           ready[fd] # condition /\ KernelChanges(fd, condition)
    /\ UNCHANGED <<pollVars, epollVars, watcherVars>>

Next ==
    \/ \E w \in Watchers :
           \/ EnableReading(w) \/ DisableReading(w)
           \/ EnableWriting(w) \/ DisableWriting(w) \/ DisableAll(w)
    \/ Poll
    \/ Dispatch
    \/ Kernel

\* The loop goes on; nobody has to want anything.
Fairness == WF_vars(Poll) /\ WF_vars(Dispatch)

Spec == Init /\ [][Next]_vars
FairSpec == Spec /\ Fairness

-----------------------------------------------------------------------------
(* Properties.                                                             *)

\* With either poller the loop is told what watchers want to know, and
\* nothing else: only of watchers that were enabled when poll() was called,
\* each once and with the events it wanted by then, however entries were
\* moved when others were removed (PollPoller::removeWatcher), whichever
\* watcher had the descriptor before, and whatever a batch changes while it
\* is being handled.
ImplementsPoller == PollerSpec

\* A watcher that has something to be told for good is told again and again,
\* though the array for epoll_wait() may be too short for all that is ready
\* and the kernel may choose what to leave out (EPollPoller::poll).
AllAreTold ==
    \A w \in Watchers :
        <>[](w \in Due) => []<>(corrupted \/ \E i \in DOMAIN activeWatchers_ :
                                     activeWatchers_[i].watcher = w)
=============================================================================
