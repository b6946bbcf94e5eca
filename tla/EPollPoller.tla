----------------------------- MODULE EPollPoller -----------------------------
(***************************************************************************)
(* nutty::EPollPoller (nutty/base/poller/EPollPoller.h, EPollPoller.cpp):  *)
(* the interest list is the kernel's, and each entry carries the pointer   *)
(* to its watcher.  epoll_wait(2) fills an array that may be too short;    *)
(* which of the ready descriptors it then reports is left open.            *)
(***************************************************************************)
EXTENDS Poller

CONSTANT kEventSizeInit

ASSUME EventSizeAssumption == kEventSizeInit \in Nat \ {0}

VARIABLES
    interest,     \* the kernel's list: descriptor -> events and data.ptr
    eventSize     \* events_.size()

epollVars == <<interest, eventSize>>

EPollInit ==
    /\ interest = <<>>
    /\ eventSize = kEventSizeInit

\* epoll_ctl(): adding what is there, and changing or deleting what is not,
\* fails, and the failure is ignored.
EPollAdd(w, events) ==
    /\ interest' =
           IF fd_[w] \in DOMAIN interest
           THEN interest
           ELSE [fd \in DOMAIN interest \cup {fd_[w]} |->
                    IF fd = fd_[w] THEN Active(w, events) ELSE interest[fd]]
    /\ UNCHANGED eventSize

EPollUpdate(w, events) ==
    /\ interest' =
           IF fd_[w] \in DOMAIN interest
           THEN [interest EXCEPT ![fd_[w]] = Active(w, events)]
           ELSE interest
    /\ UNCHANGED eventSize

EPollRemove(w) ==
    /\ interest' = Restrict(interest, DOMAIN interest \ {fd_[w]})
    /\ UNCHANGED eventSize

\* Mutant: the array keeps its size.
GrownNever(numEvents) == eventSize

\* A full array is doubled.
Grown(numEvents) == IF numEvents = eventSize THEN eventSize * 2 ELSE eventSize

EPollPolls ==
    LET There(fd) == Found(fd, interest[fd].revents)
        some == {fd \in DOMAIN interest : There(fd) # {}}
        numEvents == IF Cardinality(some) < eventSize
                     THEN Cardinality(some) ELSE eventSize
    IN /\ some # {}
       /\ \E order \in Injection(1..numEvents, some) :
              activeWatchers_' =
                  [i \in 1..numEvents |->
                       Active(interest[order[i]].watcher, There(order[i]))]
       /\ eventSize' = Grown(numEvents)
       /\ UNCHANGED interest
=============================================================================
