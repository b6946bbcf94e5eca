------------------------------- MODULE Poller -------------------------------
(***************************************************************************)
(* nutty::Poller (nutty/base/Poller.h): what a loop expects of a poller.   *)
(*                                                                         *)
(* A watcher wants some events of its descriptor.  poll() fills in a batch *)
(* of watchers, each with exactly what is there of what it wants, and the  *)
(* loop handles them one after the other.  Neither the batch nor what is   *)
(* in it changes when watchers change their minds while it is handled.     *)
(***************************************************************************)
EXTENDS Integers, FiniteSets, Sequences, Functions

CONSTANTS
    Watchers,
    Fds,           \* descriptors
    Conditions     \* what the kernel may find a descriptor in

ASSUME PollerAssumption ==
    /\ IsFiniteSet(Watchers)
    /\ \A c \in Conditions : c \subseteq {"IN", "OUT", "HUP", "ERR"}

VARIABLES
    fd_,               \* the descriptor of each watcher, which stays the same
    events_,           \* the events each watcher wants
    ready,             \* the condition of each descriptor
    activeWatchers_    \* the rest of the batch, each with its revents_

pollerVars == <<fd_, events_, ready, activeWatchers_>>

\* What poll(2) and epoll_wait(2) tell of a descriptor: errors and hang-ups
\* are reported whether asked for or not.
Found(fd, events) == ready[fd] \cap (events \cup {"HUP", "ERR"})

PollerInit ==
    /\ fd_ \in [Watchers -> Fds]
    /\ events_ = [w \in Watchers |-> {}]
    /\ ready \in [Fds -> Conditions]
    /\ activeWatchers_ = <<>>

\* Watchers that have something to be told.
Due == {w \in Watchers : events_[w] # {} /\ Found(fd_[w], events_[w]) # {}}

Active(w, revents) == [watcher |-> w, revents |-> revents]

\* Some of the due watchers, each once.
PollerPolls ==
    /\ activeWatchers_ = <<>>
    /\ \E told \in (SUBSET Due) \ {{}} :
       \E order \in Bijection(1..Cardinality(told), told) :
           activeWatchers_' =
               [i \in 1..Cardinality(told) |->
                    Active(order[i], Found(fd_[order[i]], events_[order[i]]))]
    /\ UNCHANGED <<fd_, events_, ready>>

\* The next watcher of the batch; its callbacks are the steps that follow.
HandleEvents ==
    /\ activeWatchers_ # <<>>
    /\ activeWatchers_' = Tail(activeWatchers_)
    /\ UNCHANGED <<fd_, events_, ready>>

PollerWatches(w, events) ==
    /\ events_' = [events_ EXCEPT ![w] = events]
    /\ UNCHANGED <<fd_, ready, activeWatchers_>>

\* Data or room comes and goes, peers close.
KernelChanges(fd, condition) ==
    /\ ready' = [ready EXCEPT ![fd] = condition]
    /\ UNCHANGED <<fd_, events_, activeWatchers_>>

PollerNext ==
    \/ PollerPolls
    \/ HandleEvents
    \/ \E w \in Watchers, events \in SUBSET {"IN", "OUT"} :
           PollerWatches(w, events)
    \/ \E fd \in Fds, condition \in Conditions : KernelChanges(fd, condition)

PollerSpec == PollerInit /\ [][PollerNext]_pollerVars
=============================================================================
