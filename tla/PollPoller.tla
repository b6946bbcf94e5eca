----------------------------- MODULE PollPoller -----------------------------
(***************************************************************************)
(* nutty::PollPoller (nutty/base/poller/PollPoller.h, PollPoller.cpp): the *)
(* array given to poll(2), with an index by descriptor.  An entry is       *)
(* removed by moving the last one into its place.                          *)
(*                                                                         *)
(* Indices start at 1 here.  revents of an entry is 0 outside poll() and   *)
(* is left out.                                                            *)
(***************************************************************************)
EXTENDS Poller

CONSTANT FreedIndex    \* other values the freed map node may hold when
                       \* removeWatcher() reads it

VARIABLES
    fds_,         \* the array of pollfd: descriptor and events
    pollfds_,     \* descriptor -> index in fds_
    watchers_,    \* descriptor -> watcher
    corrupted     \* pollfds_ got an index from a freed node that was not
                  \* the one it had held; nothing is said after that

pollVars == <<fds_, pollfds_, watchers_, corrupted>>

PollInit ==
    /\ fds_ = <<>>
    /\ pollfds_ = <<>>
    /\ watchers_ = <<>>
    /\ corrupted = FALSE

\* map[key] = value, and map.erase(key).
Assign(map, key, value) ==
    [k \in DOMAIN map \cup {key} |-> IF k = key THEN value ELSE map[k]]
Erase(map, key) == Restrict(map, DOMAIN map \ {key})

PollFd(w, events) == [fd |-> fd_[w], events |-> events]

PollAdd(w, events) ==
    /\ pollfds_' = Assign(pollfds_, fd_[w], Len(fds_) + 1)
    /\ fds_' = Append(fds_, PollFd(w, events))
    /\ watchers_' = Assign(watchers_, fd_[w], w)
    /\ UNCHANGED corrupted

\* Mutant: events are added and never taken away.
PollUpdateAdds(w, events) ==
    /\ fds_' = [fds_ EXCEPT ![pollfds_[fd_[w]]].events = @ \cup events]
    /\ UNCHANGED <<pollfds_, watchers_, corrupted>>

PollUpdate(w, events) ==
    /\ fds_' = IF fd_[w] \in DOMAIN pollfds_
               THEN [fds_ EXCEPT ![pollfds_[fd_[w]]].events = events]
               ELSE fds_
    /\ UNCHANGED <<pollfds_, watchers_, corrupted>>

\* The index of the entry that moves is read through an iterator whose node
\* has just been erased.
PollRemove(w) ==
    IF fd_[w] \notin DOMAIN pollfds_
    THEN UNCHANGED pollVars
    ELSE LET i == pollfds_[fd_[w]]
             last == Len(fds_)
             fd == fds_[i].fd
             moved == fds_[last].fd
         IN /\ watchers_' = Erase(watchers_, fd)
            /\ fds_' = SubSeq([fds_ EXCEPT ![i] = fds_[last]], 1, last - 1)
            /\ IF fd = moved
               THEN /\ pollfds_' = Erase(pollfds_, fd)
                    /\ UNCHANGED corrupted
               ELSE \E index \in {i} \cup FreedIndex :
                        /\ pollfds_' = Assign(Erase(pollfds_, fd), moved, index)
                        /\ corrupted' = (index # i)

\* poll() reports every entry in which there is something, in the order of
\* the array.
PollPolls ==
    LET There(k) == Found(fds_[k].fd, fds_[k].events)
        told == {k \in DOMAIN fds_ : There(k) # {}}
        numEvents == Cardinality(told)
    IN /\ told # {}
       /\ \E order \in Bijection(1..numEvents, told) :
              /\ \A i, j \in 1..numEvents : i < j => order[i] < order[j]
              /\ activeWatchers_' =
                     [i \in 1..numEvents |->
                          Active(watchers_[fds_[order[i]].fd], There(order[i]))]
       /\ UNCHANGED pollVars
=============================================================================
