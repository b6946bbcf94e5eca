---------------------------- MODULE WatcherProofs ----------------------------
(***************************************************************************)
(* Proofs about Watcher, for any watchers, descriptors and conditions and  *)
(* any initial size of the array of EPollPoller: with either poller, the   *)
(* watchers implement Poller.                                              *)
(*                                                                         *)
(* A step of the loop is one of Poller's if the poller's tables mirror     *)
(* what the watchers want.  Update() keeps them so, whichever entry moves, *)
(* as long as the freed map node still holds its index.                    *)
(***************************************************************************)
EXTENDS Watcher, FiniteSetTheorems, SequenceTheorems, TLAPS

Events == SUBSET {"IN", "OUT"}
PollFds == [fd : Fds, events : Events]

\* Types, and the poller knows of a watcher exactly if it wants something.
TypeOK ==
    /\ fd_ \in [Watchers -> Fds]
    /\ events_ \in [Watchers -> Events]
    /\ started_ = [w \in Watchers |-> events_[w] # {}]
    /\ poller_ \in {"PollPoller", "EPollPoller"}
    /\ eventSize \in Nat \ {0}

\* The watchers that the poller knows of have a descriptor each.
OneEach ==
    \A v, w \in Watchers : started_[v] /\ started_[w] /\ fd_[v] = fd_[w] => v = w

\* A started watcher and the descriptor and events that stand for it.
Stands(w, fd, events) ==
    w \in Watchers /\ started_[w] /\ fd_[w] = fd /\ events_[w] = events

\* PollPoller: every entry of the array is where the index says, and stands
\* for the watcher found under its descriptor; every started watcher has one.
PollTables ==
    /\ fds_ \in Seq(PollFds)
    /\ \A i \in 1..Len(fds_) :
           /\ fds_[i].fd \in DOMAIN pollfds_ /\ pollfds_[fds_[i].fd] = i
           /\ fds_[i].fd \in DOMAIN watchers_
           /\ Stands(watchers_[fds_[i].fd], fds_[i].fd, fds_[i].events)
    /\ \A fd \in DOMAIN pollfds_ :
           pollfds_[fd] \in 1..Len(fds_) /\ fds_[pollfds_[fd]].fd = fd
    /\ \A w \in Watchers : started_[w] => fd_[w] \in DOMAIN pollfds_

\* EPollPoller: the same of the kernel's list.
EPollTables ==
    /\ \A fd \in DOMAIN interest :
           /\ interest[fd] = Active(interest[fd].watcher, interest[fd].revents)
           /\ Stands(interest[fd].watcher, fd, interest[fd].revents)
    /\ \A w \in Watchers : started_[w] => fd_[w] \in DOMAIN interest

Inv ==
    /\ TypeOK
    /\ OneEach
    /\ ~corrupted => IF poller_ = "PollPoller" THEN PollTables ELSE EPollTables

-----------------------------------------------------------------------------
(* update()                                                                *)

\* A watcher that was not changed still stands for what it stood for.
LEMMA StandsKept ==
    ASSUME TypeOK, NEW w \in Watchers, NEW events,
           events_' = [events_ EXCEPT ![w] = events],
           started_' = [started_ EXCEPT ![w] = (events # {})],
           UNCHANGED fd_
    PROVE  /\ \A v, fd, e : Stands(v, fd, e) /\ v # w => Stands(v, fd, e)'
           /\ events # {} => Stands(w, fd_[w], events)'
           /\ \A v \in Watchers : started_'[v] <=> IF v = w THEN events # {} ELSE started_[v]
<1>1. /\ \A v \in Watchers : events_'[v] = IF v = w THEN events ELSE events_[v]
      /\ \A v \in Watchers : started_'[v] = IF v = w THEN (events # {}) ELSE started_[v]
  BY DEF TypeOK
<1> QED
  BY <1>1 DEF Stands

\* PollPoller::addWatcher() appends an entry for a descriptor that has none.
LEMMA PollAddTables ==
    ASSUME TypeOK, PollTables, NEW w \in Watchers, NEW events \in Events \ {{}},
           ~started_[w], Free(w), PollAdd(w, events),
           events_' = [events_ EXCEPT ![w] = events],
           started_' = [started_ EXCEPT ![w] = (events # {})],
           UNCHANGED fd_
    PROVE  PollTables'
<1> DEFINE n == Len(fds_)
           fd == fd_[w]
<1>0. fds_ \in Seq(PollFds) /\ n \in Nat /\ fd \in Fds
  BY DEF PollTables, TypeOK
<1>1. PollFd(w, events) \in PollFds
  BY <1>0 DEF PollFd, PollFds
<1>2. /\ fds_' \in Seq(PollFds)
      /\ Len(fds_') = n + 1
      /\ \A i \in 1..n : fds_'[i] = fds_[i]
      /\ fds_'[n + 1] = PollFd(w, events)
  BY <1>0, <1>1 DEF PollAdd
<1>3. /\ DOMAIN pollfds_' = DOMAIN pollfds_ \cup {fd}
      /\ \A k \in DOMAIN pollfds_ : k # fd => pollfds_'[k] = pollfds_[k]
      /\ pollfds_'[fd] = n + 1
      /\ DOMAIN watchers_' = DOMAIN watchers_ \cup {fd}
      /\ \A k \in DOMAIN watchers_ : k # fd => watchers_'[k] = watchers_[k]
      /\ watchers_'[fd] = w
  BY DEF PollAdd, Assign
<1>4. /\ \A v, k, e : Stands(v, k, e) /\ v # w => Stands(v, k, e)'
      /\ Stands(w, fd, events)'
      /\ \A v \in Watchers : started_'[v] <=> IF v = w THEN events # {} ELSE started_[v]
  BY StandsKept
<1>5. \A i \in 1..n : fds_[i].fd # fd /\ watchers_[fds_[i].fd] # w
  BY <1>0 DEF PollTables, Stands, Free
<1>6. PollFd(w, events).fd = fd /\ PollFd(w, events).events = events
  BY DEF PollFd
<1>7. ASSUME NEW i \in 1..(n + 1)
      PROVE  /\ fds_'[i].fd \in DOMAIN pollfds_' /\ pollfds_'[fds_'[i].fd] = i
             /\ fds_'[i].fd \in DOMAIN watchers_'
             /\ Stands(watchers_[fds_[i].fd], fds_[i].fd, fds_[i].events)'
  <2>1. CASE i = n + 1
    BY <2>1, <1>2, <1>3, <1>4, <1>6
  <2>2. CASE i # n + 1
    <3>1. i \in 1..n
      BY <2>2, <1>0
    <3>2. /\ fds_[i].fd \in DOMAIN pollfds_ /\ pollfds_[fds_[i].fd] = i
          /\ fds_[i].fd \in DOMAIN watchers_
          /\ Stands(watchers_[fds_[i].fd], fds_[i].fd, fds_[i].events)
      BY <3>1 DEF PollTables
    <3> QED
      BY <3>1, <3>2, <1>2, <1>3, <1>4, <1>5
  <2> QED
    BY <2>1, <2>2
<1>8. ASSUME NEW k \in DOMAIN pollfds_'
      PROVE  pollfds_'[k] \in 1..(n + 1) /\ fds_'[pollfds_'[k]].fd = k
  <2>1. CASE k = fd
    BY <2>1, <1>0, <1>2, <1>3, <1>6
  <2>2. CASE k # fd
    <3>1. k \in DOMAIN pollfds_ /\ pollfds_[k] \in 1..n /\ fds_[pollfds_[k]].fd = k
      BY <2>2, <1>3 DEF PollTables
    <3> QED
      BY <3>1, <2>2, <1>0, <1>2, <1>3
  <2> QED
    BY <2>1, <2>2
<1>9. \A v \in Watchers : started_'[v] => fd_'[v] \in DOMAIN pollfds_'
  BY <1>3, <1>4 DEF PollTables
<1> QED
  BY <1>2, <1>7, <1>8, <1>9 DEF PollTables

\* PollPoller::updateWatcher() changes the entry of the watcher.
LEMMA PollUpdateTables ==
    ASSUME TypeOK, OneEach, PollTables, NEW w \in Watchers, NEW events \in Events \ {{}},
           started_[w], PollUpdate(w, events),
           events_' = [events_ EXCEPT ![w] = events],
           started_' = [started_ EXCEPT ![w] = (events # {})],
           UNCHANGED fd_
    PROVE  PollTables'
<1> DEFINE n == Len(fds_)
           fd == fd_[w]
           p == pollfds_[fd]
<1>0. /\ fds_ \in Seq(PollFds) /\ n \in Nat /\ fd \in Fds
      /\ fd \in DOMAIN pollfds_ /\ p \in 1..n /\ fds_[p].fd = fd
  BY DEF PollTables, TypeOK
<1>1. fds_' = [fds_ EXCEPT ![p].events = events]
  BY <1>0 DEF PollUpdate
<1>2. /\ fds_' \in Seq(PollFds)
      /\ Len(fds_') = n
      /\ \A i \in 1..n : fds_'[i].fd = fds_[i].fd
      /\ \A i \in 1..n : i # p => fds_'[i] = fds_[i]
      /\ fds_'[p].events = events
  <2> DEFINE entry == [fds_[p] EXCEPT !.events = events]
  <2>1. fds_[p] \in PollFds
    BY <1>0, ElementOfSeq
  <2>2. /\ entry \in PollFds
        /\ entry.fd = fds_[p].fd /\ entry.events = events
    BY <2>1 DEF PollFds
  <2>3. fds_' = [fds_ EXCEPT ![p] = entry]
    BY <1>1
  <2> HIDE DEF entry
  <2> QED
    BY <1>0, <2>2, <2>3
<1>3. /\ \A v, k, e : Stands(v, k, e) /\ v # w => Stands(v, k, e)'
      /\ Stands(w, fd, events)'
      /\ \A v \in Watchers : started_'[v] <=> IF v = w THEN events # {} ELSE started_[v]
  BY StandsKept
<1>4. pollfds_' = pollfds_ /\ watchers_' = watchers_ /\ fd_' = fd_
  BY DEF PollUpdate
<1>5. ASSUME NEW i \in 1..n
      PROVE  Stands(watchers_[fds_[i].fd], fds_[i].fd, fds_[i].events)'
  <2>1. /\ Stands(watchers_[fds_[i].fd], fds_[i].fd, fds_[i].events)
        /\ pollfds_[fds_[i].fd] = i
    BY DEF PollTables
  <2>2. CASE i = p
    <3>1. watchers_[fd] = w
      BY <2>1, <2>2, <1>0 DEF Stands, OneEach
    <3> QED
      BY <3>1, <2>2, <1>0, <1>2, <1>3, <1>4
  <2>3. CASE i # p
    <3>1. watchers_[fds_[i].fd] # w
      BY <2>1, <2>3 DEF Stands
    <3> QED
      BY <3>1, <2>1, <2>3, <1>2, <1>3, <1>4
  <2> QED
    BY <2>2, <2>3
<1> QED
  BY <1>2, <1>3, <1>4, <1>5 DEF PollTables
\* PollPoller::removeWatcher() moves the last entry into the place of the
\* removed one, and if the freed node still holds its index, corrects the
\* index of the moved one.
LEMMA PollRemoveTables ==
    ASSUME TypeOK, OneEach, PollTables, NEW w \in Watchers, started_[w],
           PollRemove(w), ~corrupted', ~corrupted,
           events_' = [events_ EXCEPT ![w] = {}],
           started_' = [started_ EXCEPT ![w] = FALSE],
           UNCHANGED fd_
    PROVE  PollTables'
<1> DEFINE last == Len(fds_)
           fd == fd_[w]
           p == pollfds_[fd]
           moved == fds_[last].fd
<1>0. /\ fds_ \in Seq(PollFds) /\ last \in Nat /\ fd \in Fds
      /\ fd \in DOMAIN pollfds_ /\ p \in 1..last /\ fds_[p].fd = fd
      /\ last \in 1..last
  BY DEF PollTables, TypeOK
<1>1. /\ watchers_' = Erase(watchers_, fd)
      /\ fds_' = SubSeq([fds_ EXCEPT ![p] = fds_[last]], 1, last - 1)
      /\ fd = moved => pollfds_' = Erase(pollfds_, fd)
      /\ fd # moved => pollfds_' = Assign(Erase(pollfds_, fd), moved, p)
  BY <1>0 DEF PollRemove
<1>2. /\ fds_' \in Seq(PollFds)
      /\ Len(fds_') = last - 1
      /\ \A i \in 1..(last - 1) : fds_'[i] = IF i = p THEN fds_[last] ELSE fds_[i]
  <2> DEFINE s == [fds_ EXCEPT ![p] = fds_[last]]
  <2>1. /\ s \in Seq(PollFds) /\ Len(s) = last
        /\ \A i \in 1..last : s[i] = IF i = p THEN fds_[last] ELSE fds_[i]
    <3>1. fds_[last] \in PollFds
      BY <1>0, ElementOfSeq
    <3> QED
      BY <3>1, <1>0, ExceptSeq
  <2>2. fds_' = SubSeq(s, 1, last - 1)
    BY <1>1
  <2> HIDE DEF s
  <2>3. \A i \in 1..(last - 1) : s[i] \in PollFds
    BY <1>0, <2>1, ElementOfSeq
  <2>4. /\ SubSeq(s, 1, last - 1) \in Seq(PollFds)
        /\ Len(SubSeq(s, 1, last - 1)) = last - 1
        /\ \A i \in 1..(last - 1) : SubSeq(s, 1, last - 1)[i] = s[i]
    <3>1. 1 \in Int /\ last - 1 \in Int /\ last - 1 >= 0
      BY <1>0
    <3> HIDE DEF last
    <3>2. /\ SubSeq(s, 1, last - 1) \in Seq(PollFds)
          /\ Len(SubSeq(s, 1, last - 1)) = IF 1 <= last - 1 THEN (last - 1) - 1 + 1 ELSE 0
          /\ \A i \in 1..((last - 1) - 1 + 1) : SubSeq(s, 1, last - 1)[i] = s[1 + i - 1]
      BY <3>1, <2>3, SubSeqProperties
    <3> QED
      BY <3>1, <3>2
  <2> QED
    BY <1>0, <2>1, <2>2, <2>4
<1>3. /\ DOMAIN watchers_' = DOMAIN watchers_ \ {fd}
      /\ \A k \in DOMAIN watchers_ : k # fd => watchers_'[k] = watchers_[k]
  BY <1>1 DEF Erase, Restrict
<1>4. moved \in DOMAIN pollfds_ /\ pollfds_[moved] = last
  BY <1>0 DEF PollTables
<1>5. /\ DOMAIN pollfds_' = DOMAIN pollfds_ \ {fd}
      /\ \A k \in DOMAIN pollfds_ :
             k # fd => pollfds_'[k] = IF k = moved THEN p ELSE pollfds_[k]
  <2>1. CASE fd = moved
    BY <2>1, <1>1 DEF Erase, Restrict
  <2>2. CASE fd # moved
    BY <2>2, <1>1, <1>4 DEF Assign, Erase, Restrict
  <2> QED
    BY <2>1, <2>2
<1>6. /\ \A v, k, e : Stands(v, k, e) /\ v # w => Stands(v, k, e)'
      /\ \A v \in Watchers : started_'[v] <=> v # w /\ started_[v]
  BY StandsKept, Zenon
<1>7. ASSUME NEW i \in 1..(last - 1)
      PROVE  /\ fds_'[i].fd \in DOMAIN pollfds_' /\ pollfds_'[fds_'[i].fd] = i
             /\ fds_'[i].fd \in DOMAIN watchers_'
             /\ Stands(watchers_[fds_[i].fd], fds_[i].fd, fds_[i].events)'
  <2> DEFINE o == IF i = p THEN last ELSE i
  <2>1. o \in 1..last /\ o # p /\ fds_'[i] = fds_[o]
    BY <1>0, <1>2
  <2>2. /\ fds_[o].fd \in DOMAIN pollfds_ /\ pollfds_[fds_[o].fd] = o
        /\ fds_[o].fd \in DOMAIN watchers_
        /\ Stands(watchers_[fds_[o].fd], fds_[o].fd, fds_[o].events)
    BY <2>1 DEF PollTables
  <2>3. fds_[o].fd # fd
    BY <2>1, <2>2
  <2>4. watchers_[fds_[o].fd] # w
    BY <2>2, <2>3 DEF Stands
  <2>5. pollfds_'[fds_[o].fd] = i
    BY <1>0, <1>4, <1>5, <2>1, <2>2, <2>3
  <2> HIDE DEF o
  <2> QED
    BY <2>1, <2>2, <2>3, <2>4, <2>5, <1>3, <1>5, <1>6
<1>8. ASSUME NEW k \in DOMAIN pollfds_'
      PROVE  pollfds_'[k] \in 1..(last - 1) /\ fds_'[pollfds_'[k]].fd = k
  <2>1. k \in DOMAIN pollfds_ /\ k # fd /\ pollfds_[k] \in 1..last /\ fds_[pollfds_[k]].fd = k
    BY <1>5 DEF PollTables
  <2>2. CASE k = moved
    <3>1. p # last
      BY <2>1, <2>2, <1>0
    <3> QED
      BY <3>1, <2>1, <2>2, <1>0, <1>2, <1>5
  <2>3. CASE k # moved
    <3>1. pollfds_[k] # last /\ pollfds_[k] # p
      BY <2>1, <2>3, <1>0
    <3> QED
      BY <3>1, <2>1, <2>3, <1>0, <1>2, <1>5
  <2> QED
    BY <2>2, <2>3
<1>9. \A v \in Watchers : started_'[v] => fd_'[v] \in DOMAIN pollfds_'
  BY <1>5, <1>6 DEF PollTables, OneEach
<1> QED
  BY <1>2, <1>7, <1>8, <1>9 DEF PollTables

\* EPollPoller: the list has an entry for the descriptor exactly if the
\* watcher is started, so that epoll_ctl() does not fail.
LEMMA EPollTablesKept ==
    ASSUME TypeOK, OneEach, EPollTables, NEW w \in Watchers, NEW events \in Events,
           Free(w),
           events_' = [events_ EXCEPT ![w] = events],
           started_' = [started_ EXCEPT ![w] = (events # {})],
           UNCHANGED fd_,
           \/ ~started_[w] /\ events # {} /\ EPollAdd(w, events)
           \/ started_[w] /\ events # {} /\ EPollUpdate(w, events)
           \/ started_[w] /\ events = {} /\ EPollRemove(w)
           \/ ~started_[w] /\ events = {} /\ UNCHANGED interest
    PROVE  EPollTables'
<1> DEFINE fd == fd_[w]
<1>1. /\ \A v, k, e : Stands(v, k, e) /\ v # w => Stands(v, k, e)'
      /\ events # {} => Stands(w, fd, events)'
      /\ \A v \in Watchers : started_'[v] <=> IF v = w THEN events # {} ELSE started_[v]
  BY StandsKept
<1>2. fd \in DOMAIN interest <=> started_[w]
  BY DEF EPollTables, Stands, Free
<1>3. \A k \in DOMAIN interest : k # fd => interest[k].watcher # w
  BY DEF EPollTables, Stands
<1>4. /\ Active(w, events).watcher = w /\ Active(w, events).revents = events
  BY DEF Active
<1>5. /\ DOMAIN interest' = IF events # {} THEN DOMAIN interest \cup {fd}
                            ELSE DOMAIN interest \ {fd}
      /\ \A k \in DOMAIN interest : k # fd => interest'[k] = interest[k]
      /\ events # {} => interest'[fd] = Active(w, events)
  <2>1. CASE ~started_[w] /\ events # {} /\ EPollAdd(w, events)
    BY <2>1, <1>2 DEF EPollAdd
  <2>2. CASE started_[w] /\ events # {} /\ EPollUpdate(w, events)
    BY <2>2, <1>2 DEF EPollUpdate
  <2>3. CASE started_[w] /\ events = {} /\ EPollRemove(w)
    BY <2>3 DEF EPollRemove, Restrict
  <2>4. CASE ~started_[w] /\ events = {} /\ UNCHANGED interest
    BY <2>4, <1>2
  <2> QED
    BY <2>1, <2>2, <2>3, <2>4
<1>6. ASSUME NEW k \in DOMAIN interest'
      PROVE  /\ interest'[k] = Active(interest'[k].watcher, interest'[k].revents)
             /\ Stands(interest[k].watcher, k, interest[k].revents)'
  <2>1. CASE k = fd
    BY <2>1, <1>1, <1>4, <1>5
  <2>2. CASE k # fd
    BY <2>2, <1>1, <1>3, <1>5 DEF EPollTables
  <2> QED
    BY <2>1, <2>2
<1>7. \A v \in Watchers : started_'[v] => fd_'[v] \in DOMAIN interest'
  BY <1>1, <1>5 DEF EPollTables, OneEach, Free
<1> QED
  BY <1>6, <1>7 DEF EPollTables, Active
\* Watcher::update() with either poller.
LEMMA UpdateInv ==
    ASSUME Inv, NEW w \in Watchers, NEW events \in Events, Update(w, events)
    PROVE  Inv'
<1>0. /\ TypeOK /\ OneEach /\ ~corrupted /\ Free(w)
      /\ events_' = [events_ EXCEPT ![w] = events]
      /\ started_' = [started_ EXCEPT ![w] = (events # {})]
      /\ fd_' = fd_ /\ poller_' = poller_
  BY DEF Inv, Update
<1>1. /\ started_[w] /\ events = {} => RemoveWatcher(w)
      /\ started_[w] /\ events # {} => UpdateWatcher(w, events)
      /\ ~started_[w] /\ events # {} => AddWatcher(w, events)
      /\ ~started_[w] /\ events = {} => UNCHANGED <<pollVars, epollVars>>
  BY DEF Update
<1>2. eventSize' = eventSize
  BY <1>1 DEF RemoveWatcher, UpdateWatcher, AddWatcher, epollVars, EPollAdd, EPollUpdate,
              EPollRemove
<1>3. TypeOK'
  <2>1. started_' = [v \in Watchers |-> events_'[v] # {}]
    BY <1>0 DEF TypeOK
  <2> QED
    BY <1>0, <1>2, <2>1 DEF TypeOK
<1>4. OneEach'
  BY <1>0 DEF TypeOK, OneEach, Free
<1>5. ASSUME ~corrupted', poller_ = "PollPoller" PROVE PollTables'
  <2>0. PollTables
    BY <1>0, <1>5 DEF Inv
  <2>1. CASE started_[w] /\ events = {}
    <3>1. PollRemove(w) /\ started_' = [started_ EXCEPT ![w] = FALSE]
      BY <2>1, <1>0, <1>1, <1>5 DEF RemoveWatcher
    <3> QED
      BY <3>1, <2>0, <2>1, <1>0, <1>5, PollRemoveTables
  <2>2. CASE started_[w] /\ events # {}
    <3>1. PollUpdate(w, events)
      BY <2>2, <1>1, <1>5 DEF UpdateWatcher
    <3> QED
      BY <3>1, <2>0, <2>2, <1>0, PollUpdateTables
  <2>3. CASE ~started_[w] /\ events # {}
    <3>1. PollAdd(w, events)
      BY <2>3, <1>1, <1>5 DEF AddWatcher
    <3> QED
      BY <3>1, <2>0, <2>3, <1>0, PollAddTables
  <2>4. CASE ~started_[w] /\ events = {}
    <3>1. /\ UNCHANGED <<fds_, pollfds_, watchers_>>
          /\ \A v, fd, e : Stands(v, fd, e) /\ v # w => Stands(v, fd, e)'
          /\ \A v \in Watchers : started_'[v] <=> v # w /\ started_[v]
      BY <2>4, <1>0, <1>1, StandsKept DEF pollVars
    <3>2. \A i \in 1..Len(fds_) : watchers_[fds_[i].fd] # w
      BY <2>0, <2>4 DEF PollTables, Stands
    <3> QED
      BY <3>1, <3>2, <2>0, <1>0 DEF PollTables
  <2> QED
    BY <2>1, <2>2, <2>3, <2>4
<1>6. ASSUME poller_ # "PollPoller" PROVE EPollTables'
  <2>1. EPollTables
    BY <1>0, <1>6 DEF Inv
  <2>2. \/ ~started_[w] /\ events # {} /\ EPollAdd(w, events)
        \/ started_[w] /\ events # {} /\ EPollUpdate(w, events)
        \/ started_[w] /\ events = {} /\ EPollRemove(w)
        \/ ~started_[w] /\ events = {} /\ UNCHANGED interest
    BY <1>1, <1>6 DEF RemoveWatcher, UpdateWatcher, AddWatcher, epollVars
  <2> QED
    BY <2>1, <2>2, <1>0, EPollTablesKept
<1> QED
  BY <1>0, <1>3, <1>4, <1>5, <1>6 DEF Inv

\* The enable and disable functions set events that can be wanted.
LEMMA UpdateOnly ==
    ASSUME TypeOK, NEW w \in Watchers,
           \/ EnableReading(w) \/ DisableReading(w)
           \/ EnableWriting(w) \/ DisableWriting(w) \/ DisableAll(w)
    PROVE  \E events \in Events : Update(w, events)
<1>1. /\ events_[w] \cup {"IN"} \in Events /\ events_[w] \ {"IN"} \in Events
      /\ events_[w] \cup {"OUT"} \in Events /\ events_[w] \ {"OUT"} \in Events
      /\ {} \in Events
  BY DEF TypeOK, Events
<1> QED
  BY <1>1 DEF EnableReading, DisableReading, EnableWriting, DisableWriting, DisableAll

-----------------------------------------------------------------------------
(* poll()                                                                  *)

\* A batch of different watchers, each of which is due, is one that Poller
\* allows.
LEMMA Batch ==
    ASSUME NEW n \in Nat \ {0}, NEW order \in [1..n -> Due],
           \A i, j \in 1..n : order[i] = order[j] => i = j,
           activeWatchers_ = <<>>,
           activeWatchers_' =
               [i \in 1..n |-> Active(order[i], Found(fd_[order[i]], events_[order[i]]))],
           UNCHANGED <<fd_, events_, ready>>
    PROVE  PollerPolls
<1> DEFINE told == {order[i] : i \in 1..n}
<1>1. order \in [1..n -> told]
  OBVIOUS
<1>2. order \in Bijection(1..n, told)
  BY <1>1 DEF Bijection, Injection, Surjection, IsInjective
<1>3. Cardinality(told) = n
  BY <1>2, FS_CountingElements DEF ExistsBijection
<1>4. told \in SUBSET Due /\ told # {}
  <2>1. 1 \in 1..n
    OBVIOUS
  <2>2. \A i \in 1..n : order[i] \in Due
    OBVIOUS
  <2> QED
    BY <2>1, <2>2
<1> HIDE DEF told
<1> QED
  <2>1. /\ told \in (SUBSET Due) \ {{}}
        /\ order \in Bijection(1..Cardinality(told), told)
        /\ activeWatchers_' =
               [i \in 1..Cardinality(told) |->
                    Active(order[i], Found(fd_[order[i]], events_[order[i]]))]
    BY <1>2, <1>3, <1>4
  <2> QED
    BY <2>1 DEF PollerPolls

\* A watcher that stands for a descriptor in which there is something is due.
LEMMA StandsDue ==
    ASSUME TypeOK, NEW w, NEW fd, NEW events, Stands(w, fd, events),
           Found(fd, events) # {}
    PROVE  w \in Due /\ Found(fd, events) = Found(fd_[w], events_[w])
BY DEF Stands, Due, TypeOK

\* PollPoller::poll()
LEMMA PollPollsBatch ==
    ASSUME TypeOK, PollTables, activeWatchers_ = <<>>, PollPolls,
           UNCHANGED <<fd_, events_, ready>>
    PROVE  PollerPolls
<1> DEFINE There(k) == Found(fds_[k].fd, fds_[k].events)
           told == {k \in DOMAIN fds_ : There(k) # {}}
           n == Cardinality(told)
<1>0. told \subseteq 1..Len(fds_) /\ Len(fds_) \in Nat
  BY DEF PollTables
<1>1. IsFiniteSet(told) /\ n \in Nat
  <2>1. IsFiniteSet(1..Len(fds_))
    BY <1>0, FS_Interval
  <2>2. IsFiniteSet(told)
    BY <2>1, <1>0, FS_Subset
  <2> QED
    BY <2>2, FS_CardinalityType
<1>2. PICK from \in Bijection(1..n, told) :
          activeWatchers_' =
              [i \in 1..n |-> Active(watchers_[fds_[from[i]].fd], There(from[i]))]
  BY DEF PollPolls
<1>3. n # 0
  BY <1>1, FS_EmptySet DEF PollPolls
<1>4. /\ from \in [1..n -> told]
      /\ \A i, j \in 1..n : from[i] = from[j] => i = j
  BY <1>2 DEF Bijection, Injection, IsInjective
<1> DEFINE order == [i \in 1..n |-> watchers_[fds_[from[i]].fd]]
<1>5. \A k \in told : /\ pollfds_[fds_[k].fd] = k
                      /\ Stands(watchers_[fds_[k].fd], fds_[k].fd, fds_[k].events)
                      /\ There(k) # {}
  BY <1>0 DEF PollTables
<1>6. \A i \in 1..n : /\ order[i] \in Due
                      /\ There(from[i]) = Found(fd_[order[i]], events_[order[i]])
                      /\ pollfds_[fd_[order[i]]] = from[i]
  <2> SUFFICES ASSUME NEW i \in 1..n
               PROVE  /\ order[i] \in Due
                      /\ There(from[i]) = Found(fd_[order[i]], events_[order[i]])
                      /\ pollfds_[fd_[order[i]]] = from[i]
    OBVIOUS
  <2> DEFINE k == from[i]
             w == watchers_[fds_[k].fd]
  <2>1. order[i] = w /\ k \in told
    BY <1>4
  <2>2. /\ pollfds_[fds_[k].fd] = k
        /\ Stands(w, fds_[k].fd, fds_[k].events)
        /\ There(k) # {}
    BY <2>1, <1>5
  <2>3. w \in Due /\ There(k) = Found(fd_[w], events_[w])
    BY <2>2, StandsDue
  <2>4. fd_[w] = fds_[k].fd
    BY <2>2 DEF Stands
  <2> HIDE DEF order, There
  <2> QED
    BY <2>1, <2>2, <2>3, <2>4
<1>7. /\ order \in [1..n -> Due]
      /\ \A i, j \in 1..n : order[i] = order[j] => i = j
  <2>1. order = [i \in 1..n |-> order[i]]
    OBVIOUS
  <2> HIDE DEF order, n, There, told
  <2> QED
    BY <2>1, <1>4, <1>6
<1>8. activeWatchers_' =
          [i \in 1..n |-> Active(order[i], Found(fd_[order[i]], events_[order[i]]))]
  BY <1>2, <1>6
<1> HIDE DEF order, n
<1> QED
  BY <1>1, <1>3, <1>7, <1>8, Batch

\* EPollPoller::poll(), whose array has at least one place.
LEMMA EPollPollsBatch ==
    ASSUME TypeOK, EPollTables, activeWatchers_ = <<>>, EPollPolls,
           UNCHANGED <<fd_, events_, ready>>
    PROVE  PollerPolls /\ eventSize' \in Nat \ {0}
<1> DEFINE There(fd) == Found(fd, interest[fd].revents)
           some == {fd \in DOMAIN interest : There(fd) # {}}
           n == IF Cardinality(some) < eventSize THEN Cardinality(some) ELSE eventSize
<1>0. \A fd \in some : /\ Stands(interest[fd].watcher, fd, interest[fd].revents)
                       /\ There(fd) # {}
  BY DEF EPollTables
<1>1. IsFiniteSet(some)
  <2>1. IsFiniteSet({fd_[w] : w \in Watchers})
    <3> DEFINE fds == {fd_[w] : w \in Watchers}
    <3>1. fd_ \in Surjection(Watchers, fds)
      BY DEF TypeOK, Surjection
    <3> QED
      BY <3>1, PollerAssumption, FS_Surjection
  <2>2. some \subseteq {fd_[w] : w \in Watchers}
    BY <1>0 DEF Stands
  <2> QED
    BY <2>1, <2>2, FS_Subset
<1>2. Cardinality(some) \in Nat /\ Cardinality(some) # 0
  BY <1>1, FS_CardinalityType, FS_EmptySet DEF EPollPolls
<1>3. n \in Nat \ {0}
  BY <1>2 DEF TypeOK
<1>4. PICK from \in Injection(1..n, some) :
          activeWatchers_' =
              [i \in 1..n |-> Active(interest[from[i]].watcher, There(from[i]))]
  BY DEF EPollPolls
<1>5. /\ from \in [1..n -> some]
      /\ \A i, j \in 1..n : from[i] = from[j] => i = j
  BY <1>4 DEF Injection, IsInjective
<1> DEFINE order == [i \in 1..n |-> interest[from[i]].watcher]
<1>6. \A i \in 1..n : /\ order[i] \in Due
                      /\ There(from[i]) = Found(fd_[order[i]], events_[order[i]])
                      /\ fd_[order[i]] = from[i]
  <2> SUFFICES ASSUME NEW i \in 1..n
               PROVE  /\ order[i] \in Due
                      /\ There(from[i]) = Found(fd_[order[i]], events_[order[i]])
                      /\ fd_[order[i]] = from[i]
    OBVIOUS
  <2> DEFINE k == from[i]
             w == interest[k].watcher
  <2>1. order[i] = w /\ k \in some
    BY <1>5
  <2>2. Stands(w, k, interest[k].revents) /\ There(k) # {}
    BY <2>1, <1>0
  <2>3. w \in Due /\ There(k) = Found(fd_[w], events_[w])
    BY <2>2, StandsDue
  <2>4. fd_[w] = k
    BY <2>2 DEF Stands
  <2> HIDE DEF order, There
  <2> QED
    BY <2>1, <2>3, <2>4
<1>7. /\ order \in [1..n -> Due]
      /\ \A i, j \in 1..n : order[i] = order[j] => i = j
  <2>1. order = [i \in 1..n |-> order[i]]
    OBVIOUS
  <2> HIDE DEF order, n, There, some
  <2> QED
    BY <2>1, <1>5, <1>6
<1>8. activeWatchers_' =
          [i \in 1..n |-> Active(order[i], Found(fd_[order[i]], events_[order[i]]))]
  BY <1>4, <1>6
<1>9. eventSize' \in Nat \ {0}
  BY DEF EPollPolls, Grown, TypeOK
<1> HIDE DEF order, n
<1> QED
  BY <1>3, <1>7, <1>8, <1>9, Batch

-----------------------------------------------------------------------------
(* Theorems.                                                               *)

\* No watcher is started, and the tables are empty.
LEMMA InvInit == Init => Inv
<1> SUFFICES ASSUME Init PROVE Inv
  OBVIOUS
<1>1. TypeOK /\ OneEach
  BY EventSizeAssumption DEF Init, PollerInit, EPollInit, TypeOK, OneEach, Events
<1>2. PollTables
  BY DEF Init, PollInit, PollTables
<1>3. EPollTables
  BY DEF Init, EPollInit, EPollTables
<1> QED
  BY <1>1, <1>2, <1>3 DEF Inv

\* Inv is kept by a step that leaves watchers and tables alone.
LEMMA InvKept ==
    ASSUME Inv, UNCHANGED <<fd_, events_, started_, poller_, pollVars, interest>>,
           eventSize' \in Nat \ {0}
    PROVE  Inv'
<1>1. UNCHANGED <<fds_, pollfds_, watchers_, corrupted>>
  BY DEF pollVars
<1>2. TypeOK' /\ OneEach'
  BY DEF Inv, TypeOK, OneEach
<1>3. PollTables => PollTables'
  BY <1>1 DEF PollTables, Stands
<1>4. EPollTables => EPollTables'
  BY DEF EPollTables, Stands
<1> QED
  BY <1>1, <1>2, <1>3, <1>4 DEF Inv

\* Every step keeps the tables, and is a step of Poller or changes nothing
\* that Poller knows of.
LEMMA PollerStep ==
    ASSUME Inv, [Next]_vars
    PROVE  Inv' /\ [PollerNext]_pollerVars
<1>0. TypeOK
  BY DEF Inv
<1>1. ASSUME NEW w \in Watchers,
             \/ EnableReading(w) \/ DisableReading(w)
             \/ EnableWriting(w) \/ DisableWriting(w) \/ DisableAll(w)
      PROVE  Inv' /\ PollerNext
  <2>1. PICK events \in Events : Update(w, events)
    BY <1>0, <1>1, UpdateOnly
  <2>2. PollerWatches(w, events)
    BY <2>1 DEF Update, PollerWatches
  <2> QED
    BY <2>1, <2>2, UpdateInv DEF PollerNext, Events
<1>2. ASSUME Poll PROVE Inv' /\ PollerNext
  <2>0. /\ activeWatchers_ = <<>> /\ ~corrupted
        /\ UNCHANGED <<fd_, events_, ready, started_, poller_>>
    BY <1>2 DEF Poll, watcherVars
  <2>1. CASE poller_ = "PollPoller"
    <3>1. PollTables /\ PollPolls /\ UNCHANGED epollVars
      BY <2>0, <2>1, <1>2 DEF Inv, Poll
    <3>2. UNCHANGED <<pollVars, interest, eventSize>>
      BY <3>1 DEF PollPolls, epollVars
    <3>3. eventSize' \in Nat \ {0}
      BY <3>2, <1>0 DEF TypeOK
    <3> QED
      BY <3>1, <3>2, <3>3, <2>0, <1>0, PollPollsBatch, InvKept DEF PollerNext
  <2>2. CASE poller_ # "PollPoller"
    <3>1. EPollTables /\ EPollPolls /\ UNCHANGED pollVars
      BY <2>0, <2>2, <1>2 DEF Inv, Poll
    <3>2. UNCHANGED interest
      BY <3>1 DEF EPollPolls
    <3> QED
      BY <3>1, <3>2, <2>0, <1>0, EPollPollsBatch, InvKept DEF PollerNext
  <2> QED
    BY <2>1, <2>2
<1>3. ASSUME Dispatch PROVE Inv' /\ PollerNext
  <2>1. /\ HandleEvents
        /\ UNCHANGED <<fd_, events_, started_, poller_, pollVars, interest>>
        /\ eventSize' \in Nat \ {0}
    BY <1>0, <1>3 DEF Dispatch, HandleEvents, epollVars, watcherVars, TypeOK
  <2> QED
    BY <2>1, InvKept DEF PollerNext
<1>4. ASSUME Kernel PROVE Inv' /\ PollerNext
  <2>1. PICK fd \in Fds, condition \in Conditions : KernelChanges(fd, condition)
    BY <1>4 DEF Kernel
  <2>2. /\ UNCHANGED <<fd_, events_, started_, poller_, pollVars, interest>>
        /\ eventSize' \in Nat \ {0}
    BY <1>0, <1>4, <2>1 DEF Kernel, KernelChanges, epollVars, watcherVars, TypeOK
  <2> QED
    BY <2>1, <2>2, InvKept DEF PollerNext
<1>5. ASSUME UNCHANGED vars PROVE Inv' /\ UNCHANGED pollerVars
  <2>1. /\ UNCHANGED <<fd_, events_, started_, poller_, pollVars, interest, pollerVars>>
        /\ eventSize' \in Nat \ {0}
    BY <1>0, <1>5 DEF vars, pollerVars, epollVars, watcherVars, TypeOK
  <2> QED
    BY <2>1, InvKept
<1> QED
  BY <1>1, <1>2, <1>3, <1>4, <1>5 DEF Next

\* The tables of the loop's poller mirror what the watchers want, for any
\* watchers, descriptors and conditions, as long as removeWatcher() has read
\* back the index it erased (PollPoller.cpp, addWatcher, updateWatcher and
\* removeWatcher; EPollPoller.cpp).
THEOREM TablesMirrorWatchers == Spec => []Inv
<1>1. Inv /\ [Next]_vars => Inv'
  BY PollerStep
<1> QED
  BY InvInit, <1>1, PTL DEF Spec

\* With either poller, the loop is told of watchers that were enabled when
\* poll() was called, each once and with what is there of the events it
\* wanted by then.
THEOREM PollersAgree == Spec => ImplementsPoller
<1>1. Init => PollerInit
  BY DEF Init
<1>2. Inv /\ [Next]_vars => [PollerNext]_pollerVars
  BY PollerStep
<1> QED
  BY <1>1, <1>2, TablesMirrorWatchers, PTL DEF Spec, ImplementsPoller, PollerSpec
=============================================================================
