-------------------------- MODULE TcpServerProofs --------------------------
(***************************************************************************)
(* Proofs about module TcpServer, for every number of threads, connections *)
(* and descriptors: a connection that is open is in connections_, or its   *)
(* destruction is on its way, as long as the server lives; after that one  *)
(* that was shut down and has not closed may be left over.                 *)
(*                                                                         *)
(* The order of a loop's queue matters: destroyed() of a connection that   *)
(* is not yet established would do nothing, and established() would then   *)
(* open it for good.  The inductive invariant says that established()      *)
(* always comes first.  destroyed() does nothing either to a connection    *)
(* that is shut down: the invariant says that while the server lives only  *)
(* the close of a connection queues its removal and its destruction, so    *)
(* that destroyed() finds it closed.                                       *)
(***************************************************************************)
EXTENDS TcpServer, FiniteSetTheorems, SequenceTheorems, TLAPS

Functors ==
    {Functor("listen", "none")} \cup
    [fn : {"removeConnectionInLoop", "established", "forceClose", "shutdown",
           "destroyed"},
     conn : Conns]
States == {"kDisconnected", "kConnecting", "kConnected", "kDisconnecting"}

TypeOK ==
    /\ loops_ \in 0..MaxThreads /\ numThreads_ \in 0..MaxThreads
    /\ next_ \in Nat
    /\ next_ = 0 \/ next_ < loops_
    /\ started_ \in BOOLEAN
    /\ ~started_ => loops_ = 0
    /\ connections_ \in SUBSET Conns
    /\ queues \in [Loops -> Seq(Functors)]
    /\ conns \in [Conns -> States]
    /\ loopOf \in [Conns -> Loops]

\* established() of c comes once in s, ...
Once(s, c) ==
    \A i, j \in 1..Len(s) :
        s[i] = Functor("established", c) /\ s[j] = Functor("established", c) => i = j

\* ... ahead of every destroyed() of c.
First(s, c) ==
    \E i \in 1..Len(s) :
        /\ s[i] = Functor("established", c)
        /\ \A j \in 1..(i - 1) : s[j] # Functor("destroyed", c)

\* The removal or the destruction of c is in s.
Ending(s, c) ==
    \/ Functor("removeConnectionInLoop", c) \in Range(s)
    \/ Functor("destroyed", c) \in Range(s)

\* What holds of a connection, its state cs, the set cn of the server's
\* connections and the queues q; its loop is lp, the joined ones are en, and sv
\* is the server's state.
Tidy(c, q, cs, cn, lp, en, sv) ==
    /\ \A l \in Loops : Functor("established", c) \in Range(q[l]) => l = lp
    /\ Functor("established", c) \in Range(q[lp]) => cs = "kConnecting"
    /\ Once(q[lp], c)
    /\ cs = "kConnecting" /\ lp \notin en => First(q[lp], c)
    /\ sv = "alive" /\ (\E l \in Loops : Ending(q[l], c)) => cs = "kDisconnected"
    /\ cs # "kDisconnected" =>
          \/ c \in cn
          \/ Functor("destroyed", c) \in Range(q[lp])
          \/ lp \in en
          \/ cs = "kDisconnecting" /\ sv # "alive"

TidyInv == \A c \in Conns : Tidy(c, queues, conns[c], connections_, loopOf[c], ended, server)

Inv == TypeOK /\ TidyInv

-----------------------------------------------------------------------------
(* Queues.                                                                 *)

\* queueInLoop() keeps the functors there are, and their order.
LEMMA PushSeq ==
    ASSUME NEW s \in Seq(Functors), NEW f \in Functors, NEW c
    PROVE  /\ Append(s, f) \in Seq(Functors)
           /\ Range(Append(s, f)) = Range(s) \cup {f}
           /\ Once(s, c) /\ f # Functor("established", c) => Once(Append(s, f), c)
           /\ First(s, c) => First(Append(s, f), c)
<1>1. /\ Append(s, f) \in Seq(Functors)
      /\ Len(Append(s, f)) = Len(s) + 1
      /\ \A i \in 1..Len(s) : Append(s, f)[i] = s[i]
      /\ Append(s, f)[Len(s) + 1] = f
      /\ Len(s) \in Nat
  OBVIOUS
<1>2. Range(Append(s, f)) = Range(s) \cup {f}
  BY <1>1 DEF Range
<1>3. Once(s, c) /\ f # Functor("established", c) => Once(Append(s, f), c)
  BY <1>1 DEF Once
<1>4. First(s, c) => First(Append(s, f), c)
  <2> SUFFICES ASSUME First(s, c) PROVE First(Append(s, f), c)
    OBVIOUS
  <2>1. PICK i \in 1..Len(s) : /\ s[i] = Functor("established", c)
                               /\ \A j \in 1..(i - 1) : s[j] # Functor("destroyed", c)
    BY DEF First
  <2>2. i \in 1..Len(Append(s, f)) /\ \A j \in 1..(i - 1) : j \in 1..Len(s)
    BY <1>1
  <2> QED
    BY <2>1, <2>2, <1>1 DEF First
<1> QED
  BY <1>1, <1>2, <1>3, <1>4

\* The same when ~TcpServer() queues several.
LEMMA ConcatSeq ==
    ASSUME NEW s \in Seq(Functors), NEW t \in Seq(Functors), NEW c,
           Functor("established", c) \notin Range(t)
    PROVE  /\ s \o t \in Seq(Functors)
           /\ Range(s \o t) = Range(s) \cup Range(t)
           /\ Once(s, c) => Once(s \o t, c)
           /\ First(s, c) => First(s \o t, c)
<1>1. /\ s \o t \in Seq(Functors)
      /\ Len(s \o t) = Len(s) + Len(t)
      /\ \A i \in 1..Len(s) : (s \o t)[i] = s[i]
      /\ Len(s) \in Nat /\ Len(t) \in Nat
  OBVIOUS
<1>2. \A i \in 1..Len(t) : (s \o t)[Len(s) + i] = t[i]
  OBVIOUS
<1>3. \A i \in 1..Len(s \o t) :
          i \in 1..Len(s) \/ \E k \in 1..Len(t) : i = Len(s) + k
  <2> TAKE i \in 1..Len(s \o t)
  <2>1. CASE i > Len(s)
    <3>1. i - Len(s) \in 1..Len(t) /\ i = Len(s) + (i - Len(s))
      BY <2>1, <1>1
    <3> QED
      BY <3>1
  <2> QED
    BY <2>1, <1>1
<1>4. \A i \in 1..Len(s \o t) :
          (s \o t)[i] = Functor("established", c) => i \in 1..Len(s)
  <2>1. \A k \in 1..Len(t) : t[k] # Functor("established", c)
    BY DEF Range
  <2> QED
    BY <2>1, <1>2, <1>3
<1>5. Range(s \o t) = Range(s) \cup Range(t)
  <2>1. \A i \in 1..Len(s \o t) : (s \o t)[i] \in Range(s) \cup Range(t)
    BY <1>1, <1>2, <1>3 DEF Range
  <2>2. /\ \A i \in 1..Len(s) : i \in 1..Len(s \o t)
        /\ \A k \in 1..Len(t) : Len(s) + k \in 1..Len(s \o t)
    BY <1>1
  <2>3. /\ DOMAIN s = 1..Len(s) /\ DOMAIN t = 1..Len(t)
        /\ DOMAIN (s \o t) = 1..Len(s \o t)
    BY <1>1
  <2>4. \A i \in 1..Len(s) : s[i] \in Range(s \o t)
    BY <2>2, <2>3, <1>1 DEF Range
  <2>5. \A k \in 1..Len(t) : t[k] \in Range(s \o t)
    BY <2>2, <2>3, <1>2 DEF Range
  <2> QED
    BY <2>1, <2>3, <2>4, <2>5 DEF Range
<1>6. Once(s, c) => Once(s \o t, c)
  BY <1>1, <1>4 DEF Once
<1>7. First(s, c) => First(s \o t, c)
  <2> SUFFICES ASSUME First(s, c) PROVE First(s \o t, c)
    OBVIOUS
  <2>1. PICK i \in 1..Len(s) : /\ s[i] = Functor("established", c)
                               /\ \A j \in 1..(i - 1) : s[j] # Functor("destroyed", c)
    BY DEF First
  <2>2. i \in 1..Len(s \o t) /\ \A j \in 1..(i - 1) : j \in 1..Len(s)
    BY <1>1
  <2> QED
    BY <2>1, <2>2, <1>1 DEF First
<1> QED
  BY <1>1, <1>5, <1>6, <1>7

\* Taking the first functor: if that is not the establishment, then it is not
\* the destruction of a connection to be established either.
LEMMA PopSeq ==
    ASSUME NEW s \in Seq(Functors), s # <<>>, NEW c
    PROVE  /\ Tail(s) \in Seq(Functors)
           /\ Head(s) \in Functors
           /\ Range(s) = Range(Tail(s)) \cup {Head(s)}
           /\ Once(s, c) => Once(Tail(s), c)
           /\ Once(s, c) /\ Head(s) = Functor("established", c)
                 => Functor("established", c) \notin Range(Tail(s))
           /\ First(s, c) /\ Head(s) # Functor("established", c)
                 => Head(s) # Functor("destroyed", c) /\ First(Tail(s), c)
<1>1. /\ Tail(s) \in Seq(Functors)
      /\ Head(s) \in Functors /\ Head(s) = s[1]
      /\ Len(s) \in Nat \ {0}
      /\ Len(Tail(s)) = Len(s) - 1
      /\ \A i \in 1..Len(Tail(s)) : Tail(s)[i] = s[i + 1]
  OBVIOUS
<1>2. /\ \A i \in 1..Len(Tail(s)) : i + 1 \in 1..Len(s) /\ i + 1 # 1
      /\ \A i \in 1..Len(s) : i # 1 => i - 1 \in 1..Len(Tail(s)) /\ (i - 1) + 1 = i
      /\ 1 \in 1..Len(s)
  BY <1>1
<1>3. \A i \in 1..Len(s) : i # 1 => Tail(s)[i - 1] = s[i]
  BY <1>1, <1>2
<1>4. Range(s) = Range(Tail(s)) \cup {Head(s)}
  <2>1. \A i \in 1..Len(s) : s[i] \in Range(Tail(s)) \cup {Head(s)}
    <3> TAKE i \in 1..Len(s)
    <3>1. CASE i = 1
      BY <3>1, <1>1
    <3>2. CASE i # 1
      <4>1. i - 1 \in DOMAIN Tail(s) /\ Tail(s)[i - 1] = s[i]
        BY <3>2, <1>1, <1>2, <1>3
      <4> QED
        BY <4>1 DEF Range
    <3> QED
      BY <3>1, <3>2
  <2>2. \A i \in 1..Len(Tail(s)) : Tail(s)[i] \in Range(s)
    BY <1>1, <1>2 DEF Range
  <2>3. Head(s) \in Range(s)
    BY <1>1, <1>2 DEF Range
  <2>4. DOMAIN s = 1..Len(s) /\ DOMAIN Tail(s) = 1..Len(Tail(s))
    BY <1>1
  <2> QED
    BY <2>1, <2>2, <2>3, <2>4 DEF Range
<1>5. Once(s, c) => Once(Tail(s), c)
  <2> SUFFICES ASSUME Once(s, c),
                      NEW i \in 1..Len(Tail(s)), NEW j \in 1..Len(Tail(s)),
                      Tail(s)[i] = Functor("established", c),
                      Tail(s)[j] = Functor("established", c)
               PROVE  i = j
    BY DEF Once
  <2>1. i + 1 = j + 1
    BY <1>1, <1>2 DEF Once
  <2> QED
    BY <2>1
<1>6. Once(s, c) /\ Head(s) = Functor("established", c)
          => Functor("established", c) \notin Range(Tail(s))
  BY <1>1, <1>2 DEF Once, Range
<1>7. First(s, c) /\ Head(s) # Functor("established", c)
          => Head(s) # Functor("destroyed", c) /\ First(Tail(s), c)
  <2> SUFFICES ASSUME First(s, c), Head(s) # Functor("established", c)
               PROVE  Head(s) # Functor("destroyed", c) /\ First(Tail(s), c)
    OBVIOUS
  <2>1. PICK i \in 1..Len(s) : /\ s[i] = Functor("established", c)
                               /\ \A j \in 1..(i - 1) : s[j] # Functor("destroyed", c)
    BY DEF First
  <2>2. i # 1
    BY <2>1, <1>1
  <2>3. i - 1 \in 1..Len(Tail(s)) /\ Tail(s)[i - 1] = s[i] /\ 1 \in 1..(i - 1)
    BY <2>2, <1>2, <1>3, <1>1
  <2>4. \A j \in 1..((i - 1) - 1) : j \in 1..Len(Tail(s)) /\ j + 1 \in 1..(i - 1)
    BY <1>1
  <2> QED
    BY <2>1, <2>3, <2>4, <1>1 DEF First
<1> QED
  BY <1>1, <1>4, <1>5, <1>6, <1>7

-----------------------------------------------------------------------------
(* What the steps of the server do to a tidy connection.                   *)

\* A functor other than established() is queued; while the server is there,
\* one that ends a connection follows the close of that connection.
LEMMA TidyPush ==
    ASSUME NEW c, NEW q \in [Loops -> Seq(Functors)], NEW cs, NEW cn,
           NEW lp \in Loops, NEW en, NEW sv, Tidy(c, q, cs, cn, lp, en, sv),
           NEW m \in Loops, NEW f \in Functors, f.fn # "established",
           \/ sv # "alive" \/ cs = "kDisconnected"
           \/ f \notin {Functor("removeConnectionInLoop", c), Functor("destroyed", c)}
    PROVE  Tidy(c, [q EXCEPT ![m] = Append(@, f)], cs, cn, lp, en, sv)
<1> DEFINE p == [q EXCEPT ![m] = Append(@, f)]
<1>1. f # Functor("established", c)
  BY DEF Functor
<1>2. \A l \in Loops :
          /\ Functor("established", c) \in Range(p[l])
                <=> Functor("established", c) \in Range(q[l])
          /\ Range(q[l]) \subseteq Range(p[l])
          /\ Range(p[l]) \subseteq Range(q[l]) \cup {f}
          /\ Once(q[l], c) => Once(p[l], c)
          /\ First(q[l], c) => First(p[l], c)
  <2> TAKE l \in Loops
  <2>1. CASE l = m
    <3>1. p[l] = Append(q[l], f) /\ q[l] \in Seq(Functors)
      BY <2>1
    <3> QED
      BY <3>1, <1>1, PushSeq
  <2>2. CASE l # m
    BY <2>2
  <2> QED
    BY <2>1, <2>2
<1> HIDE DEF p
<1>3. \A l \in Loops : Ending(p[l], c) =>
          \/ Ending(q[l], c)
          \/ f \in {Functor("removeConnectionInLoop", c), Functor("destroyed", c)}
  BY <1>2 DEF Ending
<1>4. sv = "alive" /\ (\E l \in Loops : Ending(p[l], c)) => cs = "kDisconnected"
  BY <1>3 DEF Tidy
<1>5. Tidy(c, p, cs, cn, lp, en, sv)
  BY <1>2, <1>4 DEF Tidy
<1> QED
  BY <1>5 DEF p

\* A functor is taken that does not concern c, or does nothing to its state.
LEMMA TidyPop ==
    ASSUME NEW c, NEW q \in [Loops -> Seq(Functors)], NEW cs, NEW cn,
           NEW lp \in Loops, NEW en, NEW sv, Tidy(c, q, cs, cn, lp, en, sv),
           NEW m \in Loops, q[m] # <<>>,
           Head(q[m]) # Functor("established", c),
           Head(q[m]) # Functor("destroyed", c)
    PROVE  Tidy(c, [q EXCEPT ![m] = Tail(@)], cs, cn, lp, en, sv)
<1> DEFINE p == [q EXCEPT ![m] = Tail(@)]
<1>1. \A l \in Loops :
          /\ Functor("established", c) \in Range(p[l])
                <=> Functor("established", c) \in Range(q[l])
          /\ Functor("destroyed", c) \in Range(p[l])
                <=> Functor("destroyed", c) \in Range(q[l])
          /\ Ending(p[l], c) => Ending(q[l], c)
          /\ Once(q[l], c) => Once(p[l], c)
          /\ First(q[l], c) => First(p[l], c)
  <2> TAKE l \in Loops
  <2>1. CASE l = m
    <3>1. p[l] = Tail(q[l]) /\ q[l] \in Seq(Functors) /\ q[l] # <<>>
      BY <2>1
    <3> QED
      BY <3>1, <2>1, PopSeq DEF Ending
  <2>2. CASE l # m
    BY <2>2
  <2> QED
    BY <2>1, <2>2
<1> HIDE DEF p
<1>2. Tidy(c, p, cs, cn, lp, en, sv)
  BY <1>1 DEF Tidy
<1> QED
  BY <1>2 DEF p

\* established() is taken, and runs.
LEMMA TidyEstablish ==
    ASSUME NEW c, NEW q \in [Loops -> Seq(Functors)], NEW cs, NEW cn,
           NEW lp \in Loops, NEW en, NEW sv, Tidy(c, q, cs, cn, lp, en, sv),
           NEW m \in Loops, q[m] # <<>>,
           Head(q[m]) = Functor("established", c)
    PROVE  Tidy(c, [q EXCEPT ![m] = Tail(@)], "kConnected", cn, lp, en, sv)
<1> DEFINE p == [q EXCEPT ![m] = Tail(@)]
<1>1. q[m] \in Seq(Functors)
  OBVIOUS
<1>2. Functor("established", c) \in Range(q[m])
  BY <1>1, PopSeq
<1>3. m = lp /\ cs = "kConnecting" /\ Once(q[lp], c)
  BY <1>2 DEF Tidy
<1>4. p[lp] = Tail(q[lp]) /\ \A l \in Loops : l # lp => p[l] = q[l]
  BY <1>3
<1>5. /\ Functor("established", c) \notin Range(p[lp])
      /\ Once(p[lp], c)
      /\ Range(q[lp]) = Range(p[lp]) \cup {Functor("established", c)}
  BY <1>1, <1>3, <1>4, PopSeq
<1>6. Functor("established", c) # Functor("destroyed", c)
  BY DEF Functor
<1>7. \A l \in Loops : Ending(p[l], c) => Ending(q[l], c)
  BY <1>4, <1>5 DEF Ending
<1> HIDE DEF p
<1>8. ~(sv = "alive" /\ \E l \in Loops : Ending(p[l], c))
  BY <1>3, <1>7 DEF Tidy
<1>9. Tidy(c, p, "kConnected", cn, lp, en, sv)
  BY <1>3, <1>4, <1>5, <1>6, <1>8 DEF Tidy
<1> QED
  BY <1>9 DEF p

\* destroyed() is taken, and runs: on the connection's own loop it is not
\* ahead of established(), and it passes over a connection that is shut down,
\* which it can meet only when the server is on its way out.
LEMMA TidyDestroy ==
    ASSUME NEW c, NEW q \in [Loops -> Seq(Functors)], NEW cs, NEW cn,
           NEW lp \in Loops, NEW en, NEW sv, Tidy(c, q, cs, cn, lp, en, sv),
           NEW m \in Loops, q[m] # <<>>, m \notin en,
           cs \in States,
           Head(q[m]) = Functor("destroyed", c)
    PROVE  Tidy(c, [q EXCEPT ![m] = Tail(@)],
                IF cs = "kConnected" THEN "kDisconnected" ELSE cs,
                cn, lp, en, sv)
<1> DEFINE p == [q EXCEPT ![m] = Tail(@)]
           after == IF cs = "kConnected" THEN "kDisconnected" ELSE cs
<1>1. q[m] \in Seq(Functors)
  OBVIOUS
<1>2. Functor("established", c) # Functor("destroyed", c)
  BY DEF Functor
<1>3. /\ Functor("established", c) \in Range(q[m])
            <=> Functor("established", c) \in Range(Tail(q[m]))
      /\ Once(q[m], c) => Once(Tail(q[m]), c)
      /\ ~First(q[m], c)
      /\ Ending(Tail(q[m]), c) => Ending(q[m], c)
      /\ Ending(q[m], c)
  BY <1>1, <1>2, PopSeq DEF Ending
<1>4. p[m] = Tail(q[m]) /\ \A l \in Loops : l # m => p[l] = q[l]
  OBVIOUS
<1>5. cs = "kConnecting" => m # lp
  BY <1>3 DEF Tidy
<1>6. /\ after = "kConnecting" <=> cs = "kConnecting"
      /\ after # "kDisconnected" =>
            after = cs /\ (cs = "kConnecting" \/ cs = "kDisconnecting")
      /\ cs = "kDisconnected" => after = "kDisconnected"
  BY DEF States
<1>8. \A l \in Loops : Ending(p[l], c) => Ending(q[l], c)
  BY <1>3, <1>4
<1> HIDE DEF p, after
<1>9. /\ sv = "alive" => cs = "kDisconnected"
      /\ sv = "alive" => after = "kDisconnected"
  BY <1>3, <1>6 DEF Tidy
<1>7. Tidy(c, p, after, cn, lp, en, sv)
  <2>1. CASE m = lp
    BY <2>1, <1>3, <1>4, <1>5, <1>6, <1>9 DEF Tidy
  <2>2. CASE m # lp
    <3>1. p[lp] = q[lp]
      BY <2>2, <1>4
    <3>2. \A l \in Loops : Functor("established", c) \in Range(p[l])
             <=> Functor("established", c) \in Range(q[l])
      BY <1>3, <1>4
    <3> QED
      BY <3>1, <3>2, <1>6, <1>9 DEF Tidy
  <2> QED
    BY <2>1, <2>2
<1> QED
  BY <1>7 DEF p, after

\* handleClose(): whoever owned the connection, it is closed.
LEMMA TidyClose ==
    ASSUME NEW c, NEW q, NEW cs, NEW cn, NEW lp \in Loops, NEW en, NEW sv,
           Tidy(c, q, cs, cn, lp, en, sv), cs # "kConnecting"
    PROVE  Tidy(c, q, "kDisconnected", cn, lp, en, sv)
BY DEF Tidy

\* shutdownInLoop(): the connection keeps its owner.
LEMMA TidyShut ==
    ASSUME NEW c, NEW q, NEW cs, NEW cn, NEW lp \in Loops, NEW en, NEW sv,
           Tidy(c, q, cs, cn, lp, en, sv)
    PROVE  Tidy(c, q, IF cs = "kConnected" THEN "kDisconnecting" ELSE cs,
                cn, lp, en, sv)
<1>1. CASE cs = "kConnected"
  <2>1. Tidy(c, q, "kDisconnecting", cn, lp, en, sv)
    BY <1>1 DEF Tidy
  <2> QED
    BY <2>1, <1>1
<1>2. CASE cs # "kConnected"
  BY <1>2
<1> QED
  BY <1>1, <1>2

\* The server lets go of a connection that is closed or whose destruction is
\* queued, or takes one on, ...
LEMMA TidyRemove ==
    ASSUME NEW c, NEW q, NEW cs, NEW cn, NEW cm, NEW lp \in Loops, NEW en, NEW sv,
           Tidy(c, q, cs, cn, lp, en, sv),
           c \in cn => \/ c \in cm \/ cs = "kDisconnected"
                      \/ Functor("destroyed", c) \in Range(q[lp])
    PROVE  Tidy(c, q, cs, cm, lp, en, sv)
BY DEF Tidy

\* ... and ends.
LEMMA TidyDown ==
    ASSUME NEW c, NEW q, NEW cs, NEW cn, NEW lp \in Loops, NEW en, NEW sv, NEW sw,
           Tidy(c, q, cs, cn, lp, en, sv), sw # "alive"
    PROVE  Tidy(c, q, cs, cn, lp, en, sw)
BY DEF Tidy

-----------------------------------------------------------------------------
(* The invariant holds at first and is kept by every step.                 *)

\* The functors the server and its users queue.
LEMMA FunctorIn ==
    /\ Functor("listen", "none") \in Functors
    /\ \A c \in Conns : /\ Functor("removeConnectionInLoop", c) \in Functors
                        /\ Functor("established", c) \in Functors
                        /\ Functor("forceClose", c) \in Functors
                        /\ Functor("shutdown", c) \in Functors
                        /\ Functor("destroyed", c) \in Functors
    /\ \A f \in Functors : f.fn = "listen" \/ f.conn \in Conns
    /\ \A f \in Functors : f = Functor(f.fn, f.conn)
    /\ \A fn, c : Functor(fn, c).fn = fn /\ Functor(fn, c).conn = c
BY DEF Functors, Functor

\* getLoop() names a loop of the pool, or the base loop.
LEMMA GetLoopIn ==
    ASSUME TypeOK
    PROVE  /\ GetLoop \in Loops
           /\ NextLoop \in Nat
           /\ NextLoop = 0 \/ NextLoop < loops_
BY ThreadNumAssumption DEF TypeOK, GetLoop, NextLoop, Loops, BaseLoop

\* A server that has not called listen() satisfies the invariant.
LEMMA InvInit == Init => Inv
<1> SUFFICES ASSUME Init PROVE Inv
  OBVIOUS
<1>1. BaseLoop \in Loops /\ 0 \in 0..MaxThreads
  BY ThreadNumAssumption DEF Loops, BaseLoop
<1>2. TypeOK
  <2>1. queues \in [Loops -> Seq(Functors)]
    BY DEF Init
  <2>2. conns \in [Conns -> States] /\ loopOf \in [Conns -> Loops]
    BY <1>1 DEF Init, States
  <2> QED
    BY <1>1, <2>1, <2>2 DEF Init, TypeOK
<1>3. \A l \in Loops : Range(queues[l]) = {} /\ Len(queues[l]) = 0
  BY DEF Init, Range
<1>4. \A c \in Conns : Once(queues[loopOf[c]], c) /\ conns[c] = "kDisconnected"
                       /\ loopOf[c] \in Loops
  BY <1>1, <1>3 DEF Init, Once
<1>5. TidyInv
  BY <1>3, <1>4 DEF TidyInv, Tidy, Ending
<1> QED
  BY <1>2, <1>5 DEF Inv

\* The functors of ~TcpServer() are one destroyed() for each connection.
LEMMA DestroysAll ==
    ASSUME TypeOK, NEW l \in Loops, NEW t \in Destroys(l)
    PROVE  /\ t \in Seq(Functors)
           /\ Range(t) = {Functor("destroyed", c) : c \in {d \in connections_ : loopOf[d] = l}}
<1> DEFINE mine == {c \in connections_ : loopOf[c] = l}
           nth == 1..Cardinality(mine)
<1>1. PICK order \in Bijection(nth, mine) :
          t = [i \in nth |-> Functor("destroyed", order[i])]
  BY DEF Destroys
<1>2. order \in [nth -> mine] /\ \A c \in mine : \E i \in nth : order[i] = c
  BY DEF Bijection, Surjection, Injection
<1>3. IsFiniteSet(mine)
  <2>1. mine \subseteq Conns
    BY DEF TypeOK
  <2> QED
    BY <2>1, FdAssumption, FS_Subset
<1>4. Cardinality(mine) \in Nat
  BY <1>3, FS_CardinalityType
<1>5. \A c \in mine : Functor("destroyed", c) \in Functors
  BY FunctorIn DEF TypeOK
<1> HIDE DEF mine
<1>6. t \in Seq(Functors)
  <2>1. t \in [1..Cardinality(mine) -> Functors]
    BY <1>1, <1>2, <1>5
  <2> QED
    BY <2>1, <1>4
<1>7. Range(t) = {Functor("destroyed", c) : c \in mine}
  <2>1. DOMAIN t = nth /\ \A i \in nth : t[i] = Functor("destroyed", order[i])
    BY <1>1
  <2> QED
    BY <2>1, <1>2 DEF Range
<1> QED
  BY <1>6, <1>7 DEF mine

\* What is true of all connections, given the queues q.
AllTidy(q) ==
    \A d \in Conns : Tidy(d, q, conns[d], connections_, loopOf[d], ended, server)

\* The part of TypeOK a functor can disturb.
ConnTypes ==
    /\ connections_ \in SUBSET Conns
    /\ queues \in [Loops -> Seq(Functors)]
    /\ conns \in [Conns -> States]

\* handleClose(), from poll or from a functor: q is what is left of the queues.
LEMMA CloseKeeps ==
    ASSUME TypeOK, NEW c \in Conns, Open(c),
           NEW q \in [Loops -> Seq(Functors)], AllTidy(q), Close(c, q),
           UNCHANGED <<loopOf, ended, server>>
    PROVE  ConnTypes' /\ TidyInv'
<1>1. /\ conns' = [conns EXCEPT ![c] = "kDisconnected"]
      /\ conns' \in [Conns -> States] /\ conns'[c] = "kDisconnected"
      /\ loopOf \in [Conns -> Loops] /\ conns \in [Conns -> States]
      /\ connections_ \in SUBSET Conns
  BY DEF Close, TypeOK, States
<1>2. BaseLoop \in Loops
  BY ThreadNumAssumption DEF Loops, BaseLoop
<1>3. \A d \in Conns : Tidy(d, q, conns'[d], connections_, loopOf[d], ended, server)
  <2> TAKE d \in Conns
  <2>1. Tidy(d, q, conns[d], connections_, loopOf[d], ended, server)
        /\ loopOf[d] \in Loops
    BY <1>1 DEF AllTidy
  <2>2. CASE d = c
    <3>1. conns[d] # "kConnecting" /\ conns'[d] = "kDisconnected"
      BY <2>2, <1>1 DEF Open
    <3> QED
      BY <3>1, <2>1, TidyClose
  <2>3. CASE d # c
    <3>1. conns'[d] = conns[d]
      BY <2>3, <1>1
    <3> QED
      BY <3>1, <2>1
  <2> QED
    BY <2>2, <2>3
<1>4. ASSUME NEW m \in Loops, NEW fn \in {"removeConnectionInLoop", "destroyed"},
             queues' = [q EXCEPT ![m] = Append(@, Functor(fn, c))],
             connections_' \in {connections_, connections_ \ {c}}
      PROVE  ConnTypes' /\ TidyInv'
  <2>1. Functor(fn, c) \in Functors /\ Functor(fn, c).fn # "established"
    BY <1>4, FunctorIn
  <2>2. queues' \in [Loops -> Seq(Functors)] /\ connections_' \in SUBSET Conns
    BY <1>1, <1>4, <2>1
  <2>3. \A d \in Conns : Tidy(d, queues', conns'[d], connections_', loopOf[d], ended, server)
    <3> TAKE d \in Conns
    <3>1. Tidy(d, q, conns'[d], connections_, loopOf[d], ended, server)
          /\ loopOf[d] \in Loops
      BY <1>1, <1>3
    <3>2. \/ conns'[d] = "kDisconnected"
          \/ Functor(fn, c) \notin {Functor("removeConnectionInLoop", d),
                                    Functor("destroyed", d)}
      BY <1>1, FunctorIn
    <3>3. Tidy(d, queues', conns'[d], connections_, loopOf[d], ended, server)
      BY <3>1, <3>2, <2>1, <1>4, TidyPush
    <3>4. d \in connections_ => d \in connections_' \/ conns'[d] = "kDisconnected"
      BY <1>1, <1>4
    <3> QED
      BY <3>1, <3>3, <3>4, TidyRemove
  <2> QED
    BY <1>1, <2>2, <2>3 DEF ConnTypes, TidyInv
<1>5. CASE queues' = q /\ UNCHANGED connections_
  BY <1>1, <1>3, <1>5 DEF ConnTypes, TidyInv
<1>6. CASE connections_' = connections_ \ {c} /\ queues' = Removal(c, q)
  BY <1>1, <1>4, <1>6 DEF Removal
<1>7. CASE /\ queues' = [q EXCEPT ![BaseLoop] =
                            Append(@, Functor("removeConnectionInLoop", c))]
           /\ UNCHANGED connections_
  BY <1>2, <1>4, <1>7
<1> QED
  BY <1>5, <1>6, <1>7 DEF Close

\* shutdownInLoop(), in place or as a functor, with q left of the queues.
LEMMA ShutKeeps ==
    ASSUME NEW c \in Conns, NEW q, AllTidy(q), queues' = q,
           conns \in [Conns -> States], loopOf \in [Conns -> Loops],
           conns' = [conns EXCEPT ![c] =
                        IF @ = "kConnected" THEN "kDisconnecting" ELSE @],
           UNCHANGED <<connections_, loopOf, ended, server>>
    PROVE  conns' \in [Conns -> States] /\ TidyInv'
<1>1. conns' \in [Conns -> States]
  BY DEF States
<1>2. \A d \in Conns : Tidy(d, q, conns'[d], connections_, loopOf[d], ended, server)
  <2> TAKE d \in Conns
  <2>1. Tidy(d, q, conns[d], connections_, loopOf[d], ended, server)
        /\ loopOf[d] \in Loops
    BY DEF AllTidy
  <2>2. CASE d = c
    <3>1. conns'[d] = IF conns[d] = "kConnected" THEN "kDisconnecting" ELSE conns[d]
      BY <2>2
    <3> QED
      BY <3>1, <2>1, TidyShut
  <2>3. CASE d # c
    <3>1. conns'[d] = conns[d]
      BY <2>3
    <3> QED
      BY <3>1, <2>1
  <2> QED
    BY <2>2, <2>3
<1> QED
  BY <1>1, <1>2 DEF TidyInv

\* A loop takes its first functor and runs it.
LEMMA RunKeeps ==
    ASSUME Inv, NEW m \in Loops, RunFunctor(m)
    PROVE  ConnTypes' /\ TidyInv'
<1> DEFINE f == Head(queues[m])
           q == [queues EXCEPT ![m] = Tail(@)]
<1>1. /\ queues[m] # <<>> /\ m \notin ended
      /\ Run(f, q) /\ UNCHANGED <<loopOf, ended, server>>
  BY DEF RunFunctor, LoopRuns
<1>2. /\ queues[m] \in Seq(Functors) /\ queues \in [Loops -> Seq(Functors)]
      /\ conns \in [Conns -> States] /\ loopOf \in [Conns -> Loops]
      /\ connections_ \in SUBSET Conns
  BY DEF Inv, TypeOK
<1>3. f \in Functors /\ q \in [Loops -> Seq(Functors)]
  BY <1>1, <1>2
<1>4. \A d \in Conns : Tidy(d, queues, conns[d], connections_, loopOf[d], ended, server)
  BY DEF Inv, TidyInv
<1>5. \A d \in Conns :
          f # Functor("established", d) /\ f # Functor("destroyed", d)
              => Tidy(d, q, conns[d], connections_, loopOf[d], ended, server)
  BY <1>1, <1>2, <1>4, TidyPop
<1>6. \A d \in Conns : f = Functor("established", d)
              => Tidy(d, q, "kConnected", connections_, loopOf[d], ended, server)
  BY <1>1, <1>2, <1>4, TidyEstablish
<1>7. \A d \in Conns : f = Functor("destroyed", d)
              => Tidy(d, q, IF conns[d] = "kConnected" THEN "kDisconnected" ELSE conns[d],
                      connections_, loopOf[d], ended, server)
  <2> SUFFICES ASSUME NEW d \in Conns, f = Functor("destroyed", d)
               PROVE  Tidy(d, q, IF conns[d] = "kConnected" THEN "kDisconnected" ELSE conns[d],
                           connections_, loopOf[d], ended, server)
    OBVIOUS
  <2>1. conns[d] \in States
    BY <1>2
  <2> QED
    BY <2>1, <1>1, <1>2, <1>4, TidyDestroy
<1> HIDE DEF f, q
<1>8. f.fn \notin {"established", "destroyed"} => AllTidy(q)
  BY <1>5, FunctorIn DEF AllTidy
<1>9. CASE f.fn = "listen"
  <2>1. AllTidy(q) /\ queues' = q /\ UNCHANGED <<connections_, conns>>
    BY <1>1, <1>8, <1>9 DEF Run
  <2> QED
    BY <2>1, <1>1, <1>2, <1>3 DEF AllTidy, ConnTypes, TidyInv
<1>10. CASE f.fn = "removeConnectionInLoop"
  <2>1. AllTidy(q) /\ UNCHANGED conns /\ f.conn \in Conns
    BY <1>1, <1>3, <1>8, <1>10, FunctorIn DEF Run
  <2>2. CASE queues' = q /\ UNCHANGED connections_
    BY <2>1, <2>2, <1>1, <1>2, <1>3 DEF AllTidy, ConnTypes, TidyInv
  <2>3. CASE connections_' = connections_ \ {f.conn} /\ queues' = Removal(f.conn, q)
    <3>1. queues' = [q EXCEPT ![loopOf[f.conn]] = Append(@, Functor("destroyed", f.conn))]
      BY <2>3 DEF Removal
    <3>2. /\ Functor("destroyed", f.conn) \in Functors
          /\ Functor("destroyed", f.conn).fn # "established"
      BY <2>1, FunctorIn
    <3>3. queues' \in [Loops -> Seq(Functors)] /\ connections_' \in SUBSET Conns
      BY <2>1, <2>3, <3>1, <3>2, <1>2, <1>3
    <3>6. server = "alive" => conns[f.conn] = "kDisconnected"
      <4>1. f = Functor("removeConnectionInLoop", f.conn)
        BY <1>3, <1>10, FunctorIn
      <4>2. f \in Range(queues[m])
        BY <1>1, <1>2, PopSeq DEF f
      <4>3. Ending(queues[m], f.conn)
        BY <4>1, <4>2 DEF Ending
      <4> QED
        BY <4>3, <2>1, <1>4 DEF Tidy
    <3>4. Functor("destroyed", f.conn) \in Range(queues'[loopOf[f.conn]])
      <4>1. /\ queues'[loopOf[f.conn]]
                  = Append(q[loopOf[f.conn]], Functor("destroyed", f.conn))
            /\ q[loopOf[f.conn]] \in Seq(Functors)
        BY <3>1, <2>1, <1>2, <1>3
      <4> QED
        BY <4>1, <3>2 DEF Range
    <3>5. \A d \in Conns : Tidy(d, queues', conns[d], connections_', loopOf[d], ended, server)
      <4> TAKE d \in Conns
      <4>1. Tidy(d, q, conns[d], connections_, loopOf[d], ended, server) /\ loopOf[d] \in Loops
        BY <2>1, <1>2 DEF AllTidy
      <4>2. Tidy(d, queues', conns[d], connections_, loopOf[d], ended, server)
        <5>1. \/ server # "alive" \/ conns[d] = "kDisconnected"
              \/ Functor("destroyed", f.conn) \notin
                     {Functor("removeConnectionInLoop", d), Functor("destroyed", d)}
          BY <3>6, FunctorIn
        <5> QED
          BY <5>1, <4>1, <3>1, <3>2, <2>1, <1>2, <1>3, TidyPush
      <4>3. d \in connections_ =>
                d \in connections_' \/ Functor("destroyed", d) \in Range(queues'[loopOf[d]])
        BY <2>3, <3>4
      <4> QED
        BY <4>1, <4>2, <4>3, TidyRemove
    <3> QED
      BY <3>3, <3>5, <2>1, <1>1, <1>2 DEF ConnTypes, TidyInv
  <2> QED
    BY <2>2, <2>3, <1>1, <1>10 DEF Run
<1>11. CASE f.fn = "established"
  <2>1. /\ conns' = [conns EXCEPT ![f.conn] =
                        IF @ = "kConnecting" THEN "kConnected" ELSE @]
        /\ queues' = q /\ UNCHANGED connections_
        /\ f.conn \in Conns
        /\ f = Functor("established", f.conn)
    BY <1>1, <1>3, <1>11, FunctorIn DEF Run
  <2>2. \A d \in Conns : Tidy(d, q, conns'[d], connections_, loopOf[d], ended, server)
    <3> TAKE d \in Conns
    <3>1. CASE d = f.conn
      <4>1. f = Functor("established", d) /\ f \in Range(queues[m])
        BY <3>1, <2>1, <1>1, <1>2, PopSeq DEF f
      <4>2. conns[d] = "kConnecting"
        BY <4>1, <1>2, <1>4 DEF Tidy
      <4>3. conns'[d] = "kConnected"
        BY <4>2, <3>1, <2>1, <1>2
      <4> QED
        BY <4>1, <4>3, <1>6
    <3>2. CASE d # f.conn
      <4>1. f # Functor("established", d) /\ f # Functor("destroyed", d)
        BY <3>2, FunctorIn
      <4>2. conns'[d] = conns[d]
        BY <3>2, <2>1, <1>2
      <4> QED
        BY <4>1, <4>2, <1>5
    <3> QED
      BY <3>1, <3>2
  <2>3. conns' \in [Conns -> States]
    BY <2>1, <1>2 DEF States
  <2> QED
    BY <2>1, <2>2, <2>3, <1>1, <1>2, <1>3 DEF ConnTypes, TidyInv
<1>12. CASE f.fn = "forceClose"
  <2>1. AllTidy(q) /\ f.conn \in Conns
    BY <1>3, <1>8, <1>12, FunctorIn
  <2>2. CASE Open(f.conn) /\ Close(f.conn, q)
    BY <2>1, <2>2, <1>1, <1>3, CloseKeeps DEF Inv
  <2>3. CASE queues' = q /\ UNCHANGED <<conns, connections_, undefined>>
    BY <2>1, <2>3, <1>1, <1>2, <1>3 DEF AllTidy, ConnTypes, TidyInv
  <2> QED
    BY <2>2, <2>3, <1>1, <1>12 DEF Run
<1>13. CASE f.fn = "shutdown"
  <2>1. /\ conns' = [conns EXCEPT ![f.conn] =
                        IF @ = "kConnected" THEN "kDisconnecting" ELSE @]
        /\ queues' = q /\ UNCHANGED connections_
        /\ AllTidy(q) /\ f.conn \in Conns
    BY <1>1, <1>3, <1>8, <1>13, FunctorIn DEF Run, ShutdownInLoop
  <2> QED
    BY <2>1, <1>1, <1>2, <1>3, ShutKeeps DEF ConnTypes
<1>14. CASE f.fn = "destroyed"
  <2>1. /\ conns' = [conns EXCEPT ![f.conn] =
                        IF @ = "kConnected" THEN "kDisconnected" ELSE @]
        /\ queues' = q /\ UNCHANGED connections_
        /\ f.conn \in Conns
        /\ f = Functor("destroyed", f.conn)
    BY <1>1, <1>3, <1>14, FunctorIn DEF Run
  <2>2. \A d \in Conns : Tidy(d, q, conns'[d], connections_, loopOf[d], ended, server)
    <3> TAKE d \in Conns
    <3>1. CASE d = f.conn
      <4>1. conns'[d] = IF conns[d] = "kConnected" THEN "kDisconnected" ELSE conns[d]
        BY <3>1, <2>1, <1>2
      <4> QED
        BY <4>1, <3>1, <2>1, <1>7
    <3>2. CASE d # f.conn
      <4>1. f # Functor("established", d) /\ f # Functor("destroyed", d)
        BY <3>2, FunctorIn
      <4>2. conns'[d] = conns[d]
        BY <3>2, <2>1, <1>2
      <4> QED
        BY <4>1, <4>2, <1>5
    <3> QED
      BY <3>1, <3>2
  <2>3. conns' \in [Conns -> States]
    BY <2>1, <1>2 DEF States
  <2> QED
    BY <2>1, <2>2, <2>3, <1>1, <1>2, <1>3 DEF ConnTypes, TidyInv
<1> QED
  <2>1. f.fn \in {"listen", "removeConnectionInLoop", "established", "forceClose",
                  "shutdown", "destroyed"}
    BY <1>1 DEF Run
  <2> QED
    BY <2>1, <1>9, <1>10, <1>11, <1>12, <1>14, <1>13

\* Every step of the server, its loops and its peers keeps the invariant.
LEMMA InvStep == Inv /\ [Next]_vars => Inv'
<1> SUFFICES ASSUME Inv, [Next]_vars PROVE Inv'
  OBVIOUS
<1> USE DEF Inv
<1>0. /\ BaseLoop \in Loops
      /\ \A d \in Conns : Tidy(d, queues, conns[d], connections_, loopOf[d], ended, server)
      /\ \A d \in Conns : loopOf[d] \in Loops
      /\ queues \in [Loops -> Seq(Functors)]
  BY ThreadNumAssumption DEF Loops, BaseLoop, TidyInv, TypeOK
<1>1. ASSUME NEW n \in 0..MaxThreads, SetThreadNum(n) PROVE Inv'
  BY <1>1 DEF SetThreadNum, acceptVars, connVars, endVars, TypeOK, TidyInv
<1>2. ASSUME NEW inPlace \in BOOLEAN, Listen(inPlace) PROVE Inv'
  <2>1. /\ UNCHANGED <<numThreads_, next_, connections_, conns, loopOf, ended, server>>
        /\ ~started_ /\ started_' = TRUE /\ loops_' = numThreads_
    BY <1>2 DEF Listen, StartPool, endVars
  <2>2. /\ loops_' \in 0..MaxThreads
        /\ next_' = 0
    BY <2>1 DEF TypeOK
  <2>3. CASE UNCHANGED queues
    BY <2>1, <2>2, <2>3 DEF TypeOK, TidyInv
  <2>4. CASE queues' = Push(BaseLoop, Functor("listen", "none"))
    <3>1. queues' = [queues EXCEPT ![BaseLoop] = Append(@, Functor("listen", "none"))]
      BY <2>4 DEF Push
    <3>2. /\ Functor("listen", "none") \in Functors
          /\ Functor("listen", "none").fn # "established"
          /\ \A d \in Conns : Functor("listen", "none") \notin
                {Functor("removeConnectionInLoop", d), Functor("destroyed", d)}
      BY FunctorIn
    <3>3. queues' \in [Loops -> Seq(Functors)]
      BY <3>1, <3>2, <1>0
    <3>4. \A d \in Conns : Tidy(d, queues', conns[d], connections_, loopOf[d], ended, server)
      BY <3>1, <3>2, <1>0, TidyPush
    <3> QED
      BY <2>1, <2>2, <3>3, <3>4 DEF TypeOK, TidyInv
  <2> QED
    BY <2>3, <2>4, <1>2 DEF Listen
<1>3. ASSUME NEW c \in Conns, Accept(c) PROVE Inv'
  <2>1. /\ ~Exists(c) /\ HandleConnection(c)
        /\ UNCHANGED <<started_, numThreads_, loops_, ended, server>>
    BY <1>3 DEF Accept, endVars
  <2>2. /\ GetLoop \in Loops /\ NextLoop \in Nat
        /\ NextLoop = 0 \/ NextLoop < loops_
    BY GetLoopIn
  <2>3. \A l \in Loops : \A f \in Range(queues[l]) : f.conn # c
    BY <2>1 DEF Exists
  <2>4. \A l \in Loops : /\ Functor("established", c) \notin Range(queues[l])
                         /\ ~Ending(queues[l], c)
    BY <2>3, FunctorIn DEF Ending
  <2>5. /\ loopOf' = [loopOf EXCEPT ![c] = GetLoop]
        /\ next_' = NextLoop /\ connections_' = connections_ \cup {c}
    BY <2>1 DEF HandleConnection
  <2>6. ASSUME NEW q \in [Loops -> Seq(Functors)], NEW cs \in States,
               queues' = q, conns' = [conns EXCEPT ![c] = cs],
               \A d \in Conns \ {c} : Tidy(d, q, conns[d], connections_, loopOf[d], ended, server),
               Tidy(c, q, cs, connections_', GetLoop, ended, server)
        PROVE  Inv'
    <3>1. TypeOK'
      BY <2>1, <2>2, <2>5, <2>6 DEF TypeOK
    <3>2. \A d \in Conns : Tidy(d, q, conns'[d], connections_', loopOf'[d], ended, server)
      <4> TAKE d \in Conns
      <4>1. CASE d = c
        <5>1. conns'[d] = cs /\ loopOf'[d] = GetLoop
          BY <4>1, <2>5, <2>6 DEF TypeOK
        <5> QED
          BY <5>1, <4>1, <2>6
      <4>2. CASE d # c
        <5>1. conns'[d] = conns[d] /\ loopOf'[d] = loopOf[d]
              /\ (d \in connections_ => d \in connections_')
          BY <4>2, <2>5, <2>6 DEF TypeOK
        <5> QED
          BY <5>1, <4>2, <1>0, <2>6, TidyRemove
      <4> QED
        BY <4>1, <4>2
    <3> QED
      BY <3>1, <3>2, <2>1, <2>6 DEF TidyInv
  <2>7. c \in connections_'
    BY <2>5
  <2>8. CASE GetLoop = BaseLoop
    <3>1. conns' = [conns EXCEPT ![c] = "kConnected"] /\ queues' = queues
      BY <2>1, <2>8 DEF HandleConnection
    <3>2. Once(queues[GetLoop], c)
      <4>1. queues[GetLoop] \in Seq(Functors)
        BY <1>0, <2>2
      <4> QED
        BY <4>1, <2>2, <2>4 DEF Once, Range
    <3>3. Tidy(c, queues, "kConnected", connections_', GetLoop, ended, server)
      <4>1. "kConnected" # "kConnecting"
        OBVIOUS
      <4> QED
        BY <4>1, <3>2, <2>2, <2>4, <2>7 DEF Tidy
    <3>4. "kConnected" \in States
      BY DEF States
    <3> QED
      BY <3>1, <3>3, <3>4, <2>6, <1>0
  <2>9. CASE GetLoop # BaseLoop
    <3> DEFINE f == Functor("established", c)
               s == queues[GetLoop]
               q == [queues EXCEPT ![GetLoop] = Append(@, f)]
    <3>1. conns' = [conns EXCEPT ![c] = "kConnecting"] /\ queues' = q
      BY <2>1, <2>9 DEF HandleConnection, Push
    <3>2. /\ f \in Functors /\ s \in Seq(Functors)
          /\ q \in [Loops -> Seq(Functors)] /\ q[GetLoop] = Append(s, f)
          /\ \A l \in Loops : l # GetLoop => q[l] = queues[l]
      BY <1>0, <2>2, FunctorIn
    <3>3. \A d \in Conns \ {c} : Tidy(d, q, conns[d], connections_, loopOf[d], ended, server)
      <4> SUFFICES ASSUME NEW d \in Conns \ {c}
                   PROVE  Tidy(d, q, conns[d], connections_, loopOf[d], ended, server)
        OBVIOUS
      <4>1. /\ f # Functor("established", d) /\ f # Functor("destroyed", d)
            /\ f # Functor("removeConnectionInLoop", d)
        BY DEF Functor
      <4>2. /\ Range(Append(s, f)) = Range(s) \cup {f}
            /\ Once(s, d) => Once(Append(s, f), d)
            /\ First(s, d) => First(Append(s, f), d)
        BY <3>2, <4>1, PushSeq
      <4>3. Tidy(d, queues, conns[d], connections_, loopOf[d], ended, server)
            /\ loopOf[d] \in Loops
        BY <1>0
      <4> HIDE DEF f, q
      <4>6. \A l \in Loops : Ending(q[l], d) => Ending(queues[l], d)
        BY <4>1, <4>2, <3>2 DEF Ending
      <4>7. server = "alive" /\ (\E l \in Loops : Ending(q[l], d))
               => conns[d] = "kDisconnected"
        BY <4>3, <4>6 DEF Tidy
      <4>4. CASE loopOf[d] = GetLoop
        BY <4>1, <4>2, <4>3, <4>4, <4>7, <3>2 DEF Tidy
      <4>5. CASE loopOf[d] # GetLoop
        BY <4>1, <4>2, <4>3, <4>5, <4>7, <3>2 DEF Tidy
      <4> QED
        BY <4>4, <4>5
    <3>4. Tidy(c, q, "kConnecting", connections_', GetLoop, ended, server)
      <4>1. /\ Len(Append(s, f)) = Len(s) + 1 /\ Len(s) \in Nat
            /\ \A i \in 1..Len(s) : Append(s, f)[i] = s[i]
            /\ Append(s, f)[Len(s) + 1] = f
        BY <3>2
      <4>2. \A i \in 1..Len(s) : s[i] # f /\ s[i] # Functor("destroyed", c)
        <5> TAKE i \in 1..Len(s)
        <5>1. s[i] \in Range(s)
          BY <3>2 DEF Range
        <5> QED
          BY <5>1, <2>2, <2>3, FunctorIn
      <4>3. Once(Append(s, f), c)
        BY <4>1, <4>2 DEF Once
      <4>4. First(Append(s, f), c)
        <5>1. /\ Len(s) + 1 \in 1..Len(Append(s, f))
              /\ \A j \in 1..((Len(s) + 1) - 1) : j \in 1..Len(s)
          BY <4>1
        <5> QED
          BY <5>1, <4>1, <4>2 DEF First
      <4> HIDE DEF q
      <4>5. /\ Range(q[GetLoop]) = Range(s) \cup {f}
            /\ f # Functor("removeConnectionInLoop", c) /\ f # Functor("destroyed", c)
        BY <3>2, PushSeq, FunctorIn
      <4>6. \A l \in Loops : ~Ending(q[l], c)
        BY <4>5, <3>2, <2>4 DEF Ending
      <4> QED
        BY <4>3, <4>4, <4>6, <3>2, <2>2, <2>4, <2>7 DEF Tidy
    <3>5. "kConnecting" \in States
      BY DEF States
    <3> HIDE DEF q
    <3> QED
      BY <3>1, <3>2, <3>3, <3>4, <3>5, <2>6
  <2> QED
    BY <2>8, <2>9
<1>4. CASE AcceptFails
  BY <1>4 DEF AcceptFails, poolVars, connVars, endVars, TypeOK, TidyInv
<1>5. CASE AcceptDrops
  BY <1>5 DEF AcceptDrops, poolVars, connVars, endVars, TypeOK, TidyInv
<1>6. CASE ReopenIdle
  BY <1>6 DEF ReopenIdle, poolVars, connVars, endVars, TypeOK, TidyInv
<1>7. ASSUME NEW c \in Conns, PeerClosed(c) PROVE Inv'
  <2>1. /\ Open(c) /\ UNCHANGED <<poolVars, loopOf, ended, server>>
        /\ Close(c, queues) \/ UNCHANGED <<connections_, queues, conns>>
    BY <1>7 DEF PeerClosed
  <2>2. CASE UNCHANGED <<connections_, queues, conns>>
    BY <2>1, <2>2 DEF TypeOK, TidyInv, poolVars
  <2>3. CASE Close(c, queues)
    <3>1. ConnTypes' /\ TidyInv'
      BY <2>1, <2>3, <1>0, CloseKeeps DEF AllTidy
    <3> QED
      BY <2>1, <3>1 DEF ConnTypes, TypeOK, poolVars
  <2> QED
    BY <2>1, <2>2, <2>3
<1>8. ASSUME NEW c \in Conns, NEW fn \in {"forceClose", "shutdown"}, UserQueues(fn, c),
              UNCHANGED <<poolVars, connections_, loopOf, ended, server>>
       PROVE  Inv'
  <2>1. /\ queues' = [queues EXCEPT ![loopOf[c]] = Append(@, Functor(fn, c))]
        /\ UNCHANGED conns
    BY <1>8 DEF UserQueues, Push
  <2>2. /\ Functor(fn, c) \in Functors /\ Functor(fn, c).fn # "established"
        /\ \A d \in Conns : Functor(fn, c) \notin
              {Functor("removeConnectionInLoop", d), Functor("destroyed", d)}
    BY <1>8, FunctorIn
  <2>3. queues' \in [Loops -> Seq(Functors)]
    BY <2>1, <2>2, <1>0
  <2>4. \A d \in Conns : Tidy(d, queues', conns[d], connections_, loopOf[d], ended, server)
    BY <2>1, <2>2, <1>0, TidyPush
  <2> QED
    BY <1>8, <2>1, <2>3, <2>4 DEF TypeOK, TidyInv, poolVars
<1>9. ASSUME NEW c \in Conns, ForceClose(c) PROVE Inv'
  BY <1>9, <1>8 DEF ForceClose, endVars
<1>10. ASSUME NEW c \in Conns, Shutdown(c) PROVE Inv'
  <2>1. UNCHANGED <<poolVars, connections_, loopOf, ended, server>>
    BY <1>10 DEF Shutdown, endVars
  <2>2. CASE UserQueues("shutdown", c)
    BY <2>1, <2>2, <1>8
  <2>3. CASE ShutdownInLoop(c) /\ UNCHANGED queues
    <3>1. conns' \in [Conns -> States] /\ TidyInv'
      <4>1. /\ conns' = [conns EXCEPT ![c] =
                           IF @ = "kConnected" THEN "kDisconnecting" ELSE @]
            /\ conns \in [Conns -> States] /\ loopOf \in [Conns -> Loops]
            /\ AllTidy(queues)
        BY <2>3, <1>0 DEF ShutdownInLoop, TypeOK, AllTidy
      <4> QED
        BY <4>1, <2>1, <2>3, ShutKeeps
    <3> QED
      BY <2>1, <2>3, <3>1 DEF TypeOK, poolVars
  <2> QED
    BY <1>10, <2>2, <2>3 DEF Shutdown
<1>11. ASSUME NEW l \in Loops, RunFunctor(l) PROVE Inv'
  <2>1. UNCHANGED <<poolVars, loopOf>>
    BY <1>11 DEF RunFunctor
  <2>2. ConnTypes' /\ TidyInv'
    BY <1>11, RunKeeps
  <2> QED
    BY <2>1, <2>2 DEF ConnTypes, TypeOK, poolVars
<1>12. ASSUME NEW m \in Loops, LoopEnds(m) PROVE Inv'
  <2>1. /\ ended' = ended \cup {m} /\ queues' = [queues EXCEPT ![m] = <<>>]
        /\ UNCHANGED <<poolVars, connections_, conns, loopOf, server>>
    BY <1>12 DEF LoopEnds
  <2>2. /\ queues' \in [Loops -> Seq(Functors)]
        /\ queues'[m] = <<>> /\ \A l \in Loops : l # m => queues'[l] = queues[l]
    BY <2>1, <1>0
  <2>3. \A d \in Conns : Tidy(d, queues', conns[d], connections_, loopOf[d], ended', server)
    <3> TAKE d \in Conns
    <3>1. Range(<<>>) = {} /\ Once(<<>>, d) /\ ~Ending(<<>>, d)
      BY DEF Range, Once, Ending
    <3>2. Tidy(d, queues, conns[d], connections_, loopOf[d], ended, server) /\ loopOf[d] \in Loops
      BY <1>0
    <3>3. CASE loopOf[d] = m
      BY <3>1, <3>2, <3>3, <2>1, <2>2 DEF Tidy
    <3>4. CASE loopOf[d] # m
      BY <3>1, <3>2, <3>4, <2>1, <2>2 DEF Tidy
    <3> QED
      BY <3>3, <3>4
  <2> QED
    BY <2>1, <2>2, <2>3 DEF TypeOK, TidyInv, poolVars
<1>13. CASE Destroy
  <2>1. PICK destroys \in [Loops -> UNION {Destroys(l) : l \in Loops}] :
            /\ \A l \in Loops : destroys[l] \in Destroys(l)
            /\ queues' = [l \in Loops |-> queues[l] \o destroys[l]]
    BY <1>13 DEF Destroy
  <2>2. /\ connections_' = {} /\ server' # "alive"
        /\ UNCHANGED <<poolVars, conns, loopOf, ended>>
    BY <1>13 DEF Destroy
  <2>3. \A l \in Loops :
            /\ destroys[l] \in Seq(Functors)
            /\ Range(destroys[l]) = {Functor("destroyed", c) :
                                         c \in {d \in connections_ : loopOf[d] = l}}
    BY <2>1, DestroysAll
  <2>4. \A l \in Loops, c \in Conns : Functor("established", c) \notin Range(destroys[l])
    BY <2>3 DEF Functor
  <2>5. \A l \in Loops, c \in Conns :
            /\ queues'[l] \in Seq(Functors)
            /\ Range(queues'[l]) = Range(queues[l]) \cup Range(destroys[l])
            /\ Once(queues[l], c) => Once(queues'[l], c)
            /\ First(queues[l], c) => First(queues'[l], c)
    <3> TAKE l \in Loops, c \in Conns
    <3>1. queues'[l] = queues[l] \o destroys[l] /\ queues[l] \in Seq(Functors)
      BY <2>1, <1>0
    <3> QED
      BY <3>1, <2>3, <2>4, ConcatSeq
  <2>6. queues' \in [Loops -> Seq(Functors)]
    BY <2>1, <2>3, <1>0
  <2>7. \A d \in Conns : Tidy(d, queues', conns[d], {}, loopOf[d], ended, server')
    <3> TAKE d \in Conns
    <3>1. Tidy(d, queues, conns[d], connections_, loopOf[d], ended, server) /\ loopOf[d] \in Loops
      BY <1>0
    <3>2. d \in connections_ => Functor("destroyed", d) \in Range(queues'[loopOf[d]])
      BY <3>1, <2>3, <2>5
    <3> QED
      BY <3>1, <3>2, <2>2, <2>4, <2>5 DEF Tidy
  <2> QED
    BY <2>2, <2>6, <2>7 DEF TypeOK, TidyInv, poolVars
<1>14. CASE Joined
  <2>1. server' # "alive" /\ UNCHANGED <<poolVars, connVars, ended>>
    BY <1>14 DEF Joined
  <2> QED
    BY <2>1, <1>0, TidyDown DEF poolVars, connVars, TypeOK, TidyInv
<1>15. ASSUME NEW p \in Peers, PeerConnects(p) PROVE Inv'
  BY <1>15 DEF PeerConnects, poolVars, connVars, endVars, TypeOK, TidyInv
<1>16. CASE OthersOpen
  BY <1>16 DEF OthersOpen, poolVars, connVars, endVars, TypeOK, TidyInv
<1>17. CASE OthersClose
  BY <1>17 DEF OthersClose, poolVars, connVars, endVars, TypeOK, TidyInv
<1>18. CASE UNCHANGED vars
  BY <1>18 DEF vars, poolVars, connVars, endVars, TypeOK, TidyInv
<1> QED
  BY <1>1, <1>2, <1>3, <1>4, <1>5, <1>6, <1>7, <1>9, <1>10, <1>11, <1>12, <1>13,
     <1>14, <1>15, <1>16, <1>17, <1>18 DEF Next, HandleRead

\* The inductive invariant of the server.
THEOREM Invariance == Spec => []Inv
BY InvInit, InvStep, PTL DEF Spec

\* An open connection belongs to the server or is about to be destroyed by its
\* loop, whatever order connections arrive, are shut down, close and are removed
\* in, and whenever ~TcpServer() runs, save one that is shut down and not yet
\* closed then.  As long as the server lives there is no exception.
THEOREM OpenIsAlwaysOwned == Spec => []OpenIsOwned
<1>1. Inv => OpenIsOwned
  BY DEF Inv, TidyInv, Tidy, OpenIsOwned, Queued
<1> QED
  BY <1>1, Invariance, PTL
=============================================================================
