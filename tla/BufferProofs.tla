---------------------------- MODULE BufferProofs ----------------------------
(***************************************************************************)
(* Theorems about the two components that move data through lists of       *)
(* buffers: AsyncLogging writes every line once and in order and relies    *)
(* rightly on what it does not look at, ReceiveBuffer holds the stream,    *)
(* reads it in order and in bounded memory.                                *)
(*                                                                         *)
(* Loops and concatenations are recursive functions, and what they compute *)
(* is shown by induction over the natural numbers, in a form that speaks   *)
(* of a set and not of a predicate: NatSet.                                *)
(***************************************************************************)
EXTENDS ReceiveBuffer, AsyncLogging, SequenceTheorems, WellFoundedInduction,
        TLAPS

-----------------------------------------------------------------------------
(* Induction and loops.                                                    *)

\* A set of naturals with 0 and the successor of each of its elements is Nat.
LEMMA NatSet ==
    ASSUME NEW S \in SUBSET Nat, 0 \in S, \A n \in S : n + 1 \in S
    PROVE  S = Nat
<1>0. SUFFICES ASSUME Nat \ S # {} PROVE FALSE
  OBVIOUS
<1>1. PICK x \in Nat \ S : \A y \in Nat \ S : ~(y < x)
  <2> DEFINE R == OpToRel(<, Nat)
  <2>1. IsWellFoundedOn(R, Nat)
    BY NatLessThanWellFounded
  <2>2. \A x, y \in Nat : y < x => <<y, x>> \in R
    BY Zenon DEF OpToRel
  <2> HIDE DEF R
  <2> QED
    BY <1>0, <2>1, <2>2, WFMin
<1>2. x # 0
  BY <1>1
<1>3. x - 1 \in Nat /\ x - 1 < x /\ (x - 1) + 1 = x
  BY <1>2
<1> QED
  BY <1>1, <1>3

\* What holds before a loop and is kept by each turn holds after every turn:
\* I[i] is the set of states that are right after turn i.
LEMMA LoopInvariant ==
    ASSUME NEW f, NEW I, NEW m \in Int, NEW n \in Int,
           f[m] \in I[m],
           \A i \in (m + 1)..n : f[i - 1] \in I[i - 1] => f[i] \in I[i]
    PROVE  \A i \in m..n : f[i] \in I[i]
<1> DEFINE S == {k \in Nat : m + k <= n => f[m + k] \in I[m + k]}
<1>1. 0 \in S
  <2>1. m + 0 = m
    OBVIOUS
  <2> QED
    BY <2>1
<1>2. ASSUME NEW k \in S PROVE k + 1 \in S
  <2>1. k + 1 \in Nat /\ k \in Nat
    OBVIOUS
  <2>2. SUFFICES ASSUME m + (k + 1) <= n PROVE f[m + (k + 1)] \in I[m + (k + 1)]
    BY <2>1
  <2>3. m + k <= n /\ (m + (k + 1)) - 1 = m + k /\ m + (k + 1) \in (m + 1)..n
    BY <2>1, <2>2
  <2>4. f[m + k] \in I[m + k]
    BY <2>3
  <2> QED
    BY <2>3, <2>4
<1> HIDE DEF S
<1>3. S = Nat
  <2>1. S \in SUBSET Nat
    BY DEF S
  <2> QED
    BY <1>1, <1>2, <2>1, NatSet
<1>4. ASSUME NEW i \in m..n PROVE f[i] \in I[i]
  <2>1. i - m \in Nat /\ m + (i - m) = i /\ i <= n
    OBVIOUS
  <2>2. i - m \in S
    BY <1>3, <2>1
  <2>3. m + (i - m) <= n => f[m + (i - m)] \in I[m + (i - m)]
    BY <2>2 DEF S
  <2> QED
    BY <2>1, <2>3
<1> QED
  BY <1>4

\* The states of a loop of n turns, where turn i is the function G[i] and
\* keeps to the sets I[i].
LoopKeeps(n, I, G) == \A i \in 1..n : \A s \in I[i - 1] : G[i][s] \in I[i]
LoopRun(f, n, I, G, start) ==
    /\ f = [i \in 0..n |-> f[i]]
    /\ f[0] = start
    /\ \A i \in 0..n : f[i] \in I[i]
    /\ \A i \in 1..n : f[i] = G[i][f[i - 1]]

\* Such a loop has a run.
LEMMA LoopExists ==
    ASSUME NEW n \in Nat, NEW I, NEW G, NEW start \in I[0], LoopKeeps(n, I, G)
    PROVE  \E f : LoopRun(f, n, I, G, start)
<1>0. \A i \in 1..n : \A s \in I[i - 1] : G[i][s] \in I[i]
  BY DEF LoopKeeps
<1> DEFINE Is(f, k) == /\ f = [i \in 0..k |-> f[i]]
                       /\ f[0] = start
                       /\ \A i \in 0..k : f[i] \in I[i]
                       /\ \A i \in 1..k : f[i] = G[i][f[i - 1]]
           S == {k \in Nat : k <= n => \E f : Is(f, k)}
<1>1. 0 \in S
  <2> DEFINE f == [i \in 0..0 |-> start]
  <2>1. 0..0 = {0} /\ 1..0 = {}
    OBVIOUS
  <2>2. Is(f, 0)
    BY <2>1
  <2> HIDE DEF f, Is
  <2>3. \E g : Is(g, 0)
    BY <2>2
  <2> QED
    BY <2>3
<1>2. ASSUME NEW k \in S PROVE k + 1 \in S
  <2>1. k + 1 \in Nat /\ k \in Nat
    OBVIOUS
  <2>2. SUFFICES ASSUME k + 1 <= n PROVE \E f : Is(f, k + 1)
    BY <2>1
  <2>3. PICK f : Is(f, k)
    BY <2>1, <2>2
  <2> DEFINE g == [i \in 0..(k + 1) |-> IF i = k + 1 THEN G[i][f[i - 1]] ELSE f[i]]
  <2>4. /\ \A i \in 0..(k + 1) : i = k + 1 \/ i \in 0..k
        /\ (k + 1) - 1 = k /\ k \in 0..k /\ k + 1 \in 1..n
        /\ 0 # k + 1 /\ 0 \in 0..(k + 1)
    BY <2>1, <2>2
  <2>5. f[k] \in I[k]
    BY <2>3, <2>4
  <2>6. g[0] = start
    BY <2>3, <2>4
  <2>7. ASSUME NEW i \in 0..(k + 1) PROVE g[i] \in I[i]
    <3>1. CASE i = k + 1
      <4>1. g[i] = G[i][f[k]]
        BY <3>1, <2>4
      <4> QED
        BY <1>0, <4>1, <3>1, <2>4, <2>5
    <3>2. CASE i # k + 1
      BY <3>2, <2>3, <2>4
    <3> QED
      BY <3>1, <3>2
  <2>8. ASSUME NEW i \in 1..(k + 1) PROVE g[i] = G[i][g[i - 1]]
    <3>1. i \in 0..(k + 1) /\ i - 1 \in 0..k /\ i - 1 \in 0..(k + 1) /\ i - 1 # k + 1
      BY <2>1
    <3>2. g[i - 1] = f[i - 1]
      BY <3>1
    <3>3. CASE i = k + 1
      BY <3>1, <3>2, <3>3
    <3>4. CASE i # k + 1
      <4>1. i \in 1..k
        BY <3>4, <2>1
      <4>2. g[i] = f[i]
        BY <3>1, <3>4
      <4> QED
        BY <4>1, <4>2, <3>2, <2>3
    <3> QED
      BY <3>3, <3>4
  <2>9. Is(g, k + 1)
    <3>1. g = [i \in 0..(k + 1) |-> g[i]]
      OBVIOUS
    <3> QED
      BY <3>1, <2>6, <2>7, <2>8
  <2> HIDE DEF Is, g
  <2> QED
    BY <2>9
<1>3. S = Nat
  <2>1. S \in SUBSET Nat
    OBVIOUS
  <2> HIDE DEF S
  <2> QED
    BY <1>1, <1>2, <2>1, NatSet
<1>4. \E f : Is(f, n)
  <2>1. n \in S
    BY <1>3
  <2> HIDE DEF Is
  <2> QED
    BY <2>1
<1> QED
  BY <1>4 DEF LoopRun

-----------------------------------------------------------------------------
(* FlattenSeq.                                                             *)

\* The function that FlattenSeq defines in its body.
FlattenUpTo(ss) ==
    CHOOSE f : f = [i \in 1..Len(ss) |->
                       IF i = 1 THEN ss[i] ELSE f[i - 1] \o ss[i]]

\* Each prefix of a sequence of sequences has its concatenation.
LEMMA FlattenPrefixes ==
    ASSUME NEW X, NEW ss \in Seq(Seq(X))
    PROVE  \E g : /\ g[0] = <<>>
                  /\ \A i \in 0..Len(ss) : g[i] \in Seq(X)
                  /\ \A i \in 1..Len(ss) : g[i] = g[i - 1] \o ss[i]
<1> DEFINE n == Len(ss)
           I == [i \in 0..n |-> Seq(X)]
           G == [i \in 1..n |-> [s \in Seq(X) |-> s \o ss[i]]]
<1>1. n \in Nat
  OBVIOUS
<1>2. \A i \in 1..n : i - 1 \in 0..n /\ i \in 0..n /\ ss[i] \in Seq(X)
  BY <1>1
<1>3. <<>> \in I[0]
  BY <1>1
<1>4. \A i \in 1..n : \A s \in Seq(X) : G[i][s] = s \o ss[i]
  OBVIOUS
<1>5. \A i \in 0..n : I[i] = Seq(X)
  OBVIOUS
<1> HIDE DEF n, I, G
<1>6. ASSUME NEW i \in 1..n, NEW s \in I[i - 1] PROVE G[i][s] \in I[i]
  <2>1. s \in Seq(X) /\ ss[i] \in Seq(X) /\ I[i] = Seq(X)
    BY <1>2, <1>5
  <2>2. s \o ss[i] \in Seq(X)
    BY <2>1
  <2>3. G[i][s] = s \o ss[i]
    BY <1>4, <2>1
  <2> QED
    BY <2>1, <2>2, <2>3
<1>7. LoopKeeps(n, I, G)
  BY <1>6 DEF LoopKeeps
<1>8. PICK g : LoopRun(g, n, I, G, <<>>)
  BY <1>1, <1>3, <1>7, LoopExists
<1>9. \A i \in 1..n : g[i] = g[i - 1] \o ss[i]
  BY <1>2, <1>4, <1>5, <1>8 DEF LoopRun
<1> QED
  BY <1>5, <1>8, <1>9 DEF n, LoopRun

\* Whatever satisfies its equations is what FlattenSeq computes.
LEMMA FlattenIs ==
    ASSUME NEW X, NEW ss \in Seq(Seq(X)), NEW g, g[0] = <<>>,
           \A i \in 0..Len(ss) : g[i] \in Seq(X),
           \A i \in 1..Len(ss) : g[i] = g[i - 1] \o ss[i]
    PROVE  FlattenSeq(ss) = g[Len(ss)]
<1> DEFINE n == Len(ss)
<1>1. n \in Nat
  OBVIOUS
<1>2. CASE n = 0
  BY <1>2 DEF FlattenSeq
<1>3. CASE n # 0
  <2> DEFINE h == [i \in 1..n |-> g[i]]
             f == FlattenUpTo(ss)
  <2>1. g[1] = ss[1]
    <3>1. 1 \in 1..n /\ 1 - 1 = 0
      BY <1>1, <1>3
    <3>2. g[1] = g[0] \o ss[1]
      BY <3>1
    <3>3. ss[1] \in Seq(X)
      BY <3>1
    <3> QED
      BY <3>2, <3>3
  <2>2. h = [i \in 1..n |-> IF i = 1 THEN ss[i] ELSE h[i - 1] \o ss[i]]
    <3>1. ASSUME NEW i \in 1..n
          PROVE  h[i] = IF i = 1 THEN ss[i] ELSE h[i - 1] \o ss[i]
      <4>1. CASE i = 1
        BY <4>1, <2>1
      <4>2. CASE i # 1
        <5>1. i - 1 \in 1..n
          BY <4>2
        <5> QED
          BY <4>2, <5>1
      <4> QED
        BY <4>1, <4>2
    <3> QED
      BY <3>1
  <2>3. f = [i \in 1..n |-> IF i = 1 THEN ss[i] ELSE f[i - 1] \o ss[i]]
    <3> HIDE DEF h
    <3> QED
      BY <2>2 DEF FlattenUpTo
  <2>4. FlattenSeq(ss) = f[n]
    BY <1>3 DEF FlattenSeq, FlattenUpTo
  <2> DEFINE I == [i \in 1..n |-> {g[i]}]
  <2> HIDE DEF f
  <2>5. f[1] \in I[1]
    <3>1. 1 \in 1..n
      BY <1>1, <1>3
    <3>2. f[1] = ss[1]
      BY <2>3, <3>1
    <3> QED
      BY <2>1, <3>1, <3>2
  <2>6. ASSUME NEW i \in (1 + 1)..n, f[i - 1] \in I[i - 1] PROVE f[i] \in I[i]
    <3>1. i - 1 \in 1..n /\ i \in 1..n /\ i # 1
      BY <1>1
    <3>2. f[i] = f[i - 1] \o ss[i]
      BY <2>3, <3>1
    <3>3. f[i - 1] = g[i - 1]
      BY <2>6, <3>1
    <3> QED
      BY <3>1, <3>2, <3>3
  <2> HIDE DEF I
  <2>7. 1 \in Int /\ n \in Int
    BY <1>1
  <2>8. \A i \in 1..n : f[i] \in I[i]
    BY <2>5, <2>6, <2>7, LoopInvariant
  <2>9. f[n] = g[n]
    <3>1. n \in 1..n
      BY <1>1, <1>3
    <3> QED
      BY <2>8, <3>1 DEF I
  <2> QED
    BY <2>4, <2>9
<1> QED
  BY <1>2, <1>3

\* What FlattenSeq returns is a sequence; nothing is concatenated to nothing.
LEMMA FlattenType ==
    ASSUME NEW X
    PROVE  /\ FlattenSeq(<<>>) = <<>>
           /\ \A ss \in Seq(Seq(X)) : FlattenSeq(ss) \in Seq(X)
<1>1. FlattenSeq(<<>>) = <<>>
  BY DEF FlattenSeq
<1>2. ASSUME NEW ss \in Seq(Seq(X)) PROVE FlattenSeq(ss) \in Seq(X)
  <2>1. PICK g : /\ g[0] = <<>>
                 /\ \A i \in 0..Len(ss) : g[i] \in Seq(X)
                 /\ \A i \in 1..Len(ss) : g[i] = g[i - 1] \o ss[i]
    BY FlattenPrefixes
  <2>2. FlattenSeq(ss) = g[Len(ss)]
    BY <2>1, FlattenIs
  <2>3. Len(ss) \in 0..Len(ss)
    OBVIOUS
  <2> QED
    BY <2>1, <2>2, <2>3
<1> QED
  BY <1>1, <1>2

\* Concatenation of three, in the form the proofs below instantiate.
LEMMA Assoc ==
    ASSUME NEW X
    PROVE  \A s, t, u \in Seq(X) : (s \o t) \o u = s \o (t \o u)
BY ConcatAssociative

\* A sequence more is concatenated at the end.
LEMMA FlattenAppend ==
    ASSUME NEW X
    PROVE  \A ss \in Seq(Seq(X)), s \in Seq(X) :
               FlattenSeq(Append(ss, s)) = FlattenSeq(ss) \o s
<1> SUFFICES ASSUME NEW ss \in Seq(Seq(X)), NEW s \in Seq(X)
             PROVE  FlattenSeq(Append(ss, s)) = FlattenSeq(ss) \o s
  OBVIOUS
<1> DEFINE n == Len(ss)
           tt == Append(ss, s)
<1>1. PICK g : /\ g[0] = <<>>
               /\ \A i \in 0..n : g[i] \in Seq(X)
               /\ \A i \in 1..n : g[i] = g[i - 1] \o ss[i]
  BY FlattenPrefixes
<1>2. FlattenSeq(ss) = g[n]
  BY <1>1, FlattenIs
<1> DEFINE h == [i \in 0..(n + 1) |-> IF i = n + 1 THEN g[n] \o s ELSE g[i]]
<1>3. /\ n \in Nat /\ tt \in Seq(Seq(X)) /\ Len(tt) = n + 1
      /\ \A i \in 1..n : tt[i] = ss[i]
      /\ tt[n + 1] = s
  OBVIOUS
<1>4. h[0] = <<>> /\ h[n + 1] = g[n] \o s
  BY <1>1, <1>3, SMTT(30)
<1>5. ASSUME NEW i \in 0..(n + 1) PROVE h[i] \in Seq(X)
  <2>1. i = n + 1 \/ i \in 0..n
    BY <1>3
  <2>2. n \in 0..n
    BY <1>3
  <2>3. g[n] \o s \in Seq(X)
    BY <1>1, <2>2
  <2> QED
    BY <1>1, <2>1, <2>3
<1>6. ASSUME NEW i \in 1..(n + 1) PROVE h[i] = h[i - 1] \o tt[i]
  <2>1. i - 1 \in 0..n /\ i - 1 \in 0..(n + 1) /\ i - 1 # n + 1 /\ i \in 0..(n + 1)
    BY <1>3
  <2>2. h[i - 1] = g[i - 1]
    BY <2>1
  <2>3. CASE i = n + 1
    <3>1. i - 1 = n
      BY <1>3, <2>3
    <3> QED
      BY <1>3, <1>4, <2>2, <2>3, <3>1
  <2>4. CASE i # n + 1
    <3>1. i \in 1..n
      BY <1>3, <2>4
    <3>2. h[i] = g[i]
      BY <2>1, <2>4
    <3> QED
      BY <1>1, <1>3, <2>2, <3>1, <3>2
  <2> QED
    BY <2>3, <2>4
<1> HIDE DEF h, tt, n
<1>7. FlattenSeq(tt) = h[Len(tt)]
  BY <1>3, <1>4, <1>5, <1>6, FlattenIs
<1> QED
  BY <1>2, <1>3, <1>4, <1>7 DEF tt

\* The first sequence comes first.
LEMMA FlattenFirst ==
    ASSUME NEW X
    PROVE  \A ss \in Seq(Seq(X)) :
               ss # <<>> => FlattenSeq(ss) = ss[1] \o FlattenSeq(Tail(ss))
<1>a. \A a, b, c \in Seq(X) : (a \o b) \o c = a \o (b \o c)
  BY Assoc
<1> SUFFICES ASSUME NEW ss \in Seq(Seq(X)), ss # <<>>
             PROVE  FlattenSeq(ss) = ss[1] \o FlattenSeq(Tail(ss))
  OBVIOUS
<1> DEFINE n == Len(ss)
           tt == Tail(ss)
<1>1. /\ n \in Nat \ {0} /\ tt \in Seq(Seq(X)) /\ Len(tt) = n - 1
      /\ \A i \in 1..(n - 1) : tt[i] = ss[i + 1]
      /\ ss[1] \in Seq(X)
  OBVIOUS
<1> HIDE DEF tt
<1>0. PICK g : /\ g[0] = <<>>
               /\ \A i \in 0..Len(tt) : g[i] \in Seq(X)
               /\ \A i \in 1..Len(tt) : g[i] = g[i - 1] \o tt[i]
  BY <1>1, FlattenPrefixes
<1>2. /\ \A i \in 0..(n - 1) : g[i] \in Seq(X)
      /\ \A i \in 1..(n - 1) : g[i] = g[i - 1] \o tt[i]
  BY <1>0, <1>1
<1>3. FlattenSeq(tt) = g[n - 1]
  <2>1. FlattenSeq(tt) = g[Len(tt)]
    BY <1>0, <1>1, FlattenIs
  <2> QED
    BY <1>1, <2>1
<1> DEFINE h == [i \in 0..n |-> IF i = 0 THEN <<>> ELSE ss[1] \o g[i - 1]]
<1>4. h[0] = <<>> /\ h[n] = ss[1] \o g[n - 1]
  <2>1. 0 \in 0..n /\ n \in 0..n /\ n # 0
    BY <1>1
  <2> QED
    BY <2>1
<1>5. ASSUME NEW i \in 0..n PROVE h[i] \in Seq(X)
  <2>1. CASE i = 0
    BY <2>1
  <2>2. CASE i # 0
    <3>1. i - 1 \in 0..(n - 1)
      BY <1>1, <2>2
    <3>2. g[i - 1] \in Seq(X)
      BY <1>2, <3>1
    <3>3. h[i] = ss[1] \o g[i - 1]
      BY <2>2
    <3> QED
      BY <1>1, <3>2, <3>3
  <2> QED
    BY <2>1, <2>2
<1>6. ASSUME NEW i \in 1..n PROVE h[i] = h[i - 1] \o ss[i]
  <2>1. i \in 0..n /\ i - 1 \in 0..n /\ i # 0
    BY <1>1
  <2>2. h[i] = ss[1] \o g[i - 1]
    BY <2>1
  <2>3. CASE i = 1
    <3>1. i - 1 = 0
      BY <2>3
    <3>2. h[i - 1] = <<>> /\ g[i - 1] = <<>>
      BY <1>0, <1>4, <3>1
    <3>3. ss[1] \o <<>> = ss[1] /\ <<>> \o ss[1] = ss[1]
      BY <1>1, ConcatEmptySeq
    <3> QED
      BY <2>2, <2>3, <3>2, <3>3
  <2>4. CASE i # 1
    <3>1. /\ i - 1 \in 1..(n - 1) /\ (i - 1) + 1 = i /\ i - 1 # 0
          /\ (i - 1) - 1 \in 0..(n - 1)
      BY <1>1, <2>4
    <3> DEFINE before == g[(i - 1) - 1]
    <3>2. g[i - 1] = before \o ss[i]
      BY <1>1, <1>2, <3>1
    <3>3. h[i - 1] = ss[1] \o before
      BY <2>1, <3>1
    <3>4. (ss[1] \o before) \o ss[i] = ss[1] \o (before \o ss[i])
      <4>1. before \in Seq(X)
        BY <1>2, <3>1
      <4>2. ss[i] \in Seq(X)
        OBVIOUS
      <4>3. ss[1] \in Seq(X)
        BY <1>1
      <4> HIDE DEF before
      <4> QED
        BY <1>a, <4>1, <4>2, <4>3, Zenon
    <3> QED
      BY <2>2, <3>2, <3>3, <3>4
  <2> QED
    BY <2>3, <2>4
<1> HIDE DEF h, n
<1>7. FlattenSeq(ss) = h[n]
  BY <1>4, <1>5, <1>6, FlattenIs DEF n
<1> QED
  BY <1>3, <1>4, <1>7 DEF tt

\* What is added to the last sequence is added at the end.
LEMMA FlattenLast ==
    ASSUME NEW X
    PROVE  \A ss, tt \in Seq(Seq(X)), s \in Seq(X) :
               /\ ss # <<>> /\ Len(tt) = Len(ss)
               /\ tt[Len(ss)] = ss[Len(ss)] \o s
               /\ \A i \in 1..Len(ss) : i # Len(ss) => tt[i] = ss[i]
               => FlattenSeq(tt) = FlattenSeq(ss) \o s
<1>a. \A a, b, c \in Seq(X) : (a \o b) \o c = a \o (b \o c)
  BY Assoc
<1> SUFFICES ASSUME NEW ss \in Seq(Seq(X)), NEW tt \in Seq(Seq(X)),
                    NEW s \in Seq(X),
                    ss # <<>>, Len(tt) = Len(ss), tt[Len(ss)] = ss[Len(ss)] \o s,
                    \A i \in 1..Len(ss) : i # Len(ss) => tt[i] = ss[i]
             PROVE  FlattenSeq(tt) = FlattenSeq(ss) \o s
  OBVIOUS
<1> DEFINE n == Len(ss)
<1>1. PICK g : /\ g[0] = <<>>
               /\ \A i \in 0..n : g[i] \in Seq(X)
               /\ \A i \in 1..n : g[i] = g[i - 1] \o ss[i]
  BY FlattenPrefixes
<1>2. FlattenSeq(ss) = g[n]
  BY <1>1, FlattenIs
<1> DEFINE h == [i \in 0..n |-> IF i = n THEN g[n] \o s ELSE g[i]]
<1>3. n \in Nat \ {0} /\ n \in 0..n /\ n \in 1..n
  OBVIOUS
<1>4. h[0] = <<>> /\ h[n] = g[n] \o s /\ g[n] \in Seq(X)
  <2>1. 0 \in 0..n /\ 0 # n
    BY <1>3
  <2>2. g[n] \in Seq(X)
    BY <1>1, <1>3
  <2> QED
    BY <1>1, <1>3, <2>1, <2>2
<1>5. ASSUME NEW i \in 0..n PROVE h[i] \in Seq(X)
  BY <1>1, <1>4
<1>6. ASSUME NEW i \in 1..n PROVE h[i] = h[i - 1] \o tt[i]
  <2>1. i - 1 \in 0..n /\ i - 1 # n /\ i \in 0..n
    BY <1>3
  <2>2. h[i - 1] = g[i - 1] /\ g[i - 1] \in Seq(X)
    BY <1>1, <2>1
  <2>3. CASE i = n
    <3>1. g[n] = g[i - 1] \o ss[n]
      BY <1>1, <2>3
    <3>2. (g[i - 1] \o ss[n]) \o s = g[i - 1] \o (ss[n] \o s)
      <4>1. ss[n] \in Seq(X)
        BY <1>3
      <4>2. g[i - 1] \in Seq(X)
        BY <2>2
      <4> QED
        BY <1>a, <4>1, <4>2, Zenon
    <3> QED
      BY <1>4, <2>2, <2>3, <3>1, <3>2
  <2>4. CASE i # n
    <3>1. h[i] = g[i] /\ tt[i] = ss[i]
      BY <2>1, <2>4
    <3> QED
      BY <1>1, <2>2, <3>1
  <2> QED
    BY <2>3, <2>4
<1> HIDE DEF h
<1>7. FlattenSeq(tt) = h[Len(tt)]
  BY <1>4, <1>5, <1>6, FlattenIs, ZenonT(30)
<1> QED
  BY <1>2, <1>4, <1>7

-----------------------------------------------------------------------------
(* AsyncLogging: where the thread is.                                      *)

\* The first thread begins with running_ set: start() does not return before
\* the thread has counted the latch down.  Loggers are taken over and
\* written in one go.
ControlInv ==
    /\ starts \in Nat
    /\ starts = 0 => owner = "idle" /\ thread = "none" /\ latch_ = 1
    /\ starts = 1 /\ thread = "begin" =>
           running_ /\ latch_ = 1 /\ owner \in {"latch", "latchWait"}
    /\ thread = "aborted" => starts > 1
    /\ asyncLoggers_ \in Seq(Loggers) /\ toWrite \in Seq(Loggers)
    /\ thread # "write" => toWrite = <<>>
    /\ owner = "idle" => thread \in {"none", "aborted"}

\* Each step keeps it.
LEMMA ControlStep == ControlInv /\ [LogNext]_logVars => ControlInv'
<1> SUFFICES ASSUME ControlInv, [LogNext]_logVars PROVE ControlInv'
  OBVIOUS
<1> USE DEF ControlInv, loggers
<1>1. ASSUME NEW l \in Loggers, NEW len \in Lengths, LogAppend(l, len)
      PROVE  ControlInv'
  <2>1. asyncLoggers_' \in Seq(Loggers)
    <3>1. asyncLoggers_' \in {asyncLoggers_, Append(asyncLoggers_, l)}
      BY <1>1 DEF LogAppend
    <3>2. Append(asyncLoggers_, l) \in Seq(Loggers)
      OBVIOUS
    <3> QED
      BY <3>1, <3>2
  <2>2. thread' \in {thread, "woken"} /\ (thread' # thread => thread = "wait")
    BY <1>1 DEF LogAppend, Notified
  <2>3. UNCHANGED <<running_, latch_, owner, toWrite, starts>>
    BY <1>1 DEF LogAppend
  <2> QED
    BY <2>1, <2>2, <2>3
<1>2. ASSUME NEW time \in 1..MaxTime, ClockSet(time) PROVE ControlInv'
  BY <1>2 DEF ClockSet
<1>3. CASE Start
  BY <1>3 DEF Start
<1>4. CASE LatchWait
  BY <1>4 DEF LatchWait
<1>5. CASE StopClears
  BY <1>5 DEF StopClears
<1>6. CASE StopNotifies
  BY <1>6 DEF StopNotifies, Notified
<1>7. CASE StopJoins
  BY <1>7 DEF StopJoins
<1>8. CASE ThreadBegins
  BY <1>8 DEF ThreadBegins, CountDown
<1>9. CASE ThreadTests \/ ThreadWaits \/ LogSpurious \/ ThreadWritten
  BY <1>9 DEF ThreadTests, ThreadWaits, LogSpurious, ThreadWritten
<1>10. CASE ThreadSwaps
  BY <1>10 DEF ThreadSwaps
<1>11. CASE ThreadWrites
  <2>1. toWrite' \in Seq(Loggers)
    BY <1>11 DEF ThreadWrites
  <2> QED
    BY <1>11, <2>1 DEF ThreadWrites
<1>12. CASE UNCHANGED logVars
  BY <1>12 DEF logVars
<1> QED
  BY <1>1, <1>2, <1>3, <1>4, <1>5, <1>6, <1>7, <1>8, <1>9, <1>10, <1>11, <1>12
  DEF LogNext, ThreadStep

-----------------------------------------------------------------------------
(* AsyncLogging: the buffers of a logger.                                  *)

Fields == {"notEmpty_", "currentBuffer_", "nextBuffer_", "buffers_",
           "buffersToWrite_", "buffer1_", "buffer2_", "done", "count_", "files"}
Line == [n : Nat, len : Lengths]
Buffers == Seq(Seq(Line))
Spare == {null, <<EmptyBuffer>>}

\* Spare buffers are empty, and one that was given away has been filled:
\* either it is among those in use or its successor is.
LoggerOK(lg) ==
    /\ lg = [f \in Fields |-> lg[f]]
    /\ lg.currentBuffer_ \in Seq(Line) /\ lg.buffers_ \in Buffers
    /\ lg.buffersToWrite_ \in Buffers
    /\ lg.nextBuffer_ \in Spare /\ lg.buffer1_ \in Spare /\ lg.buffer2_ \in Spare
    /\ lg.done \in 0..Len(lg.buffersToWrite_)
    /\ lg.nextBuffer_ = null => lg.buffers_ # <<>>
    /\ lg.buffer1_ = null \/ lg.buffer2_ = null => lg.buffersToWrite_ # <<>>
    /\ lg.buffer1_ = null /\ lg.buffer2_ = null => Len(lg.buffersToWrite_) >= 2

\* A logger that is not being written has both spare buffers.
Resting(lg) ==
    /\ lg.buffer1_ # null /\ lg.buffer2_ # null
    /\ lg.buffersToWrite_ = <<>> /\ lg.done = 0

LoggersInv ==
    /\ lines \in Nat
    /\ logger = [l \in Loggers |-> logger[l]]
    /\ \A l \in Loggers :
           /\ LoggerOK(logger[l])
           /\ (\A i \in DOMAIN toWrite : toWrite[i] # l) => Resting(logger[l])

\* A spare buffer.
LEMMA SpareIsEmpty ==
    /\ null \in Spare /\ <<EmptyBuffer>> \in Spare /\ <<EmptyBuffer>> # null
    /\ \A b \in Spare : b # null => b[1] = <<>>
    /\ EmptyBuffer = <<>> /\ <<>> \in Seq(Line) /\ <<>> \in Buffers
BY DEF Spare, EmptyBuffer, null, Buffers

\* Adding a line keeps it a buffer.
LEMMA BufferAppendType ==
    ASSUME NEW buffer \in Seq(Line), NEW line \in Line
    PROVE  BufferAppend(buffer, line) \in Seq(Line)
BY DEF BufferAppend

\* What push_back() leaves is a vector of the same kind, and not empty.
LEMMA AppendIn ==
    ASSUME NEW S
    PROVE  \A s \in Seq(S), e \in S : Append(s, e) \in Seq(S) /\ Append(s, e) # <<>>
<1>1. \A s \in Seq(S), e \in S : Append(s, e) \in Seq(S)
  OBVIOUS
<1>2. \A s \in Seq(S), e \in S : Append(s, e) # <<>>
  <2> SUFFICES ASSUME NEW s \in Seq(S), NEW e \in S PROVE Append(s, e) # <<>>
    OBVIOUS
  <2>1. Len(s) \in Nat /\ Len(Append(s, e)) = Len(s) + 1
    BY AppendProperties
  <2>2. Len(Append(s, e)) # 0
    BY <2>1
  <2> QED
    BY <2>2, EmptySeq
<1> QED
  BY <1>1, <1>2

\* append() fills the current buffer or takes the spare one.
LEMMA AppendKeeps ==
    ASSUME NEW lg, LoggerOK(lg), NEW line \in Line
    PROVE  LET after == AppendToBuffer(lg, line)
           IN /\ LoggerOK(after)
              /\ Resting(lg) => Resting(after)
<1> DEFINE after == AppendToBuffer(lg, line)
<1>1. CASE Avail(lg.currentBuffer_) > line.len
  <2>1. after = [lg EXCEPT !.currentBuffer_ = BufferAppend(lg.currentBuffer_, line),
                           !.notEmpty_ = TRUE]
    BY <1>1 DEF AppendToBuffer
  <2>2. BufferAppend(lg.currentBuffer_, line) \in Seq(Line)
    BY BufferAppendType DEF LoggerOK
  <2> QED
    BY <2>1, <2>2 DEF LoggerOK, Resting, Fields
<1>2. CASE ~(Avail(lg.currentBuffer_) > line.len)
  <2> DEFINE next == IF lg.nextBuffer_ # null THEN lg.nextBuffer_[1]
                     ELSE EmptyBuffer
  <2>1. next \in Seq(Line)
    BY SpareIsEmpty DEF LoggerOK
  <2>2. BufferAppend(next, line) \in Seq(Line)
    BY <2>1, BufferAppendType
  <2>3. /\ Append(lg.buffers_, lg.currentBuffer_) \in Buffers
        /\ Append(lg.buffers_, lg.currentBuffer_) # <<>>
    <3>1. \A s \in Buffers, b \in Seq(Line) :
              Append(s, b) \in Buffers /\ Append(s, b) # <<>>
      BY AppendIn, Zenon DEF Buffers
    <3> QED
      BY <3>1 DEF LoggerOK
  <2>4. after = [lg EXCEPT !.buffers_ = Append(lg.buffers_, lg.currentBuffer_),
                           !.currentBuffer_ = BufferAppend(next, line),
                           !.nextBuffer_ = null,
                           !.notEmpty_ = TRUE]
    BY <1>2 DEF AppendToBuffer
  <2> HIDE DEF next
  <2> QED
    BY <2>2, <2>3, <2>4, SpareIsEmpty DEF LoggerOK, Resting, Fields
<1> QED
  BY <1>1, <1>2

\* swapBuffersToWrite() gives away as many spare buffers as it takes full
\* ones.
LEMMA SwapKeeps ==
    ASSUME NEW lg, LoggerOK(lg), Resting(lg)
    PROVE  LoggerOK(SwapBuffersToWrite(lg))
<1> DEFINE used == Length(lg.currentBuffer_) > 0
           full == IF used THEN Append(lg.buffers_, lg.currentBuffer_)
                   ELSE lg.buffers_
           after == SwapBuffersToWrite(lg)
<1>1. after = [lg EXCEPT
            !.currentBuffer_ = IF used THEN lg.buffer1_[1] ELSE lg.currentBuffer_,
            !.buffer1_ = IF used THEN null ELSE lg.buffer1_,
            !.nextBuffer_ = IF lg.nextBuffer_ = null THEN lg.buffer2_
                            ELSE lg.nextBuffer_,
            !.buffer2_ = IF lg.nextBuffer_ = null THEN null ELSE lg.buffer2_,
            !.buffersToWrite_ = full,
            !.buffers_ = lg.buffersToWrite_,
            !.notEmpty_ = FALSE]
  BY DEF SwapBuffersToWrite
<1>2. /\ lg.buffer1_[1] \in Seq(Line) /\ lg.currentBuffer_ \in Seq(Line)
      /\ full \in Buffers /\ Len(full) \in Nat
  BY SpareIsEmpty DEF LoggerOK, Resting, Buffers
<1>3. /\ used => Len(full) = Len(lg.buffers_) + 1
      /\ ~used => full = lg.buffers_
      /\ lg.nextBuffer_ = null => Len(lg.buffers_) >= 1
      /\ Len(lg.buffers_) \in Nat
  BY DEF LoggerOK, Buffers
<1> HIDE DEF used, full
<1>4. after = [f \in Fields |-> after[f]]
  BY <1>1 DEF LoggerOK, Fields
<1>5. /\ after.currentBuffer_ \in Seq(Line) /\ after.buffers_ \in Buffers
      /\ after.buffersToWrite_ = full
      /\ after.buffer1_ = IF used THEN null ELSE lg.buffer1_
      /\ after.buffer2_ = IF lg.nextBuffer_ = null THEN null ELSE lg.buffer2_
      /\ after.nextBuffer_ # null /\ after.nextBuffer_ \in Spare
      /\ after.done = 0
  BY <1>1, <1>2 DEF LoggerOK, Resting, Fields
<1>6. after.buffer1_ = null => used
  BY <1>5 DEF Resting
<1>7. after.buffer2_ = null => lg.nextBuffer_ = null
  BY <1>5 DEF Resting
<1>8. /\ after.buffer1_ = null \/ after.buffer2_ = null => Len(full) >= 1
      /\ after.buffer1_ = null /\ after.buffer2_ = null => Len(full) >= 2
  BY <1>2, <1>3, <1>6, <1>7
<1>9. full \in Buffers /\ (Len(full) >= 1 => full # <<>>) /\ 0 \in 0..Len(full)
  BY <1>2 DEF Buffers
<1> QED
  BY <1>4, <1>5, <1>8, <1>9, SpareIsEmpty DEF LoggerOK

\* append_unlocked() writes one more of the buffers.
LEMMA WriteKeeps ==
    ASSUME NEW lg, LoggerOK(lg), lg.done < Len(lg.buffersToWrite_)
    PROVE  LoggerOK(AppendToFile(lg))
<1> DEFINE after == AppendToFile(lg)
<1>1. /\ after = [f \in Fields |-> after[f]]
      /\ after.done = lg.done + 1
      /\ \A f \in Fields \ {"done", "files", "count_"} : after[f] = lg[f]
  BY DEF LoggerOK, Fields, AppendToFile
<1>2. lg.done + 1 \in 0..Len(lg.buffersToWrite_)
  BY DEF LoggerOK, Buffers
<1> HIDE DEF after
<1> QED
  BY <1>1, <1>2 DEF LoggerOK, Fields, after

\* What follows replaces what was given away.
LEMMA GiveBackKeeps ==
    ASSUME NEW lg, LoggerOK(lg)
    PROVE  LoggerOK(GiveBackBuffers(lg)) /\ Resting(GiveBackBuffers(lg))
<1> DEFINE after == GiveBackBuffers(lg)
<1>1. /\ after = [f \in Fields |-> after[f]]
      /\ after.done = 0 /\ after.buffersToWrite_ = <<>>
      /\ after.buffer1_ = IF lg.buffer1_ = null THEN <<EmptyBuffer>> ELSE lg.buffer1_
      /\ after.buffer2_ = IF lg.buffer2_ = null THEN <<EmptyBuffer>> ELSE lg.buffer2_
      /\ after.nextBuffer_ = lg.nextBuffer_ /\ after.buffers_ = lg.buffers_
      /\ after.currentBuffer_ = lg.currentBuffer_
  BY DEF LoggerOK, Fields, GiveBackBuffers
<1>2. 0 \in 0..Len(<<>>)
  OBVIOUS
<1> HIDE DEF after
<1> QED
  BY <1>1, <1>2, SpareIsEmpty DEF LoggerOK, Resting, after

\* Each step keeps every logger in order.
LEMMA LoggersStep ==
    ControlInv /\ LoggersInv /\ [LogNext]_logVars => LoggersInv'
<1> SUFFICES ASSUME ControlInv, LoggersInv, [LogNext]_logVars PROVE LoggersInv'
  OBVIOUS
<1>0. /\ lines \in Nat /\ toWrite \in Seq(Loggers) /\ asyncLoggers_ \in Seq(Loggers)
      /\ logger = [l \in Loggers |-> logger[l]]
      /\ \A l \in Loggers : LoggerOK(logger[l])
      /\ \A l \in Loggers : (\A i \in DOMAIN toWrite : toWrite[i] # l)
                                => Resting(logger[l])
  BY DEF ControlInv, LoggersInv
\* A step that leaves the loggers alone.
<1>a. ASSUME UNCHANGED <<logger, toWrite, lines>> PROVE LoggersInv'
  BY <1>0, <1>a DEF LoggersInv
<1>1. ASSUME NEW l \in Loggers, NEW len \in Lengths, LogAppend(l, len)
      PROVE  LoggersInv'
  <2> DEFINE line == [n |-> lines', len |-> len]
  <2>1. /\ lines' \in Nat /\ toWrite' = toWrite
        /\ logger' = [logger EXCEPT ![l] = AppendToBuffer(logger[l], line)]
    BY <1>0, <1>1 DEF LogAppend
  <2>2. line \in Line
    BY <2>1 DEF Line
  <2>3. /\ LoggerOK(AppendToBuffer(logger[l], line))
        /\ Resting(logger[l]) => Resting(AppendToBuffer(logger[l], line))
    BY <1>0, <2>2, AppendKeeps
  <2> HIDE DEF line
  <2> QED
    BY <1>0, <2>1, <2>3 DEF LoggersInv
<1>2. ASSUME NEW time \in 1..MaxTime, ClockSet(time) PROVE LoggersInv'
  BY <1>2, <1>a DEF ClockSet
<1>3. CASE Start \/ LatchWait \/ StopClears \/ StopNotifies \/ StopJoins
  BY <1>3, <1>a DEF Start, LatchWait, StopClears, StopNotifies, StopJoins, loggers
<1>4. CASE ThreadBegins \/ ThreadTests \/ ThreadWaits \/ LogSpurious \/ ThreadWritten
  BY <1>4, <1>a
  DEF ThreadBegins, ThreadTests, ThreadWaits, LogSpurious, ThreadWritten, loggers
<1>5. CASE ThreadSwaps
  <2>1. toWrite = <<>> /\ toWrite' = asyncLoggers_ /\ lines' = lines
    BY <1>5 DEF ThreadSwaps, ControlInv
  <2>2. \A l \in Loggers : Resting(logger[l])
    BY <1>0, <2>1
  <2>3. logger' = [l \in Loggers |->
                      IF \E i \in DOMAIN asyncLoggers_ : asyncLoggers_[i] = l
                      THEN SwapBuffersToWrite(logger[l]) ELSE logger[l]]
    BY <1>5 DEF ThreadSwaps
  <2>4. \A l \in Loggers : LoggerOK(SwapBuffersToWrite(logger[l]))
    BY <1>0, <2>2, SwapKeeps
  <2>5. \A l \in Loggers : LoggerOK(logger'[l])
    BY <1>0, <2>3, <2>4
  <2>6. \A l \in Loggers : (\A i \in DOMAIN toWrite' : toWrite'[i] # l)
                               => Resting(logger'[l])
    BY <2>1, <2>2, <2>3
  <2> QED
    BY <1>0, <2>1, <2>3, <2>5, <2>6 DEF LoggersInv
<1>6. CASE ThreadWrites
  <2> DEFINE l == Head(toWrite)
             more == logger[l].done < Len(logger[l].buffersToWrite_)
             after == IF more THEN AppendToFile(logger[l])
                      ELSE GiveBackBuffers(logger[l])
  <2>1. /\ toWrite # <<>> /\ lines' = lines
        /\ logger' = [logger EXCEPT ![l] = after]
        /\ toWrite' = IF more THEN toWrite ELSE Tail(toWrite)
    BY <1>6 DEF ThreadWrites
  <2>2. l \in Loggers /\ l = toWrite[1] /\ 1 \in DOMAIN toWrite
    BY <1>0, <2>1
  <2>3. LoggerOK(after) /\ (~more => Resting(after))
    BY <1>0, <2>2, WriteKeeps, GiveBackKeeps
  <2>4. ASSUME NEW m \in Loggers, m # l, \A i \in DOMAIN toWrite' : toWrite'[i] # m
        PROVE  \A i \in DOMAIN toWrite : toWrite[i] # m
    <3>1. CASE more
      BY <2>1, <2>4, <3>1
    <3>2. CASE ~more
      <4>1. /\ toWrite' = Tail(toWrite)
            /\ DOMAIN toWrite = 1..Len(toWrite)
            /\ DOMAIN Tail(toWrite) = 1..(Len(toWrite) - 1)
            /\ \A i \in 1..(Len(toWrite) - 1) : Tail(toWrite)[i] = toWrite[i + 1]
            /\ Len(toWrite) \in Nat \ {0}
        BY <1>0, <2>1, <3>2
      <4>2. ASSUME NEW i \in 1..Len(toWrite), i # 1 PROVE toWrite[i] # m
        <5>1. i - 1 \in 1..(Len(toWrite) - 1) /\ (i - 1) + 1 = i
          BY <4>1, <4>2
        <5> QED
          BY <2>4, <4>1, <5>1
      <4> QED
        BY <2>2, <2>4, <4>1, <4>2
    <3> QED
      BY <3>1, <3>2
  <2>5. more => ~(\A i \in DOMAIN toWrite' : toWrite'[i] # l)
    BY <2>1, <2>2
  <2> HIDE DEF l, more, after
  <2>6. \A m \in Loggers : logger'[m] = IF m = l THEN after ELSE logger[m]
    BY <1>0, <2>1, <2>2
  <2>7. \A m \in Loggers : LoggerOK(logger'[m])
    BY <1>0, <2>3, <2>6
  <2>8. \A m \in Loggers : (\A i \in DOMAIN toWrite' : toWrite'[i] # m)
                               => Resting(logger'[m])
    BY <1>0, <2>3, <2>4, <2>5, <2>6
  <2> QED
    BY <1>0, <2>1, <2>7, <2>8 DEF LoggersInv
<1>7. CASE UNCHANGED logVars
  BY <1>7, <1>a DEF logVars
<1> QED
  BY <1>1, <1>2, <1>3, <1>4, <1>5, <1>6, <1>7 DEF LogNext, ThreadStep

\* A new logger is in order.
LEMMA LogInvInit == LogInit => ControlInv /\ LoggersInv
<1> SUFFICES ASSUME LogInit PROVE ControlInv /\ LoggersInv
  OBVIOUS
<1>1. ControlInv
  BY DEF LogInit, ControlInv
<1>2. \A l \in Loggers : logger[l] = NewLogger(1)
  BY DEF LogInit
<1>3. LoggerOK(NewLogger(1)) /\ Resting(NewLogger(1))
  <2>1. 0 \in 0..Len(<<>>)
    OBVIOUS
  <2> QED
    BY <2>1, SpareIsEmpty DEF NewLogger, LoggerOK, Resting, Fields
<1> QED
  BY <1>1, <1>2, <1>3 DEF LogInit, LoggersInv

\* For any number of loggers, lines and restarts: the thread finds running_
\* set unless there was a stop() and a second start(), a logger that may be
\* swapped has its spare buffers, and writing gives back enough of them.
THEOREM LoggingReliesRightly == LogSpec => []ReliesRightly
<1>1. ControlInv /\ LoggersInv /\ [LogNext]_logVars => (ControlInv /\ LoggersInv)'
  BY ControlStep, LoggersStep
<1>2. ControlInv /\ LoggersInv => ReliesRightly
  <2> SUFFICES ASSUME ControlInv, LoggersInv, NEW l \in Loggers
               PROVE  LET lg == logger[l]
                          missing == (IF lg.buffer1_ = null THEN 1 ELSE 0)
                                     + (IF lg.buffer2_ = null THEN 1 ELSE 0)
                      IN /\ missing <= Len(lg.buffersToWrite_)
                         /\ (\A i \in DOMAIN toWrite : toWrite[i] # l)
                                => missing = 0
    BY DEF ControlInv, ReliesRightly
  <2>1. LoggerOK(logger[l]) /\ logger[l].buffersToWrite_ \in Buffers
    BY DEF LoggersInv, LoggerOK
  <2>2. /\ Len(logger[l].buffersToWrite_) \in Nat
        /\ logger[l].buffersToWrite_ # <<>> => Len(logger[l].buffersToWrite_) >= 1
    BY <2>1 DEF Buffers
  <2> QED
    BY <2>1, <2>2 DEF LoggersInv, LoggerOK, Resting
<1> QED
  BY LogInvInit, <1>1, <1>2, PTL DEF LogSpec

-----------------------------------------------------------------------------
(* AsyncLogging: the lines.                                                *)

\* The lines of a buffer have a length in all, and an empty one has none.
LEMMA LengthNat ==
    /\ Length(<<>>) = 0
    /\ \A buffer \in Seq(Line) : Length(buffer) \in Nat
<1> USE LoggingAssumption
<1> DEFINE Step(buffer, f) == [i \in 0..Len(buffer) |->
                                  IF i = 0 THEN 0 ELSE f[i - 1] + buffer[i].len]
           F(buffer) == CHOOSE f : f = Step(buffer, f)
<1>1. ASSUME NEW buffer PROVE Length(buffer) = F(buffer)[Len(buffer)]
  BY DEF Length
<1>2. ASSUME NEW buffer \in Seq(Line)
      PROVE  Length(buffer) \in Nat /\ (Len(buffer) = 0 => Length(buffer) = 0)
  <2> DEFINE n == Len(buffer)
             I == [i \in 0..n |-> Nat]
             G == [i \in 1..n |-> [x \in Nat |-> x + buffer[i].len]]
  <2>1. n \in Nat /\ \A i \in 1..n : buffer[i].len \in Nat
    <3>1. \A x \in Line : x.len \in Nat
      BY DEF Line
    <3>2. n \in Nat /\ \A i \in 1..n : buffer[i] \in Line
      OBVIOUS
    <3> QED
      BY <3>1, <3>2
  <2>2. \A i \in 1..n : i - 1 \in 0..n /\ i \in 0..n
    BY <2>1
  <2>3. 0 \in I[0]
    BY <2>1
  <2>4. /\ \A i \in 0..n : I[i] = Nat
        /\ \A i \in 1..n : \A x \in Nat : G[i][x] = x + buffer[i].len
    OBVIOUS
  <2> HIDE DEF n, I, G
  <2>5. LoopKeeps(n, I, G)
    <3>1. ASSUME NEW i \in 1..n, NEW x \in I[i - 1] PROVE G[i][x] \in I[i]
      <4>1. x \in Nat /\ I[i] = Nat /\ G[i][x] = x + buffer[i].len
        BY <2>2, <2>4
      <4> QED
        BY <2>1, <4>1
    <3> QED
      BY <3>1 DEF LoopKeeps
  <2>6. PICK g : LoopRun(g, n, I, G, 0)
    BY <2>1, <2>3, <2>5, LoopExists
  <2>7. g = Step(buffer, g)
    <3>1. g = [i \in 0..n |-> g[i]] /\ g[0] = 0
      BY <2>6 DEF LoopRun
    <3>2. \A i \in 0..n : g[i] \in Nat
      BY <2>4, <2>6 DEF LoopRun
    <3>3. ASSUME NEW i \in 0..n
          PROVE  g[i] = IF i = 0 THEN 0 ELSE g[i - 1] + buffer[i].len
      <4>1. CASE i = 0
        BY <3>1, <4>1
      <4>2. CASE i # 0
        <5>1. i \in 1..n
          BY <2>1, <4>2
        <5>2. g[i] = G[i][g[i - 1]] /\ g[i - 1] \in Nat
          BY <2>2, <2>6, <3>2, <5>1 DEF LoopRun
        <5> QED
          BY <2>4, <4>2, <5>1, <5>2
      <4> QED
        BY <4>1, <4>2
    <3> QED
      BY <3>1, <3>3 DEF n
  <2> DEFINE f == F(buffer)
  <2>8. f = Step(buffer, f)
    BY <2>7
  <2> HIDE DEF f
  <2>9. \A i \in 0..n : f[i] \in I[i]
    <3>1. f[0] \in I[0] /\ f[0] = 0
      <4>1. 0 \in 0..n
        BY <2>1
      <4> QED
        BY <2>4, <2>8, <4>1 DEF n
    <3>2. ASSUME NEW i \in (0 + 1)..n, f[i - 1] \in I[i - 1] PROVE f[i] \in I[i]
      <4>1. i \in 1..n /\ i # 0 /\ i \in 0..n /\ i - 1 \in 0..n
        BY <2>1
      <4>2. f[i] = f[i - 1] + buffer[i].len
        BY <2>8, <4>1 DEF n
      <4>3. f[i - 1] \in Nat /\ buffer[i].len \in Nat
        BY <2>1, <2>4, <3>2, <4>1
      <4>4. f[i] \in Nat
        BY <4>2, <4>3
      <4> QED
        BY <2>4, <4>1, <4>4
    <3>3. 0 \in Int /\ n \in Int
      BY <2>1
    <3> QED
      BY <3>1, <3>2, <3>3, LoopInvariant
  <2>10. n \in 0..n /\ 0 \in 0..n
    BY <2>1
  <2>11. f[0] = 0
    BY <2>8, <2>10 DEF n
  <2> QED
    BY <1>1, <2>4, <2>9, <2>10, <2>11 DEF n, f
<1>3. <<>> \in Seq(Line) /\ Len(<<>>) = 0
  OBVIOUS
<1> QED
  BY <1>2, <1>3

FileRecords == [stamp : Nat, lines : Seq(Line)]

\* A file is rolled to a later time than that of any before it.
FilesOK(files) ==
    /\ files \in Seq(FileRecords) /\ files # <<>>
    /\ \A i \in 1..Len(files) : files[i].stamp <= files[Len(files)].stamp

\* What the files hold, what is in the buffers on the way, and both.
InFiles(files) == FlattenSeq([i \in DOMAIN files |-> files[i].lines])
ToBeWritten(lg) == SubSeq(lg.buffersToWrite_, lg.done + 1, Len(lg.buffersToWrite_))
OnTheWay(lg) ==
    FlattenSeq(ToBeWritten(lg)) \o FlattenSeq(lg.buffers_) \o lg.currentBuffer_
Content(lg) == InFiles(lg.files) \o OnTheWay(lg)

LinesInv ==
    /\ now \in Nat
    /\ accepted = [l \in Loggers |-> accepted[l]]
    /\ \A l \in Loggers :
           FilesOK(logger[l].files) /\ Content(logger[l]) = accepted[l]

\* Sequences of lines, as the proofs below rearrange them.
LEMMA LineAlgebra ==
    /\ \A a, b \in Seq(Line) : a \o b \in Seq(Line)
    /\ \A a, b, c \in Seq(Line) : (a \o b) \o c = a \o (b \o c)
    /\ \A a \in Seq(Line) : a \o <<>> = a /\ <<>> \o a = a
    /\ \A a \in Seq(Line), e \in Line : Append(a, e) = a \o <<e>>
    /\ <<>> \in Seq(Line)
    /\ \A e \in Line : <<e>> \in Seq(Line) /\ Append(<<>>, e) = <<e>>
<1>1. \A a, b, c \in Seq(Line) : (a \o b) \o c = a \o (b \o c)
  BY Assoc
<1>2. \A a \in Seq(Line) : a \o <<>> = a /\ <<>> \o a = a
  BY ConcatEmptySeq
<1>3. \A a \in Seq(Line), e \in Line : Append(a, e) = a \o <<e>>
  BY AppendIsConcat
<1>4. \A a, b \in Seq(Line) : a \o b \in Seq(Line)
  OBVIOUS
<1>5. <<>> \in Seq(Line) /\ \A e \in Line : <<e>> \in Seq(Line) /\ Append(<<>>, e) = <<e>>
  OBVIOUS
<1> QED
  BY <1>1, <1>2, <1>3, <1>4, <1>5

\* The parts of a logger's content are sequences of lines.
LEMMA ContentType ==
    ASSUME NEW lg, LoggerOK(lg), FilesOK(lg.files)
    PROVE  /\ InFiles(lg.files) \in Seq(Line)
           /\ ToBeWritten(lg) \in Buffers
           /\ FlattenSeq(ToBeWritten(lg)) \in Seq(Line)
           /\ FlattenSeq(lg.buffers_) \in Seq(Line)
           /\ lg.currentBuffer_ \in Seq(Line)
           /\ lg.buffers_ \in Seq(Seq(Line))
<1>1. [i \in DOMAIN lg.files |-> lg.files[i].lines] \in Seq(Seq(Line))
  <2>1. \A file \in FileRecords : file.lines \in Seq(Line)
    BY DEF FileRecords
  <2> QED
    BY <2>1 DEF FilesOK
<1>2. \A ss \in Seq(Seq(Line)) : FlattenSeq(ss) \in Seq(Line)
  BY FlattenType
<1>3. ToBeWritten(lg) \in Seq(Seq(Line))
  <2> DEFINE b == lg.buffersToWrite_
  <2>1. b \in Seq(Seq(Line)) /\ lg.done \in 0..Len(b)
    BY DEF LoggerOK, Buffers
  <2> HIDE DEF b
  <2>2. SubSeq(b, lg.done + 1, Len(b)) \in Seq(Seq(Line))
    BY <2>1
  <2> QED
    BY <2>2 DEF ToBeWritten, b
<1>4. lg.buffers_ \in Seq(Seq(Line)) /\ lg.currentBuffer_ \in Seq(Line)
  BY DEF LoggerOK, Buffers
<1> QED
  BY <1>1, <1>2, <1>3, <1>4 DEF InFiles, Buffers

\* append() adds the line at the end, or drops one that fits no buffer.
LEMMA AppendLines ==
    ASSUME NEW lg, LoggerOK(lg), FilesOK(lg.files), NEW line \in Line
    PROVE  LET after == AppendToBuffer(lg, line)
           IN /\ after.files = lg.files
              /\ Content(after) = IF line.len < kBufferSize
                                  THEN Append(Content(lg), line) ELSE Content(lg)
<1> DEFINE after == AppendToBuffer(lg, line)
           O == InFiles(lg.files)
           P == FlattenSeq(ToBeWritten(lg))
           Q == FlattenSeq(lg.buffers_)
           C == lg.currentBuffer_
<1>1. /\ O \in Seq(Line) /\ P \in Seq(Line) /\ Q \in Seq(Line) /\ C \in Seq(Line)
      /\ lg.buffers_ \in Seq(Seq(Line))
  BY ContentType
<1>2. Content(lg) = O \o ((P \o Q) \o C)
  BY DEF Content, OnTheWay
<1>3. kBufferSize \in Nat /\ line.len \in Nat /\ Length(C) \in Nat
  BY <1>1, LengthNat, LoggingAssumption DEF Line
<1>4. CASE Avail(C) > line.len
  <2>1. after = [lg EXCEPT !.currentBuffer_ = Append(C, line), !.notEmpty_ = TRUE]
    BY <1>4 DEF AppendToBuffer, BufferAppend
  <2>2. /\ after.files = lg.files /\ after.buffers_ = lg.buffers_
        /\ after.buffersToWrite_ = lg.buffersToWrite_ /\ after.done = lg.done
        /\ after.currentBuffer_ = Append(C, line)
    BY <2>1 DEF LoggerOK, Fields
  <2>3. Content(after) = O \o ((P \o Q) \o Append(C, line))
    BY <2>2 DEF Content, OnTheWay, ToBeWritten
  <2>4. line.len < kBufferSize
    BY <1>3, <1>4 DEF Avail
  <2> HIDE DEF O, P, Q, C, after
  <2>5. O \o ((P \o Q) \o Append(C, line)) = Append(O \o ((P \o Q) \o C), line)
    <3>1. Append(C, line) = C \o <<line>> /\ <<line>> \in Seq(Line)
      BY <1>1, LineAlgebra
    <3>2. P \o Q \in Seq(Line) /\ (P \o Q) \o C \in Seq(Line)
      BY <1>1, LineAlgebra
    <3>3. (P \o Q) \o (C \o <<line>>) = ((P \o Q) \o C) \o <<line>>
      BY <1>1, <3>1, <3>2, LineAlgebra
    <3>4. O \o (((P \o Q) \o C) \o <<line>>) = (O \o ((P \o Q) \o C)) \o <<line>>
      BY <1>1, <3>1, <3>2, LineAlgebra, SMTT(30)
    <3>5. Append(O \o ((P \o Q) \o C), line) = (O \o ((P \o Q) \o C)) \o <<line>>
      BY <1>1, <3>2, LineAlgebra
    <3> QED
      BY <3>1, <3>3, <3>4, <3>5
  <2> QED
    BY <1>2, <2>2, <2>3, <2>4, <2>5 DEF after
<1>5. CASE ~(Avail(C) > line.len)
  <2> DEFINE next == IF lg.nextBuffer_ # null THEN lg.nextBuffer_[1]
                     ELSE EmptyBuffer
             new == BufferAppend(next, line)
  <2>1. next = <<>>
    BY SpareIsEmpty DEF LoggerOK
  <2>2. new = IF line.len < kBufferSize THEN <<line>> ELSE <<>>
    <3>1. Avail(<<>>) = kBufferSize
      BY <1>3, LengthNat DEF Avail
    <3>2. Append(<<>>, line) = <<line>>
      BY LineAlgebra
    <3> QED
      BY <1>3, <2>1, <3>1, <3>2 DEF BufferAppend
  <2>3. after = [lg EXCEPT !.buffers_ = Append(lg.buffers_, C),
                           !.currentBuffer_ = new,
                           !.nextBuffer_ = null,
                           !.notEmpty_ = TRUE]
    BY <1>5 DEF AppendToBuffer
  <2> HIDE DEF next, new
  <2>4. /\ after.files = lg.files /\ after.buffers_ = Append(lg.buffers_, C)
        /\ after.buffersToWrite_ = lg.buffersToWrite_ /\ after.done = lg.done
        /\ after.currentBuffer_ = new
    BY <2>3 DEF LoggerOK, Fields
  <2>5. FlattenSeq(Append(lg.buffers_, C)) = Q \o C
    BY <1>1, FlattenAppend
  <2>6. Content(after) = O \o ((P \o (Q \o C)) \o new)
    BY <2>4, <2>5 DEF Content, OnTheWay, ToBeWritten
  <2> HIDE DEF O, P, Q, C, after
  <2>7. P \o (Q \o C) = (P \o Q) \o C /\ (P \o Q) \o C \in Seq(Line)
    <3>1. (P \o Q) \o C = P \o (Q \o C)
      BY <1>1, LineAlgebra
    <3>2. P \o Q \in Seq(Line)
      BY <1>1, LineAlgebra
    <3>3. (P \o Q) \o C \in Seq(Line)
      BY <1>1, <3>2, LineAlgebra
    <3> QED
      BY <3>1, <3>3
  <2>8. CASE line.len < kBufferSize
    <3>1. <<line>> \in Seq(Line)
      BY LineAlgebra
    <3>2. O \o (((P \o Q) \o C) \o <<line>>) = (O \o ((P \o Q) \o C)) \o <<line>>
      BY <1>1, <2>7, <3>1, LineAlgebra, SMTT(30)
    <3>3. Append(O \o ((P \o Q) \o C), line) = (O \o ((P \o Q) \o C)) \o <<line>>
      BY <1>1, <2>7, LineAlgebra
    <3> QED
      BY <1>2, <2>2, <2>4, <2>6, <2>7, <2>8, <3>2, <3>3 DEF after
  <2>9. CASE ~(line.len < kBufferSize)
    <3>1. ((P \o Q) \o C) \o <<>> = (P \o Q) \o C
      BY <2>7, LineAlgebra
    <3> QED
      BY <1>2, <2>2, <2>4, <2>6, <2>7, <2>9, <3>1 DEF after
  <2> QED
    BY <2>8, <2>9
<1> QED
  BY <1>4, <1>5

\* The swap moves lines between buffers, in order.
LEMMA SwapLines ==
    ASSUME NEW lg, LoggerOK(lg), Resting(lg), FilesOK(lg.files)
    PROVE  /\ SwapBuffersToWrite(lg).files = lg.files
           /\ Content(SwapBuffersToWrite(lg)) = Content(lg)
<1> DEFINE after == SwapBuffersToWrite(lg)
           used == Length(lg.currentBuffer_) > 0
           full == IF used THEN Append(lg.buffers_, lg.currentBuffer_)
                   ELSE lg.buffers_
           O == InFiles(lg.files)
           Q == FlattenSeq(lg.buffers_)
           C == lg.currentBuffer_
<1>1. /\ O \in Seq(Line) /\ Q \in Seq(Line) /\ C \in Seq(Line)
      /\ lg.buffers_ \in Seq(Seq(Line))
  BY ContentType
<1>2. full \in Seq(Seq(Line))
  BY <1>1
<1>3. /\ after.files = lg.files /\ after.buffers_ = lg.buffersToWrite_
      /\ after.buffersToWrite_ = full /\ after.done = lg.done
      /\ after.currentBuffer_ = IF used THEN lg.buffer1_[1] ELSE C
  BY DEF SwapBuffersToWrite, LoggerOK, Fields
<1>4. lg.buffersToWrite_ = <<>> /\ lg.done = 0 /\ lg.buffer1_[1] = <<>>
  BY SpareIsEmpty DEF LoggerOK, Resting
<1>5. ToBeWritten(lg) = <<>>
  BY <1>4 DEF ToBeWritten
<1>6. ToBeWritten(after) = full
  <2> HIDE DEF full, after
  <2>1. SubSeq(full, 1, Len(full)) = full
    BY <1>2, SubSeqFull
  <2>2. ToBeWritten(after) = SubSeq(full, 0 + 1, Len(full))
    BY <1>3, <1>4 DEF ToBeWritten
  <2> QED
    BY <2>1, <2>2
<1>7. Content(lg) = O \o ((<<>> \o Q) \o C)
  BY <1>5, FlattenType DEF Content, OnTheWay
<1>8. Content(after) = O \o ((FlattenSeq(full) \o <<>>)
                                 \o (IF used THEN <<>> ELSE C))
  BY <1>3, <1>4, <1>6, FlattenType DEF Content, OnTheWay
<1>9. FlattenSeq(full) = IF used THEN Q \o C ELSE Q
  BY <1>1, FlattenAppend
<1> HIDE DEF after, used, full, O, Q, C
<1>10. <<>> \o Q = Q /\ Q \o <<>> = Q
  BY <1>1, LineAlgebra
<1>11. Q \o C \in Seq(Line)
  BY <1>1, LineAlgebra
<1>12. (Q \o C) \o <<>> = Q \o C
  BY <1>11, LineAlgebra
<1>13. Content(after) = O \o (Q \o C)
  BY <1>8, <1>9, <1>10, <1>12
<1>14. Content(lg) = O \o (Q \o C)
  BY <1>7, <1>10
<1> QED
  BY <1>3, <1>13, <1>14 DEF after

\* A buffer is written at the end of the last file.
LEMMA FileGrows ==
    ASSUME NEW files, FilesOK(files), NEW buffer \in Seq(Line)
    PROVE  LET after == [files EXCEPT ![Len(files)].lines = @ \o buffer]
           IN FilesOK(after) /\ InFiles(after) = InFiles(files) \o buffer
<1> DEFINE n == Len(files)
           file == files[n]
           grown == [file EXCEPT !.lines = file.lines \o buffer]
           after == [files EXCEPT ![n] = grown]
           ss == [i \in DOMAIN files |-> files[i].lines]
           tt == [i \in DOMAIN after |-> after[i].lines]
<1>1. /\ n \in Nat \ {0} /\ n \in 1..n /\ DOMAIN files = 1..n
      /\ \A i \in 1..n : files[i] \in FileRecords
  BY DEF FilesOK
<1>2. /\ grown \in FileRecords /\ grown.stamp = file.stamp
      /\ grown.lines = file.lines \o buffer
  <2>1. file \in FileRecords
    BY <1>1
  <2>2. file.lines \in Seq(Line) /\ file.stamp \in Nat
    BY <2>1 DEF FileRecords
  <2>3. file.lines \o buffer \in Seq(Line)
    BY <2>2
  <2> QED
    BY <2>1, <2>2, <2>3 DEF FileRecords
<1> HIDE DEF grown
<1>3. /\ after \in Seq(FileRecords) /\ Len(after) = n /\ DOMAIN after = 1..n
      /\ after[n] = grown
      /\ \A i \in 1..n : i # n => after[i] = files[i]
  <2>1. files \in Seq(FileRecords) /\ grown \in FileRecords /\ n \in 1..Len(files)
    BY <1>1, <1>2 DEF FilesOK
  <2>2. after \in Seq(FileRecords) /\ Len(after) = n
    BY <2>1, ExceptSeq
  <2>3. DOMAIN after = 1..n
    BY <1>1
  <2>4. after[n] = grown /\ \A i \in 1..n : i # n => after[i] = files[i]
    BY <1>1
  <2> QED
    BY <2>2, <2>3, <2>4
<1> HIDE DEF after
<1>4. FilesOK(after)
  <2>1. after # <<>>
    BY <1>1, <1>3
  <2>2. \A i \in 1..n : after[i].stamp = files[i].stamp
    BY <1>2, <1>3
  <2>3. \A i \in 1..n : after[i].stamp <= after[n].stamp
    BY <1>1, <2>2 DEF FilesOK
  <2> QED
    BY <1>3, <2>1, <2>3 DEF FilesOK
<1>5. /\ ss \in Seq(Seq(Line)) /\ tt \in Seq(Seq(Line))
      /\ Len(ss) = n /\ Len(tt) = n /\ ss # <<>>
  <2>1. \A f \in FileRecords : f.lines \in Seq(Line)
    BY DEF FileRecords
  <2>2. \A i \in 1..n : files[i].lines \in Seq(Line) /\ after[i].lines \in Seq(Line)
    BY <1>1, <1>2, <1>3, <2>1
  <2>3. ss = [i \in 1..n |-> files[i].lines] /\ tt = [i \in 1..n |-> after[i].lines]
    BY <1>1, <1>3
  <2> HIDE DEF ss, tt
  <2>4. ss \in Seq(Seq(Line)) /\ Len(ss) = n
    BY <1>1, <2>2, <2>3
  <2>5. tt \in Seq(Seq(Line)) /\ Len(tt) = n
    BY <1>1, <2>2, <2>3
  <2>6. ss # <<>>
    BY <1>1, <2>4
  <2> QED
    BY <2>4, <2>5, <2>6
<1>6. /\ tt[n] = ss[n] \o buffer
      /\ \A i \in 1..n : i # n => tt[i] = ss[i]
  BY <1>1, <1>2, <1>3
<1> HIDE DEF ss, tt
<1>7. FlattenSeq(tt) = FlattenSeq(ss) \o buffer
  <2>1. /\ Len(tt) = Len(ss) /\ tt[Len(ss)] = ss[Len(ss)] \o buffer
        /\ \A i \in 1..Len(ss) : i # Len(ss) => tt[i] = ss[i]
    BY <1>5, <1>6
  <2>2. ss \in Seq(Seq(Line)) /\ tt \in Seq(Seq(Line)) /\ ss # <<>>
    BY <1>5
  <2> HIDE DEF n
  <2> QED
    BY <2>1, <2>2, FlattenLast
<1>8. after = [files EXCEPT ![Len(files)].lines = @ \o buffer]
  BY DEF after, grown
<1>9. InFiles(after) = FlattenSeq(tt) /\ InFiles(files) = FlattenSeq(ss)
  BY DEF InFiles, ss, tt
<1> QED
  BY <1>4, <1>7, <1>8, <1>9

\* rollFile() opens an empty file, and its name is new.
LEMMA FileRolls ==
    ASSUME NEW files, FilesOK(files), now \in Nat
    PROVE  FilesOK(RollFile(files)) /\ InFiles(RollFile(files)) = InFiles(files)
<1> DEFINE n == Len(files)
<1>1. /\ n \in Nat \ {0} /\ n \in 1..n /\ DOMAIN files = 1..n
      /\ \A i \in 1..n : files[i] \in FileRecords
      /\ files = [i \in 1..n |-> files[i]]
  BY DEF FilesOK
<1>2. CASE ~(now > files[n].stamp)
  BY <1>2 DEF RollFile, Last
<1>3. CASE now > files[n].stamp
  <2> DEFINE after == Append(files, File(now))
             ss == [i \in DOMAIN files |-> files[i].lines]
             tt == [i \in DOMAIN after |-> after[i].lines]
  <2>1. \A i \in 1..n : files[i].stamp \in Nat /\ files[i].lines \in Seq(Line)
    <3>1. \A f \in FileRecords : f.stamp \in Nat /\ f.lines \in Seq(Line)
      BY DEF FileRecords
    <3> QED
      BY <1>1, <3>1
  <2>2. \A i \in 1..n : files[i].stamp # now
    <3>1. \A i \in 1..n : files[i].stamp <= files[n].stamp
      BY DEF FilesOK
    <3> QED
      BY <1>1, <1>3, <2>1, <3>1
  <2>3. RollFile(files) = after
    <3>1. [i \in DOMAIN files |-> IF files[i].stamp = now THEN File(now)
                                  ELSE files[i]] = files
      BY <1>1, <2>2
    <3> QED
      BY <1>3, <3>1 DEF RollFile, Last
  <2>4. /\ File(now) \in FileRecords /\ File(now).stamp = now
        /\ File(now).lines = <<>>
    BY DEF File, FileRecords
  <2>5. /\ after \in Seq(FileRecords) /\ Len(after) = n + 1
        /\ DOMAIN after = 1..(n + 1) /\ after[n + 1] = File(now)
        /\ \A i \in 1..n : after[i] = files[i]
    BY <1>1, <2>4 DEF FilesOK
  <2> HIDE DEF after
  <2>6. FilesOK(after)
    <3>1. after # <<>>
      BY <1>1, <2>5
    <3>2. ASSUME NEW i \in 1..(n + 1) PROVE after[i].stamp <= now
      <4>1. CASE i = n + 1
        BY <2>4, <2>5, <4>1
      <4>2. CASE i # n + 1
        <5>1. i \in 1..n
          BY <1>1, <4>2
        <5>2. files[i].stamp <= files[n].stamp
          BY <5>1 DEF FilesOK
        <5>3. after[i] = files[i]
          BY <2>5, <5>1
        <5> QED
          BY <1>1, <1>3, <2>1, <5>1, <5>2, <5>3
      <4> QED
        BY <4>1, <4>2
    <3>3. after[Len(after)].stamp = now
      BY <2>4, <2>5
    <3> QED
      BY <2>5, <3>1, <3>2, <3>3 DEF FilesOK
  <2>7. tt = Append(ss, <<>>)
    <3>1. ss \in Seq(Seq(Line)) /\ Len(ss) = n /\ <<>> \in Seq(Line)
      BY <1>1, <2>1
    <3>2. /\ tt = [i \in 1..(n + 1) |-> after[i].lines]
          /\ Append(ss, <<>>) = [i \in 1..(n + 1) |-> IF i = n + 1 THEN <<>> ELSE ss[i]]
      BY <1>1, <2>5, <3>1
    <3>3. ASSUME NEW i \in 1..(n + 1)
          PROVE  after[i].lines = IF i = n + 1 THEN <<>> ELSE ss[i]
      <4>1. CASE i = n + 1
        BY <2>4, <2>5, <4>1
      <4>2. CASE i # n + 1
        <5>1. i \in 1..n
          BY <1>1, <4>2
        <5> QED
          BY <1>1, <2>5, <4>2, <5>1
      <4> QED
        BY <4>1, <4>2
    <3> HIDE DEF ss
    <3> QED
      BY <3>2, <3>3
  <2>8. FlattenSeq(tt) = FlattenSeq(ss)
    <3>1. ss \in Seq(Seq(Line))
      BY <1>1, <2>1
    <3> HIDE DEF ss, tt
    <3>2. FlattenSeq(ss) \in Seq(Line)
      BY <3>1, FlattenType
    <3>3. FlattenSeq(Append(ss, <<>>)) = FlattenSeq(ss) \o <<>>
      <4>1. <<>> \in Seq(Line)
        OBVIOUS
      <4> QED
        BY <3>1, <4>1, FlattenAppend
    <3>4. FlattenSeq(ss) \o <<>> = FlattenSeq(ss)
      BY <3>2, LineAlgebra
    <3> QED
      BY <2>7, <3>3, <3>4
  <2> QED
    BY <2>3, <2>6, <2>8 DEF InFiles
<1> QED
  BY <1>2, <1>3

\* append_unlocked() moves a buffer's lines to the files, rolled or not.
LEMMA WriteLines ==
    ASSUME NEW lg, LoggerOK(lg), FilesOK(lg.files), now \in Nat,
           lg.done < Len(lg.buffersToWrite_)
    PROVE  /\ FilesOK(AppendToFile(lg).files)
           /\ Content(AppendToFile(lg)) = Content(lg)
<1> DEFINE after == AppendToFile(lg)
           w == lg.buffersToWrite_
           d == lg.done + 1
           buffer == w[d]
           grown == [lg.files EXCEPT ![Len(lg.files)].lines = @ \o buffer]
           O == InFiles(lg.files)
           P == FlattenSeq(ToBeWritten(after))
           Q == FlattenSeq(lg.buffers_)
           C == lg.currentBuffer_
<1>1. /\ w \in Seq(Seq(Line)) /\ lg.done \in Nat /\ d \in 1..Len(w)
      /\ Len(w) \in d..Len(w)
  BY DEF LoggerOK, Buffers
<1>2. buffer \in Seq(Line)
  BY <1>1
<1>3. /\ after.files \in {grown, RollFile(grown)}
      /\ after.done = d /\ after.buffersToWrite_ = w
      /\ after.buffers_ = lg.buffers_ /\ after.currentBuffer_ = C
  BY DEF LoggerOK, Fields, AppendToFile
<1>4. FilesOK(grown) /\ InFiles(grown) = O \o buffer
  <2> HIDE DEF buffer
  <2> QED
    BY <1>2, FileGrows
<1> HIDE DEF grown
<1>5. FilesOK(after.files) /\ InFiles(after.files) = O \o buffer
  BY <1>3, <1>4, FileRolls
<1>6. LoggerOK(after)
  BY WriteKeeps
<1> HIDE DEF after
<1>7. P \in Seq(Line) /\ Q \in Seq(Line) /\ C \in Seq(Line) /\ O \in Seq(Line)
  BY <1>5, <1>6, ContentType
<1>8. FlattenSeq(ToBeWritten(lg)) = buffer \o P
  <2> DEFINE ss == SubSeq(w, d, Len(w))
  <2>1. ss \in Seq(Seq(Line)) /\ ss # <<>> /\ ss[1] = buffer
    <3>1. \A i \in d..Len(w) : w[i] \in Seq(Line)
      BY <1>1
    <3>2. d \in Int /\ Len(w) \in Int /\ d <= Len(w)
      BY <1>1
    <3> HIDE DEF w, d
    <3>3. /\ ss \in Seq(Seq(Line)) /\ Len(ss) = Len(w) - d + 1
          /\ \A i \in 1..(Len(w) - d + 1) : ss[i] = w[d + i - 1]
      BY <3>1, <3>2, SubSeqProperties
    <3>4. 1 \in 1..(Len(w) - d + 1) /\ d + 1 - 1 = d /\ Len(w) - d + 1 # 0
      BY <3>2
    <3> QED
      BY <3>3, <3>4
  <2>2. Tail(ss) = SubSeq(w, d + 1, Len(w))
    <3> HIDE DEF w, d
    <3> QED
      BY <1>1, HeadTailOfSubSeq
  <2>3. ss = ToBeWritten(lg) /\ ToBeWritten(after) = SubSeq(w, d + 1, Len(w))
    BY <1>3 DEF ToBeWritten
  <2> HIDE DEF ss, w, d, buffer
  <2>4. FlattenSeq(ss) = ss[1] \o FlattenSeq(Tail(ss))
    BY <2>1, FlattenFirst
  <2> QED
    BY <2>1, <2>2, <2>3, <2>4
<1>9. Content(lg) = O \o (((buffer \o P) \o Q) \o C)
  BY <1>8 DEF Content, OnTheWay
<1>10. Content(after) = (O \o buffer) \o ((P \o Q) \o C)
  BY <1>3, <1>5 DEF Content, OnTheWay
<1> HIDE DEF O, P, Q, C, buffer
<1> DEFINE R == P \o Q
           T == R \o C
<1>11. (buffer \o P) \o Q = buffer \o R /\ R \in Seq(Line)
  <2>1. /\ \A a, b \in Seq(Line) : a \o b \in Seq(Line)
        /\ \A a, b, c \in Seq(Line) : (a \o b) \o c = a \o (b \o c)
    BY LineAlgebra
  <2> QED
    BY <1>2, <1>7, <2>1, SMTT(30)
<1> HIDE DEF R
<1>12. (buffer \o R) \o C = buffer \o T /\ T \in Seq(Line)
  <2>1. /\ \A a, b \in Seq(Line) : a \o b \in Seq(Line)
        /\ \A a, b, c \in Seq(Line) : (a \o b) \o c = a \o (b \o c)
    BY LineAlgebra
  <2>2. buffer \in Seq(Line) /\ R \in Seq(Line) /\ C \in Seq(Line)
    BY <1>2, <1>7, <1>11
  <2> QED
    BY <2>1, <2>2, SMTT(30)
<1> HIDE DEF T
<1>13. (O \o buffer) \o T = O \o (buffer \o T)
  <2>1. \A a, b, c \in Seq(Line) : (a \o b) \o c = a \o (b \o c)
    BY LineAlgebra
  <2>2. O \in Seq(Line) /\ buffer \in Seq(Line) /\ T \in Seq(Line)
    BY <1>2, <1>7, <1>12
  <2> QED
    BY <2>1, <2>2, Zenon
<1> QED
  BY <1>5, <1>9, <1>10, <1>11, <1>12, <1>13 DEF after, R, T

\* Buffers that were written are given back empty.
LEMMA GiveBackLines ==
    ASSUME NEW lg, LoggerOK(lg), ~(lg.done < Len(lg.buffersToWrite_))
    PROVE  /\ GiveBackBuffers(lg).files = lg.files
           /\ Content(GiveBackBuffers(lg)) = Content(lg)
<1> DEFINE after == GiveBackBuffers(lg)
           w == lg.buffersToWrite_
<1>1. /\ after.files = lg.files /\ after.buffers_ = lg.buffers_
      /\ after.currentBuffer_ = lg.currentBuffer_
      /\ after.buffersToWrite_ = <<>> /\ after.done = 0
  BY DEF LoggerOK, Fields, GiveBackBuffers
<1>2. w \in Seq(Seq(Line)) /\ lg.done = Len(w) /\ Len(w) \in Nat
  BY DEF LoggerOK, Buffers
<1>3. ToBeWritten(lg) = <<>>
  <2>1. lg.done + 1 \in Int /\ Len(w) \in Int /\ Len(w) < lg.done + 1
    BY <1>2
  <2> QED
    BY <2>1, SubSeqEmpty DEF ToBeWritten
<1>4. ToBeWritten(after) = <<>>
  BY <1>1 DEF ToBeWritten
<1> QED
  BY <1>1, <1>3, <1>4 DEF Content, OnTheWay

\* Each step adds the lines it accepts and loses none.
LEMMA LinesStep ==
    ControlInv /\ LoggersInv /\ LinesInv /\ [LogNext]_logVars => LinesInv'
<1> SUFFICES ASSUME ControlInv, LoggersInv, LinesInv, [LogNext]_logVars
             PROVE  LinesInv'
  OBVIOUS
<1>0. /\ toWrite \in Seq(Loggers) /\ lines \in Nat /\ now \in Nat
      /\ logger = [l \in Loggers |-> logger[l]]
      /\ accepted = [l \in Loggers |-> accepted[l]]
      /\ \A l \in Loggers : LoggerOK(logger[l]) /\ FilesOK(logger[l].files)
      /\ \A l \in Loggers : Content(logger[l]) = accepted[l]
  BY DEF ControlInv, LoggersInv, LinesInv
\* A step that leaves the loggers alone.
<1>a. ASSUME UNCHANGED <<logger, accepted>>, now' \in Nat PROVE LinesInv'
  BY <1>a DEF LinesInv
<1>1. ASSUME NEW l \in Loggers, NEW len \in Lengths, LogAppend(l, len)
      PROVE  LinesInv'
  <2> DEFINE line == [n |-> lines', len |-> len]
             after == AppendToBuffer(logger[l], line)
  <2>1. /\ now' = now /\ lines' \in Nat
        /\ logger' = [logger EXCEPT ![l] = after]
        /\ accepted' = IF len < kBufferSize
                       THEN [accepted EXCEPT ![l] = Append(accepted[l], line)]
                       ELSE accepted
    BY <1>0, <1>1 DEF LogAppend
  <2>2. line \in Line /\ line.len = len
    BY <2>1 DEF Line
  <2> HIDE DEF line
  <2>3. /\ after.files = logger[l].files
        /\ Content(after) = IF line.len < kBufferSize
                            THEN Append(Content(logger[l]), line)
                            ELSE Content(logger[l])
    BY <1>0, <2>2, AppendLines
  <2> HIDE DEF after
  <2>4. \A m \in Loggers : /\ logger'[m] = IF m = l THEN after ELSE logger[m]
                           /\ accepted'[m] = IF m = l /\ len < kBufferSize
                                             THEN Append(accepted[l], line)
                                             ELSE accepted[m]
    BY <1>0, <2>1
  <2>5. accepted' = [m \in Loggers |-> accepted'[m]]
    BY <1>0, <2>1
  <2>6. \A m \in Loggers : FilesOK(logger'[m].files)
    BY <1>0, <2>3, <2>4
  <2>7. \A m \in Loggers : Content(logger'[m]) = accepted'[m]
    BY <1>0, <2>2, <2>3, <2>4
  <2> QED
    BY <1>0, <2>1, <2>5, <2>6, <2>7 DEF LinesInv
<1>2. ASSUME NEW time \in 1..MaxTime, ClockSet(time) PROVE LinesInv'
  <2>1. now' \in Nat /\ UNCHANGED <<logger, accepted>>
    BY <1>2 DEF ClockSet
  <2> QED
    BY <2>1, <1>a
<1>3. CASE Start \/ LatchWait \/ StopClears \/ StopNotifies \/ StopJoins
  BY <1>0, <1>3, <1>a
  DEF Start, LatchWait, StopClears, StopNotifies, StopJoins, loggers
<1>4. CASE ThreadBegins \/ ThreadTests \/ ThreadWaits \/ LogSpurious \/ ThreadWritten
  BY <1>0, <1>4, <1>a
  DEF ThreadBegins, ThreadTests, ThreadWaits, LogSpurious, ThreadWritten, loggers
<1>5. CASE ThreadSwaps
  <2>1. toWrite = <<>> /\ now' = now /\ accepted' = accepted
    BY <1>5 DEF ThreadSwaps, ControlInv
  <2>2. \A l \in Loggers : Resting(logger[l])
    BY <2>1 DEF LoggersInv
  <2>3. \A l \in Loggers : logger'[l] \in {logger[l], SwapBuffersToWrite(logger[l])}
    BY <1>5 DEF ThreadSwaps
  <2>4. \A l \in Loggers :
            /\ SwapBuffersToWrite(logger[l]).files = logger[l].files
            /\ Content(SwapBuffersToWrite(logger[l])) = Content(logger[l])
    BY <1>0, <2>2, SwapLines
  <2>5. \A l \in Loggers : /\ logger'[l].files = logger[l].files
                           /\ Content(logger'[l]) = Content(logger[l])
    BY <2>3, <2>4
  <2> QED
    BY <1>0, <2>1, <2>5 DEF LinesInv
<1>6. CASE ThreadWrites
  <2> DEFINE l == Head(toWrite)
             more == logger[l].done < Len(logger[l].buffersToWrite_)
             after == IF more THEN AppendToFile(logger[l])
                      ELSE GiveBackBuffers(logger[l])
  <2>1. /\ toWrite # <<>> /\ now' = now /\ accepted' = accepted
        /\ logger' = [logger EXCEPT ![l] = after]
    BY <1>6 DEF ThreadWrites
  <2>2. l \in Loggers
    BY <1>0, <2>1
  <2>3. FilesOK(after.files) /\ Content(after) = Content(logger[l])
    <3>1. CASE more
      BY <1>0, <2>2, <3>1, WriteLines
    <3>2. CASE ~more
      BY <1>0, <2>2, <3>2, GiveBackLines
    <3> QED
      BY <3>1, <3>2
  <2> HIDE DEF l, more, after
  <2>4. \A m \in Loggers : logger'[m] = IF m = l THEN after ELSE logger[m]
    BY <1>0, <2>1, <2>2
  <2> QED
    BY <1>0, <2>1, <2>3, <2>4 DEF LinesInv
<1>7. CASE UNCHANGED logVars
  BY <1>0, <1>7, <1>a DEF logVars
<1> QED
  BY <1>1, <1>2, <1>3, <1>4, <1>5, <1>6, <1>7 DEF LogNext, ThreadStep

\* A new logger has written nothing and has nothing to write.
LEMMA LinesInit == LogInit => LinesInv
<1> SUFFICES ASSUME LogInit PROVE LinesInv
  OBVIOUS
<1> DEFINE lg == NewLogger(1)
           file == File(1)
<1>1. /\ now = 1 /\ accepted = [l \in Loggers |-> <<>>]
      /\ \A l \in Loggers : logger[l] = lg
  BY DEF LogInit
<1>2. /\ lg.files = <<file>> /\ lg.buffersToWrite_ = <<>> /\ lg.done = 0
      /\ lg.buffers_ = <<>> /\ lg.currentBuffer_ = <<>>
  BY DEF NewLogger, EmptyBuffer
<1>3. file \in FileRecords /\ file.lines = <<>> /\ file.stamp = 1
  BY DEF File, FileRecords
<1> HIDE DEF lg, file
<1>4. FilesOK(lg.files)
  BY <1>2, <1>3 DEF FilesOK
<1>5. Content(lg) = <<>>
  <2>1. InFiles(<<file>>) = <<>>
    <3>1. [i \in DOMAIN <<file>> |-> <<file>>[i].lines] = Append(<<>>, <<>>)
      BY <1>3
    <3>2. <<>> \in Seq(Seq(Line)) /\ <<>> \in Seq(Line)
      OBVIOUS
    <3>3. FlattenSeq(Append(<<>>, <<>>)) = FlattenSeq(<<>>) \o <<>>
      BY <3>2, FlattenAppend
    <3>4. FlattenSeq(<<>>) = <<>> /\ <<>> \o <<>> = <<>>
      BY FlattenType, LineAlgebra
    <3> QED
      BY <3>1, <3>3, <3>4 DEF InFiles
  <2>2. ToBeWritten(lg) = <<>>
    BY <1>2 DEF ToBeWritten
  <2>3. FlattenSeq(<<>>) = <<>> /\ <<>> \o <<>> = <<>>
    BY FlattenType, LineAlgebra
  <2> QED
    BY <1>2, <2>1, <2>2, <2>3 DEF Content, OnTheWay
<1> QED
  BY <1>1, <1>4, <1>5 DEF LinesInv

\* For any number of loggers, lines of any lengths, buffers of any size, any
\* rule for rolling files and any setting of the clock: each line that fits
\* into a buffer is in a file or on the way to it, once and in order.
THEOREM LinesStayInOrder == LogSpec => []LinesInOrder
<1>1. /\ ControlInv /\ LoggersInv /\ LinesInv
      /\ [LogNext]_logVars
      => (ControlInv /\ LoggersInv /\ LinesInv)'
  BY ControlStep, LoggersStep, LinesStep
<1>2. LinesInv => LinesInOrder
  BY DEF LinesInv, LinesInOrder, Content, OnTheWay, InFiles, ToBeWritten, Written, Held
<1> QED
  BY LogInvInit, LinesInit, <1>1, <1>2, PTL DEF LogSpec

-----------------------------------------------------------------------------
(* ReceiveBuffer: the list of buffers as a window on the stream.           *)

Storage == [mem : [1..Capacity -> Nat], rpos : Nat, wpos : Nat]

\* The position in the stream before a buffer's first byte of storage, as
\* its last byte tells it.
Base(b) == b.mem[b.wpos] - b.wpos

\* A buffer in use holds something, and what it holds is consecutive.
BufferOK(b) ==
    /\ b \in Storage
    /\ b.rpos < b.wpos /\ b.wpos <= Capacity
    /\ \A j \in (b.rpos + 1)..b.wpos : b.mem[j] = Base(b) + j

\* All but the last are full, all but the first are unread, each goes on where
\* the one before it ends, and together they hold what follows position first
\* up to position last.
Window(bs, first, last) ==
    /\ bs \in Seq(Storage)
    /\ \A i \in 1..Len(bs) : BufferOK(bs[i])
    /\ \A i \in 1..(Len(bs) - 1) :
           /\ bs[i].wpos = Capacity /\ bs[i + 1].rpos = 0
           /\ Base(bs[i + 1]) = Base(bs[i]) + Capacity
    /\ bs = <<>> => first = last
    /\ bs # <<>> => /\ first = Base(bs[1]) + bs[1].rpos
                    /\ last = Base(bs[Len(bs)]) + bs[Len(bs)].wpos

\* A spare buffer is empty.
SpareOK(b) == b \in Storage /\ b.rpos = 0 /\ b.wpos = 0
Spares(bs) == bs \in Seq(Storage) /\ \A i \in 1..Len(bs) : SpareOK(bs[i])

StreamInv ==
    /\ received \in Nat /\ consumed \in Nat /\ peak \in Nat
    /\ Window(buffers_, consumed, received)
    /\ Spares(extendBuffers_)
    /\ size_ = received - consumed /\ size_ <= peak

\* The capacity, and products with it.
LEMMA CapacityNat ==
    Capacity \in Nat /\ Capacity >= 2 /\ kReceiveSize \in Nat \ {0}
    /\ Capacity = 2 * kReceiveSize
BY SizeAssumption DEF Capacity

\* Products, one factor more or less.
LEMMA Products ==
    /\ \A i, c \in Int : i * c \in Int /\ i * c = (i - 1) * c + c
    /\ \A i, j \in Int, c \in Nat : i <= j => i * c <= j * c
<1>1. \A i, c \in Int : i * c \in Int /\ i * c = (i - 1) * c + c
  OBVIOUS
<1>2. ASSUME NEW i \in Int, NEW j \in Int, NEW c \in Nat, i <= j
      PROVE  i * c <= j * c
  <2>1. (j - i) * c >= 0
    BY <1>2
  <2>2. (j - i) * c = j * c - i * c
    OBVIOUS
  <2> QED
    BY <2>1, <2>2
<1> QED
  BY <1>1, <1>2

\* A part of the stream as a sequence.
LEMMA StreamIs ==
    ASSUME NEW first \in Int, NEW last \in Int
    PROVE  /\ Stream(first, last) \in Seq(Int)
           /\ last >= first - 1 => Len(Stream(first, last)) = last - first + 1
           /\ last < first => Stream(first, last) = <<>>
           /\ \A i \in 1..(last - first + 1) : Stream(first, last)[i] = first + i - 1
<1> DEFINE s == Stream(first, last)
<1>1. s = [i \in 1..(last - first + 1) |-> first + i - 1]
  BY DEF Stream
<1>2. CASE last >= first - 1
  <2> DEFINE k == last - first + 1
  <2>1. k \in Nat
    BY <1>2
  <2>2. s \in Seq(Int) /\ Len(s) = k
    <3>1. s = [i \in 1..k |-> first + i - 1]
      BY <1>1
    <3> HIDE DEF s, k
    <3>2. \A i \in 1..k : first + i - 1 \in Int
      BY <2>1
    <3> QED
      BY <2>1, <3>1, <3>2
  <2> QED
    BY <1>1, <1>2, <2>2
<1>3. CASE last < first
  <2>1. 1..(last - first + 1) = {}
    BY <1>3
  <2>2. s = <<>>
    <3>1. 1..(last - first + 1) = 1..0
      BY <1>3
    <3>2. s = [i \in 1..0 |-> first + i - 1]
      BY <1>1, <3>1
    <3> HIDE DEF s
    <3>3. s \in Seq(Int) /\ Len(s) = 0
      BY <3>2
    <3> QED
      BY <3>3
  <2> QED
    BY <1>3, <2>1, <2>2
<1> QED
  BY <1>2, <1>3

\* Two adjacent parts make one.
LEMMA StreamJoin ==
    ASSUME NEW a \in Int, NEW b \in Int, NEW c \in Int, a - 1 <= b, b <= c
    PROVE  Stream(a, b) \o Stream(b + 1, c) = Stream(a, c)
<1> DEFINE s == Stream(a, b)
           t == Stream(b + 1, c)
           u == Stream(a, c)
<1>1. /\ s \in Seq(Int) /\ Len(s) = b - a + 1
      /\ \A i \in 1..(b - a + 1) : s[i] = a + i - 1
  BY StreamIs
<1>2. /\ t \in Seq(Int) /\ Len(t) = c - b
      /\ \A i \in 1..(c - b) : t[i] = b + i
  <2>1. /\ t \in Seq(Int) /\ Len(t) = c - (b + 1) + 1
        /\ \A i \in 1..(c - (b + 1) + 1) : t[i] = (b + 1) + i - 1
    <3>1. b + 1 \in Int /\ c >= (b + 1) - 1
      OBVIOUS
    <3> QED
      BY <3>1, StreamIs
  <2>2. c - (b + 1) + 1 = c - b
    OBVIOUS
  <2> QED
    BY <2>1, <2>2
<1>3. /\ u \in Seq(Int) /\ Len(u) = c - a + 1
      /\ \A i \in 1..(c - a + 1) : u[i] = a + i - 1
  BY StreamIs
<1> HIDE DEF s, t, u
<1>4. /\ s \o t \in Seq(Int) /\ Len(s \o t) = c - a + 1
      /\ \A i \in 1..(c - a + 1) : (s \o t)[i] = IF i <= b - a + 1 THEN s[i]
                                                 ELSE t[i - (b - a + 1)]
  <2>1. /\ s \o t \in Seq(Int) /\ Len(s \o t) = Len(s) + Len(t)
        /\ \A i \in 1..(Len(s) + Len(t)) :
               (s \o t)[i] = IF i <= Len(s) THEN s[i] ELSE t[i - Len(s)]
    BY <1>1, <1>2, ConcatProperties
  <2>2. Len(s) + Len(t) = c - a + 1
    BY <1>1, <1>2
  <2> QED
    BY <1>1, <2>1, <2>2
<1>5. ASSUME NEW i \in 1..(c - a + 1) PROVE (s \o t)[i] = u[i]
  <2>1. CASE i <= b - a + 1
    BY <1>1, <1>3, <1>4, <2>1
  <2>2. CASE ~(i <= b - a + 1)
    <3>1. i - (b - a + 1) \in 1..(c - b) /\ b + (i - (b - a + 1)) = a + i - 1
      BY <2>2
    <3> QED
      BY <1>2, <1>3, <1>4, <2>2, <3>1
  <2> QED
    BY <2>1, <2>2
<1> QED
  BY <1>3, <1>4, <1>5, SeqEqual DEF s, t, u

\* The numbers of a buffer in use.
LEMMA BufferIs ==
    ASSUME NEW b, BufferOK(b)
    PROVE  /\ b.rpos \in Nat /\ b.wpos \in Nat /\ b.wpos <= Capacity
           /\ b.rpos < b.wpos
           /\ \A j \in (b.rpos + 1)..b.wpos : b.mem[j] = Base(b) + j
           /\ \A j \in 1..Capacity : b.mem[j] \in Int
           /\ Base(b) \in Int
<1>1. /\ b.rpos \in Nat /\ b.wpos \in Nat /\ b.wpos <= Capacity /\ b.rpos < b.wpos
      /\ \A j \in (b.rpos + 1)..b.wpos : b.mem[j] = Base(b) + j
  BY DEF BufferOK, Storage
<1>2. \A j \in 1..Capacity : b.mem[j] \in Nat
  <2>1. b.mem \in [1..Capacity -> Nat]
    BY DEF BufferOK, Storage
  <2> QED
    BY <2>1
<1>3. b.wpos \in 1..Capacity
  BY <1>1, CapacityNat
<1>4. b.mem[b.wpos] \in Nat
  BY <1>2, <1>3
<1>5. Base(b) \in Int
  BY <1>1, <1>4 DEF Base
<1> QED
  BY <1>1, <1>2, <1>5

\* What a buffer in use shows of its storage is a part of the stream.
LEMMA DataIs ==
    ASSUME NEW b, BufferOK(b), NEW offset \in Nat, NEW count \in Nat,
           b.rpos + offset + count <= b.wpos
    PROVE  DataRead(b, offset, count) = Stream(Base(b) + b.rpos + offset + 1,
                                               Base(b) + b.rpos + offset + count)
<1> DEFINE m == b.rpos + offset + 1
           n == b.rpos + offset + count
           s == SubSeq(b.mem, m, n)
           first == Base(b) + b.rpos + offset + 1
           last == Base(b) + b.rpos + offset + count
           t == Stream(first, last)
<1>1. /\ b.rpos \in Nat /\ b.wpos \in Nat /\ b.wpos <= Capacity /\ b.rpos < b.wpos
      /\ \A j \in (b.rpos + 1)..b.wpos : b.mem[j] = Base(b) + j
      /\ \A j \in 1..Capacity : b.mem[j] \in Int
      /\ Base(b) \in Int
  BY BufferIs
<1>3. m \in Int /\ n \in Int /\ n - m + 1 = count /\ first \in Int /\ last \in Int
      /\ last - first + 1 = count /\ last >= first - 1
  <2> DEFINE B == Base(b)
  <2>1. B \in Int
    BY <1>1
  <2> HIDE DEF B
  <2>2. m \in Int /\ n \in Int /\ n - m + 1 = count
    BY <1>1
  <2>3. B + b.rpos + offset + 1 \in Int /\ B + b.rpos + offset + count \in Int
    BY <1>1, <2>1
  <2>4. /\ (B + b.rpos + offset + count) - (B + b.rpos + offset + 1) + 1 = count
        /\ B + b.rpos + offset + count >= (B + b.rpos + offset + 1) - 1
    BY <1>1, <2>1
  <2> QED
    BY <2>2, <2>3, <2>4 DEF B
<1>4. \A j \in m..n : j \in (b.rpos + 1)..b.wpos /\ j \in 1..Capacity
  BY <1>1, CapacityNat
<1>5. \A j \in m..n : b.mem[j] \in Int
  BY <1>1, <1>4
<1>6. /\ t \in Seq(Int) /\ Len(t) = count
      /\ \A i \in 1..count : t[i] = first + i - 1
  <2> HIDE DEF first, last
  <2> QED
    BY <1>3, StreamIs
<1>7. /\ s \in Seq(Int) /\ Len(s) = count
      /\ \A i \in 1..count : s[i] = b.mem[m + i - 1]
  <2> HIDE DEF m, n
  <2>1. /\ s \in Seq(Int) /\ Len(s) = IF m <= n THEN n - m + 1 ELSE 0
        /\ \A i \in 1..(n - m + 1) : s[i] = b.mem[m + i - 1]
    BY <1>3, <1>5, SubSeqProperties
  <2> QED
    BY <1>3, <2>1
<1>8. ASSUME NEW i \in 1..count PROVE s[i] = t[i]
  <2>1. m + i - 1 \in (b.rpos + 1)..b.wpos
    BY <1>1
  <2>2. b.mem[m + i - 1] = Base(b) + (m + i - 1)
    BY <1>1, <2>1
  <2>3. Base(b) + (m + i - 1) = first + i - 1
    BY <1>1
  <2> QED
    BY <1>6, <1>7, <2>2, <2>3
<1>9. s = t
  <2> HIDE DEF s, t, first, last, m, n
  <2> QED
    BY <1>6, <1>7, <1>8, SeqEqual
<1> QED
  BY <1>9 DEF DataRead

\* Where in the stream buffer i ends, and before the first one, begins.
Upto(bs, first, i) == IF i = 0 THEN first ELSE Base(bs[i]) + bs[i].wpos

\* The bases are a capacity apart.
LEMMA Bases ==
    ASSUME NEW bs, NEW first, NEW last, Window(bs, first, last)
    PROVE  \A i \in 1..Len(bs) : Base(bs[i]) = Base(bs[1]) + (i - 1) * Capacity
<1> DEFINE n == Len(bs)
           f == [i \in 1..n |-> Base(bs[i])]
           I == [i \in 1..n |-> {Base(bs[1]) + (i - 1) * Capacity}]
<1>1. n \in Nat /\ \A i \in 1..n : Base(bs[i]) \in Int
  BY BufferIs DEF Window
<1>2. CASE n = 0
  BY <1>2
<1>3. CASE n # 0
  <2>1. 1 \in 1..n /\ 1 \in Int /\ n \in Int
    BY <1>1, <1>3
  <2>2. f[1] \in I[1]
    <3>1. (1 - 1) * Capacity = 0 /\ Base(bs[1]) + 0 = Base(bs[1])
      BY <1>1, <2>1, CapacityNat
    <3> QED
      BY <2>1, <3>1
  <2>3. ASSUME NEW i \in (1 + 1)..n, f[i - 1] \in I[i - 1] PROVE f[i] \in I[i]
    <3>1. i \in 1..n /\ i - 1 \in 1..n /\ i - 1 \in 1..(n - 1) /\ (i - 1) + 1 = i
      BY <1>1
    <3>2. Base(bs[i - 1]) = Base(bs[1]) + ((i - 1) - 1) * Capacity
      BY <2>3, <3>1
    <3>3. Base(bs[i]) = Base(bs[i - 1]) + Capacity
      BY <3>1 DEF Window
    <3>4. /\ (i - 1) * Capacity = ((i - 1) - 1) * Capacity + Capacity
          /\ ((i - 1) - 1) * Capacity \in Int
      BY <3>1, Products, CapacityNat
    <3>5. Base(bs[i]) = Base(bs[1]) + (i - 1) * Capacity
      BY <1>1, <2>1, <3>2, <3>3, <3>4, CapacityNat
    <3> QED
      BY <3>1, <3>5
  <2> HIDE DEF f, I
  <2>4. \A i \in 1..n : f[i] \in I[i]
    BY <2>1, <2>2, <2>3, LoopInvariant
  <2> QED
    BY <2>4 DEF f, I
<1> QED
  BY <1>2, <1>3

\* Each buffer begins where the one before it ends, none goes beyond the last
\* position, and the numbers of all of them.
LEMMA Joined ==
    ASSUME NEW bs, NEW first \in Int, NEW last \in Int, Window(bs, first, last)
    PROVE  /\ \A i \in 1..Len(bs) :
                  /\ Base(bs[i]) + bs[i].rpos = Upto(bs, first, i - 1)
                  /\ readableSize(bs[i])
                         = Upto(bs, first, i) - Upto(bs, first, i - 1)
                  /\ Upto(bs, first, i - 1) < Upto(bs, first, i)
           /\ \A i \in 0..Len(bs) : /\ Upto(bs, first, i) \in Int
                                    /\ Upto(bs, first, i) <= last
           /\ Upto(bs, first, Len(bs)) = last
<1> DEFINE n == Len(bs)
<1>1. n \in Nat /\ \A i \in 1..n : BufferOK(bs[i])
  BY DEF Window
<1>2. \A i \in 1..n : /\ Base(bs[i]) \in Int /\ bs[i].rpos \in Nat
                      /\ bs[i].wpos \in Nat /\ bs[i].rpos < bs[i].wpos
                      /\ bs[i].wpos <= Capacity
  BY <1>1, BufferIs
<1>3. \A i \in 1..n : Upto(bs, first, i) = Base(bs[i]) + bs[i].wpos
  BY <1>1 DEF Upto
<1>4. ASSUME NEW i \in 1..n
      PROVE  Base(bs[i]) + bs[i].rpos = Upto(bs, first, i - 1)
  <2>1. CASE i = 1
    <3>1. bs # <<>>
      BY <1>1
    <3>2. first = Base(bs[1]) + bs[1].rpos
      BY <3>1 DEF Window
    <3> QED
      BY <2>1, <3>2 DEF Upto
  <2>2. CASE i # 1
    <3>1. i - 1 \in 1..n /\ i - 1 \in 1..(n - 1) /\ (i - 1) + 1 = i
      BY <1>1, <2>2
    <3>2. /\ bs[i - 1].wpos = Capacity /\ bs[i].rpos = 0
          /\ Base(bs[i]) = Base(bs[i - 1]) + Capacity
      BY <3>1 DEF Window
    <3>3. Upto(bs, first, i - 1) = Base(bs[i - 1]) + Capacity
      BY <1>3, <3>1, <3>2
    <3> QED
      BY <1>2, <3>2, <3>3, CapacityNat
  <2> QED
    BY <2>1, <2>2
<1>5. \A i \in 0..n : Upto(bs, first, i) \in Int
  <2>1. \A i \in 0..n : i = 0 \/ i \in 1..n
    BY <1>1
  <2>2. Upto(bs, first, 0) = first
    BY DEF Upto
  <2>3. \A i \in 1..n : Upto(bs, first, i) \in Int
    BY <1>2, <1>3
  <2> QED
    BY <2>1, <2>2, <2>3
<1>6. \A i \in 1..n : /\ readableSize(bs[i])
                             = Upto(bs, first, i) - Upto(bs, first, i - 1)
                      /\ Upto(bs, first, i - 1) < Upto(bs, first, i)
  BY <1>2, <1>3, <1>4 DEF readableSize
<1>7. Upto(bs, first, n) = last
  <2>1. CASE n = 0
    <3>1. bs = <<>>
      BY <2>1 DEF Window
    <3> QED
      BY <2>1, <3>1 DEF Window, Upto
  <2>2. CASE n # 0
    <3>1. n \in 1..n /\ bs # <<>>
      BY <1>1, <2>2
    <3> QED
      BY <1>3, <3>1 DEF Window
  <2> QED
    BY <2>1, <2>2
<1>8. ASSUME NEW i \in 0..n PROVE Upto(bs, first, i) <= last
  <2>1. CASE i = n
    BY <1>5, <1>7, <2>1
  <2>2. CASE i # n /\ i # 0
    <3>1. i \in 1..n /\ i \in 1..(n - 1) /\ i + 1 \in 1..n /\ n \in 1..n
          /\ i \in Int /\ n - 1 \in Int /\ i <= n - 1 /\ 1 \in 1..n
      BY <1>1, <2>2
    <3> DEFINE B == Base(bs[1])
    <3>2. Base(bs[i + 1]) = B + i * Capacity
      <4>1. (i + 1) - 1 = i
        BY <3>1
      <4> QED
        BY <3>1, <4>1, Bases
    <3>3. Base(bs[n]) = B + (n - 1) * Capacity
      BY <3>1, Bases
    <3>4. Upto(bs, first, i) = Base(bs[i + 1])
      BY <1>3, <3>1 DEF Window
    <3>5. i * Capacity <= (n - 1) * Capacity /\ i * Capacity \in Int
          /\ (n - 1) * Capacity \in Int
      BY <3>1, Products, CapacityNat
    <3>6. last = Base(bs[n]) + bs[n].wpos
      BY <1>3, <1>7, <3>1
    <3>7. B \in Int /\ bs[n].wpos \in Nat
      BY <1>2, <3>1
    <3> DEFINE x == i * Capacity
               y == (n - 1) * Capacity
    <3> HIDE DEF x, y, B
    <3>8. x \in Int /\ y \in Int /\ x <= y
      BY <3>5 DEF x, y
    <3>9. Upto(bs, first, i) = B + x /\ last = (B + y) + bs[n].wpos
      BY <3>2, <3>3, <3>4, <3>6 DEF x, y
    <3> QED
      BY <3>7, <3>8, <3>9
  <2>3. CASE i # n /\ i = 0
    <3>1. 1 \in 1..n /\ n \in 1..n /\ 1 - 1 = 0
      BY <1>1, <2>3
    <3> DEFINE B == Base(bs[1])
    <3>2. Base(bs[n]) = B + (n - 1) * Capacity
      BY <3>1, Bases
    <3>3. first = B + bs[1].rpos
      BY <1>4, <3>1 DEF Upto
    <3>4. last = Base(bs[n]) + bs[n].wpos
      BY <1>3, <1>7, <3>1
    <3>5. CASE n = 1
      BY <1>2, <2>3, <3>1, <3>3, <3>4, <3>5 DEF Upto
    <3>6. CASE n # 1
      <4>1. 1 * Capacity <= (n - 1) * Capacity /\ 1 * Capacity = Capacity
            /\ (n - 1) * Capacity \in Int
        <5>1. 1 <= n - 1 /\ n - 1 \in Int /\ 1 \in Int
          <6>1. n \in Nat /\ n # 1 /\ n # 0
            BY <1>1, <2>3, <3>6
          <6> HIDE DEF n
          <6> QED
            BY <6>1
        <5>2. 1 * Capacity <= (n - 1) * Capacity /\ (n - 1) * Capacity \in Int
          BY <5>1, Products, CapacityNat
        <5>3. 1 * Capacity = Capacity
          BY CapacityNat
        <5> QED
          BY <5>2, <5>3
      <4> QED
        BY <1>2, <2>3, <3>1, <3>2, <3>3, <3>4, <4>1, CapacityNat, SMTT(30) DEF Upto
    <3> QED
      BY <3>5, <3>6
  <2> QED
    BY <2>1, <2>2, <2>3
<1> QED
  BY <1>4, <1>5, <1>6, <1>7, <1>8

\* What buffer i shows, by positions of the stream.
LEMMA DataAt ==
    ASSUME NEW bs, NEW first \in Int, NEW last \in Int, Window(bs, first, last),
           NEW i \in 1..Len(bs), NEW offset \in Nat, NEW count \in Nat,
           offset + count <= readableSize(bs[i])
    PROVE  DataRead(bs[i], offset, count)
               = Stream(Upto(bs, first, i - 1) + offset + 1,
                        Upto(bs, first, i - 1) + offset + count)
<1> DEFINE b == bs[i]
<1>1. BufferOK(b) /\ b.rpos \in Nat /\ b.wpos \in Nat
  BY BufferIs DEF Window
<1>2. Base(b) + b.rpos = Upto(bs, first, i - 1)
  BY Joined
<1> HIDE DEF b
<1>3. b.rpos + offset + count <= b.wpos
  BY <1>1 DEF readableSize, b
<1>4. DataRead(b, offset, count) = Stream(Base(b) + b.rpos + offset + 1,
                                          Base(b) + b.rpos + offset + count)
  BY <1>1, <1>3, DataIs
<1> QED
  BY <1>2, <1>4 DEF b

\* No buffer ends before the first position.
LEMMA FirstLeast ==
    ASSUME NEW bs, NEW first \in Int, NEW last \in Int, Window(bs, first, last)
    PROVE  /\ first <= last
           /\ \A i \in 0..Len(bs) : /\ Upto(bs, first, i) \in Int
                                    /\ first <= Upto(bs, first, i)
<1> DEFINE n == Len(bs)
           U(i) == Upto(bs, first, i)
           J == [j \in 0..n |-> {x \in Int : x >= first}]
           f == [j \in 0..n |-> U(j)]
<1>1. n \in Nat
  BY DEF Window
<1>2. \A i \in 1..n : U(i - 1) < U(i) /\ U(i - 1) \in Int /\ U(i) \in Int
  <2>1. \A i \in 1..n : i - 1 \in 0..n /\ i \in 0..n
    BY <1>1
  <2> HIDE DEF n
  <2> QED
    BY <2>1, Joined DEF n
<1>3. f[0] \in J[0]
  BY <1>1 DEF Upto
<1>4. ASSUME NEW j \in (0 + 1)..n, f[j - 1] \in J[j - 1] PROVE f[j] \in J[j]
  <2>1. j \in 1..n /\ j \in 0..n /\ j - 1 \in 0..n
    BY <1>1
  <2>2. U(j - 1) < U(j) /\ U(j) \in Int /\ U(j - 1) \in Int /\ U(j - 1) >= first
    BY <1>2, <1>4, <2>1
  <2> QED
    BY <2>1, <2>2
<1> HIDE DEF f, J
<1>5. 0 \in Int /\ n \in Int
  BY <1>1
<1>6. \A j \in 0..n : f[j] \in J[j]
  BY <1>3, <1>4, <1>5, LoopInvariant
<1>7. \A j \in 0..n : U(j) \in Int /\ first <= U(j)
  BY <1>6 DEF f, J
<1>8. U(n) = last /\ n \in 0..n
  BY <1>1, Joined
<1> QED
  BY <1>7, <1>8

\* prepareSend() offers the whole window.
LEMMA SendIs ==
    ASSUME NEW first \in Int, NEW last \in Int, Window(buffers_, first, last)
    PROVE  PrepareSend = Stream(first + 1, last)
<1> DEFINE bs == buffers_
           n == Len(bs)
           ss == [i \in DOMAIN bs |-> DataRead(bs[i], 0, readableSize(bs[i]))]
           g == [i \in 0..n |-> Stream(first + 1, Upto(bs, first, i))]
           U(i) == Upto(bs, first, i)
<1>1. n \in Nat /\ DOMAIN bs = 1..n
  BY DEF Window
<1>2. \A i \in 1..n : /\ readableSize(bs[i]) = U(i) - U(i - 1)
                      /\ U(i - 1) < U(i) /\ U(i - 1) \in Int /\ U(i) \in Int
  <2>1. \A i \in 1..n : i - 1 \in 0..n /\ i \in 0..n
    BY <1>1
  <2> HIDE DEF n
  <2> QED
    BY <2>1, Joined DEF n
<1>3. ASSUME NEW i \in 1..n PROVE ss[i] = Stream(U(i - 1) + 1, U(i))
  <2> DEFINE k == readableSize(bs[i])
             u == U(i - 1)
  <2>1. k \in Nat /\ 0 + k <= k /\ 0 \in Nat /\ u \in Int /\ u + 0 + k = U(i)
        /\ u + 0 + 1 = u + 1
    BY <1>2
  <2>2. DataRead(bs[i], 0, k) = Stream(u + 0 + 1, u + 0 + k)
    <3> HIDE DEF k
    <3> QED
      BY <2>1, DataAt DEF k
  <2>3. ss[i] = DataRead(bs[i], 0, k)
    BY <1>1
  <2> HIDE DEF ss, k
  <2> QED
    BY <2>1, <2>2, <2>3
<1>4. \A i \in 0..n : U(i) \in Int /\ first <= U(i)
  BY FirstLeast
<1>5. g[0] = <<>>
  <2>1. g[0] = Stream(first + 1, first)
    BY <1>1 DEF Upto
  <2>2. first + 1 \in Int /\ first < first + 1
    OBVIOUS
  <2> QED
    BY <2>1, <2>2, StreamIs
<1>6. \A i \in 0..n : g[i] \in Seq(Int)
  <2>1. first + 1 \in Int
    OBVIOUS
  <2> HIDE DEF U
  <2> QED
    BY <1>4, <2>1, StreamIs DEF U
<1>7. ASSUME NEW i \in 1..n PROVE g[i] = g[i - 1] \o ss[i]
  <2> DEFINE u == U(i - 1)
             v == U(i)
  <2>1. i - 1 \in 0..n /\ i \in 0..n
    BY <1>1
  <2>2. g[i - 1] = Stream(first + 1, u) /\ g[i] = Stream(first + 1, v)
    BY <2>1
  <2>3. u \in Int /\ v \in Int /\ first + 1 \in Int /\ (first + 1) - 1 <= u /\ u <= v
    BY <1>2, <1>4, <2>1
  <2>4. ss[i] = Stream(u + 1, v)
    BY <1>3
  <2> HIDE DEF g, ss, u, v
  <2> QED
    BY <2>2, <2>3, <2>4, StreamJoin, SMTT(30)
<1>8. ss \in Seq(Seq(Int)) /\ Len(ss) = n
  <2>1. \A i \in 1..n : ss[i] \in Seq(Int)
    <3>1. ASSUME NEW i \in 1..n PROVE Stream(U(i - 1) + 1, U(i)) \in Seq(Int)
      <4>1. U(i - 1) + 1 \in Int /\ U(i) \in Int
        BY <1>2
      <4> HIDE DEF U
      <4> QED
        BY <4>1, StreamIs
    <3> QED
      BY <1>3, <3>1
  <2>2. ss = [i \in 1..n |-> ss[i]]
    BY <1>1
  <2> HIDE DEF ss
  <2> QED
    BY <1>1, <2>1, <2>2
<1>9. PrepareSend = FlattenSeq(ss)
  BY DEF PrepareSend
<1>10. FlattenSeq(ss) = g[n]
  <2> HIDE DEF ss, g
  <2> QED
    BY <1>5, <1>6, <1>7, <1>8, FlattenIs
<1>11. g[n] = Stream(first + 1, last)
  <2>1. n \in 0..n
    BY <1>1
  <2>2. U(n) = last
    BY Joined
  <2> QED
    BY <2>1, <2>2
<1> QED
  BY <1>9, <1>10, <1>11

\* One buffer is replaced by one at the same place in the stream; only the
\* first may have been read, only the last may have been written.
LEMMA WindowReplace ==
    ASSUME NEW bs, NEW first \in Int, NEW last \in Int, Window(bs, first, last),
           NEW i \in 1..Len(bs), NEW c, BufferOK(c), Base(c) = Base(bs[i]),
           i = 1 \/ c.rpos = bs[i].rpos, i = Len(bs) \/ c.wpos = bs[i].wpos
    PROVE  Window([bs EXCEPT ![i] = c],
                  IF i = 1 THEN Base(c) + c.rpos ELSE first,
                  IF i = Len(bs) THEN Base(c) + c.wpos ELSE last)
<1> DEFINE n == Len(bs)
           ds == [bs EXCEPT ![i] = c]
<1>1. n \in Nat /\ bs \in Seq(Storage) /\ c \in Storage /\ bs # <<>>
  BY DEF Window, BufferOK
<1>2. /\ ds \in Seq(Storage) /\ Len(ds) = n
      /\ \A j \in 1..n : ds[j] = IF j = i THEN c ELSE bs[j]
  BY <1>1, ExceptSeq
<1>3. \A j \in 1..n : BufferOK(ds[j]) /\ Base(ds[j]) = Base(bs[j])
  BY <1>2 DEF Window
<1>4. 1 \in 1..n /\ n \in 1..n
  BY <1>1
<1> HIDE DEF n, ds
<1>5. ASSUME NEW j \in 1..(n - 1)
      PROVE  /\ ds[j].wpos = Capacity /\ ds[j + 1].rpos = 0
             /\ Base(ds[j + 1]) = Base(ds[j]) + Capacity
  <2>1. j \in 1..n /\ j + 1 \in 1..n /\ j # n /\ j + 1 # 1
    BY <1>1
  <2>2. /\ bs[j].wpos = Capacity /\ bs[j + 1].rpos = 0
        /\ Base(bs[j + 1]) = Base(bs[j]) + Capacity
    BY DEF Window, n
  <2>3. ds[j].wpos = bs[j].wpos
    BY <1>2, <2>1 DEF n
  <2>4. ds[j + 1].rpos = bs[j + 1].rpos
    BY <1>2, <2>1
  <2> QED
    BY <1>3, <2>1, <2>2, <2>3, <2>4
<1>6. /\ first = Base(bs[1]) + bs[1].rpos
      /\ last = Base(bs[n]) + bs[n].wpos
  BY <1>1 DEF Window, n
<1>7. /\ (IF i = 1 THEN Base(c) + c.rpos ELSE first) = Base(ds[1]) + ds[1].rpos
      /\ (IF i = n THEN Base(c) + c.wpos ELSE last) = Base(ds[n]) + ds[n].wpos
  BY <1>2, <1>3, <1>4, <1>6
<1>8. ds # <<>>
  BY <1>1, <1>2, <1>4
<1> QED
  BY <1>2, <1>3, <1>5, <1>7, <1>8 DEF Window, ds, n

\* The first buffer is taken away.
LEMMA WindowPop ==
    ASSUME NEW bs, NEW first \in Int, NEW last \in Int, Window(bs, first, last),
           bs # <<>>
    PROVE  Window(Tail(bs), Base(bs[1]) + bs[1].wpos, last)
<1> DEFINE n == Len(bs)
           ds == Tail(bs)
<1>1. n \in Nat \ {0} /\ bs \in Seq(Storage)
  BY EmptySeq DEF Window
<1>2. /\ ds \in Seq(Storage) /\ Len(ds) = n - 1
      /\ \A j \in 1..(n - 1) : ds[j] = bs[j + 1]
  BY <1>1, HeadTailProperties
<1> HIDE DEF n, ds
<1>3. /\ \A j \in 1..(n - 1) : j + 1 \in 1..n
      /\ \A j \in 1..(n - 2) : j + 1 \in 1..(n - 1) /\ j \in 1..(n - 1)
      /\ (n - 1) - 1 = n - 2 /\ (n - 1) + 1 = n
  BY <1>1
<1>4. \A j \in 1..(n - 1) : BufferOK(ds[j])
  BY <1>2, <1>3 DEF Window, n
<1>5. \A j \in 1..(n - 1) : /\ bs[j].wpos = Capacity /\ bs[j + 1].rpos = 0
                            /\ Base(bs[j + 1]) = Base(bs[j]) + Capacity
  BY DEF Window, n
<1>6. \A j \in 1..(n - 2) : /\ ds[j].wpos = Capacity /\ ds[j + 1].rpos = 0
                            /\ Base(ds[j + 1]) = Base(ds[j]) + Capacity
  BY <1>2, <1>3, <1>5
<1>7. last = Base(bs[n]) + bs[n].wpos
  BY DEF Window, n
<1>8. CASE n = 1
  <2>1. ds = <<>>
    BY <1>2, <1>8
  <2> QED
    BY <1>2, <1>3, <1>4, <1>6, <1>7, <1>8, <2>1 DEF Window, ds
<1>9. CASE n # 1
  <2>1. 1 \in 1..(n - 1) /\ n - 1 \in 1..(n - 1) /\ ds # <<>> /\ 1 + 1 = 2
    BY <1>1, <1>2, <1>9
  <2>2. ds[1] = bs[2] /\ ds[n - 1] = bs[n] /\ BufferOK(ds[1])
    BY <1>2, <1>3, <1>4, <2>1
  <2>3. /\ bs[1].wpos = Capacity /\ ds[1].rpos = 0
        /\ Base(ds[1]) = Base(bs[1]) + Capacity
    BY <1>5, <2>1, <2>2
  <2>4. Base(ds[1]) \in Int
    BY <2>2, BufferIs
  <2>5. Base(bs[1]) + bs[1].wpos = Base(ds[1]) + ds[1].rpos
    BY <2>3, <2>4
  <2> QED
    BY <1>2, <1>3, <1>4, <1>6, <1>7, <2>1, <2>2, <2>5 DEF Window, ds
<1> QED
  BY <1>8, <1>9

\* A buffer is added behind full ones.
LEMMA WindowAppend ==
    ASSUME NEW bs, NEW first \in Int, NEW last \in Int, Window(bs, first, last),
           bs = <<>> \/ bs[Len(bs)].wpos = Capacity,
           NEW c, BufferOK(c), c.rpos = 0, Base(c) = last
    PROVE  Window(Append(bs, c), first, last + c.wpos)
<1> DEFINE n == Len(bs)
           ds == Append(bs, c)
<1>1. n \in Nat /\ bs \in Seq(Storage) /\ c \in Storage
  BY DEF Window, BufferOK
<1>2. /\ ds \in Seq(Storage) /\ Len(ds) = n + 1 /\ ds # <<>>
      /\ \A j \in 1..n : ds[j] = bs[j]
      /\ ds[n + 1] = c
  BY <1>1, AppendProperties
<1>3. bs = <<>> <=> n = 0
  BY <1>1
<1> HIDE DEF n, ds
<1>4. /\ \A j \in 1..(n + 1) : j \in 1..n \/ j = n + 1
      /\ (n + 1) - 1 = n
      /\ \A j \in 1..n : j = n \/ (j \in 1..(n - 1) /\ j + 1 \in 1..n)
  BY <1>1
<1>5. \A j \in 1..(n + 1) : BufferOK(ds[j])
  BY <1>2, <1>4 DEF Window, n
<1>6. n # 0 => last = Base(bs[n]) + bs[n].wpos /\ bs[n].wpos = Capacity
  BY <1>3 DEF Window, n
<1>7. ASSUME NEW j \in 1..n
      PROVE  /\ ds[j].wpos = Capacity /\ ds[j + 1].rpos = 0
             /\ Base(ds[j + 1]) = Base(ds[j]) + Capacity
  <2>1. CASE j = n
    BY <1>1, <1>2, <1>6, <2>1
  <2>2. CASE j # n
    <3>1. j \in 1..(n - 1) /\ j + 1 \in 1..n
      BY <1>4, <2>2
    <3>2. /\ bs[j].wpos = Capacity /\ bs[j + 1].rpos = 0
          /\ Base(bs[j + 1]) = Base(bs[j]) + Capacity
      BY <3>1 DEF Window, n
    <3> QED
      BY <1>2, <3>1, <3>2
  <2> QED
    BY <2>1, <2>2
<1>8. first = Base(ds[1]) + ds[1].rpos
  <2>1. CASE n = 0
    <3>1. first = last /\ ds[1] = c
      BY <1>2, <1>3, <2>1 DEF Window
    <3> QED
      BY <3>1
  <2>2. CASE n # 0
    <3>1. 1 \in 1..n
      BY <1>1, <2>2
    <3> QED
      BY <1>2, <1>3, <2>2, <3>1 DEF Window
  <2> QED
    BY <2>1, <2>2
<1> QED
  BY <1>2, <1>4, <1>5, <1>7, <1>8 DEF Window, ds

\* What the kernel has written behind what a buffer held.
LEMMA BufferFilled ==
    ASSUME NEW b \in Storage, NEW k \in 1..(Capacity - b.wpos), NEW position \in Nat,
           SpareOK(b) \/ (BufferOK(b) /\ Base(b) + b.wpos = position),
           NEW c, c = hasWritten(Filled(b, b.wpos, position + 1, k), k)
    PROVE  /\ BufferOK(c) /\ Base(c) = position - b.wpos
           /\ c.rpos = b.rpos /\ c.wpos = b.wpos + k
<1>1. /\ b.mem \in [1..Capacity -> Nat] /\ b.rpos \in Nat /\ b.wpos \in Nat
      /\ b = [mem |-> b.mem, rpos |-> b.rpos, wpos |-> b.wpos]
  BY DEF Storage
<1> DEFINE w == b.wpos
           mem == [i \in 1..Capacity |-> IF i \in (w + 1)..(w + k)
                                         THEN (position + 1) + (i - w) - 1 ELSE b.mem[i]]
<1>2. c.mem = mem /\ c.rpos = b.rpos /\ c.wpos = w + k
      /\ c = [mem |-> c.mem, rpos |-> c.rpos, wpos |-> c.wpos]
  BY <1>1 DEF hasWritten, Filled
<1>3. w \in Nat /\ k \in Nat /\ k >= 1 /\ w + k <= Capacity /\ b.rpos <= w
  BY <1>1, CapacityNat DEF SpareOK, BufferOK
<1>4. \A i \in (w + 1)..(w + k) : i \in 1..Capacity /\ mem[i] = (position - w) + i
  <2>1. ASSUME NEW i \in (w + 1)..(w + k)
        PROVE  i \in 1..Capacity /\ mem[i] = (position - w) + i
    <3>1. i \in 1..Capacity
      BY <1>3, CapacityNat
    <3>2. mem[i] = (position + 1) + (i - w) - 1
      BY <3>1
    <3> HIDE DEF w, mem
    <3>3. (position + 1) + (i - w) - 1 = (position - w) + i
      BY <1>3
    <3> QED
      BY <3>1, <3>2, <3>3
  <2> QED
    BY <2>1
<1>5. mem \in [1..Capacity -> Nat]
  <2>1. ASSUME NEW i \in 1..Capacity
        PROVE (IF i \in (w + 1)..(w + k)
               THEN (position + 1) + (i - w) - 1 ELSE b.mem[i]) \in Nat
    <3>1. b.mem[i] \in Nat
      BY <1>1
    <3> HIDE DEF w
    <3>2. CASE i \in (w + 1)..(w + k)
      BY <1>3, <3>2
    <3> QED
      BY <3>1, <3>2
  <2> QED
    BY <2>1
<1>6. c \in Storage
  <2> HIDE DEF mem
  <2> QED
    BY <1>2, <1>3, <1>5 DEF Storage
<1>7. Base(c) = position - w
  <2>1. w + k \in (w + 1)..(w + k)
    BY <1>3
  <2>2. c.mem[c.wpos] = (position - w) + (w + k)
    BY <1>2, <1>4, <2>1
  <2> QED
    BY <1>2, <1>3, <2>2 DEF Base
<1>8. ASSUME NEW j \in (c.rpos + 1)..c.wpos PROVE c.mem[j] = Base(c) + j
  <2>1. CASE j \in (w + 1)..(w + k)
    BY <1>2, <1>4, <1>7, <2>1
  <2>2. CASE j \notin (w + 1)..(w + k)
    <3>1. j \in (b.rpos + 1)..w /\ j \in 1..Capacity
      BY <1>1, <1>2, <1>3, <2>2, CapacityNat, SMTT(30)
    <3>2. BufferOK(b) /\ Base(b) + w = position
      BY <1>3, <3>1 DEF SpareOK
    <3>3. b.mem[j] = Base(b) + j /\ Base(b) \in Int
      BY <3>1, <3>2, BufferIs
    <3>4. mem[j] = b.mem[j]
      BY <2>2, <3>1
    <3>5. Base(b) = position - w
      BY <1>3, <3>2, <3>3
    <3> QED
      BY <1>2, <1>7, <3>3, <3>4, <3>5
  <2> QED
    BY <2>1, <2>2
<1> QED
  <2>1. c.rpos < c.wpos /\ c.wpos <= Capacity
    BY <1>1, <1>2, <1>3
  <2> QED
    BY <1>2, <1>6, <1>7, <1>8, <2>1 DEF BufferOK

-----------------------------------------------------------------------------
(* read(): what the loop takes.                                            *)

TakeStates == [buffers : Seq(Storage), extend : Seq(Storage), nread : Nat,
               got : Seq(Int)]

\* Between two turns: the window begins where the copy ends, what is used up
\* is spare, and no buffer is gained or lost.
TakeOK(s, count) ==
    /\ s \in TakeStates
    /\ Window(s.buffers, consumed + s.nread, received)
    /\ Spares(s.extend)
    /\ Len(s.buffers) + Len(s.extend) = Len(buffers_) + Len(extendBuffers_)
    /\ s.nread <= count
    /\ s.got = Stream(consumed + 1, consumed + s.nread)

\* A spare buffer more.
LEMMA SparesAppend ==
    ASSUME NEW bs, Spares(bs), NEW c, SpareOK(c)
    PROVE  Spares(Append(bs, c))
<1> DEFINE n == Len(bs)
<1>1. bs \in Seq(Storage) /\ n \in Nat /\ c \in Storage
  BY DEF Spares, SpareOK
<1>2. /\ Append(bs, c) \in Seq(Storage) /\ Len(Append(bs, c)) = n + 1
      /\ \A i \in 1..n : Append(bs, c)[i] = bs[i]
      /\ Append(bs, c)[n + 1] = c
  BY <1>1, AppendProperties
<1>3. \A i \in 1..(n + 1) : i \in 1..n \/ i = n + 1
  BY <1>1
<1> QED
  BY <1>2, <1>3 DEF Spares

\* A buffer that was used up or thrown away is spare.
LEMMA ResetSpare ==
    ASSUME NEW b \in Storage
    PROVE  SpareOK(reset(b))
BY DEF Storage, SpareOK, reset

\* A turn copies what follows, and uses up a buffer or ends the loop.
LEMMA TakeTurnOK ==
    ASSUME NEW count \in Nat, NEW s, TakeOK(s, count), s.nread < count,
           s.buffers # <<>>, consumed \in Nat, received \in Nat
    PROVE  /\ TakeOK(TakeTurn(s, count), count)
           /\ \/ TakeTurn(s, count).nread = count
              \/ Len(TakeTurn(s, count).buffers) = Len(s.buffers) - 1
<1> DEFINE bs == s.buffers
           b == bs[1]
           n == Smaller(readableSize(b), count - s.nread)
           c == hasRead(b, n)
           t == TakeTurn(s, count)
           p == consumed + s.nread
<1>1. /\ bs \in Seq(Storage) /\ s.extend \in Seq(Storage) /\ s.nread \in Nat
      /\ s.got \in Seq(Int) /\ Window(bs, p, received) /\ Spares(s.extend)
      /\ Len(bs) + Len(s.extend) = Len(buffers_) + Len(extendBuffers_)
      /\ s.got = Stream(consumed + 1, p)
  BY DEF TakeOK, TakeStates
<1>2. p \in Int /\ received \in Int /\ 1 \in 1..Len(bs) /\ Len(bs) \in Nat
      /\ Head(bs) = b
  BY <1>1
<1>3. /\ BufferOK(b) /\ b.rpos \in Nat /\ b.wpos \in Nat /\ b.rpos < b.wpos
      /\ Base(b) \in Int /\ p = Base(b) + b.rpos
  BY <1>1, <1>2, BufferIs DEF Window
<1>4. b = [mem |-> b.mem, rpos |-> b.rpos, wpos |-> b.wpos] /\ b \in Storage
  BY <1>3 DEF BufferOK, Storage
<1>5. t = [buffers |-> IF empty(c) THEN Tail(bs) ELSE [bs EXCEPT ![1] = c],
           extend |-> IF empty(c) THEN Append(s.extend, reset(c)) ELSE s.extend,
           nread |-> s.nread + n,
           got |-> s.got \o DataRead(b, 0, n)]
  BY <1>2 DEF TakeTurn
<1> HIDE DEF t, b, bs, p
<1>6. n \in Nat /\ n <= readableSize(b) /\ n <= count - s.nread
      /\ (n = readableSize(b) \/ n = count - s.nread)
  <2> DEFINE x == readableSize(b)
             y == count - s.nread
  <2>1. x \in Nat
    BY <1>3 DEF readableSize
  <2>2. y \in Nat
    BY <1>1
  <2>3. n = Smaller(x, y)
    OBVIOUS
  <2> HIDE DEF x, y, n
  <2>4. n \in Nat /\ n <= x /\ n <= y /\ (n = x \/ n = y)
    BY <2>1, <2>2, <2>3 DEF Smaller
  <2> QED
    BY <2>4 DEF x, y
<1>7. s.nread \in Nat /\ p = consumed + s.nread /\ s.nread < count
  BY <1>1 DEF p
<1>8. c \in Storage /\ c.rpos = b.rpos + n /\ c.wpos = b.wpos /\ c.mem = b.mem
  <2>1. n \in Nat
    BY <1>6
  <2> HIDE DEF n
  <2>2. c = [mem |-> b.mem, rpos |-> b.rpos + n, wpos |-> b.wpos]
    BY <1>4 DEF hasRead
  <2> HIDE DEF c
  <2> QED
    BY <1>3, <1>4, <2>1, <2>2 DEF Storage
<1> HIDE DEF n, c
<1>9. empty(c) <=> n = readableSize(b)
  BY <1>3, <1>6, <1>8 DEF empty, readableSize
<1>10. s.got \o DataRead(b, 0, n) = Stream(consumed + 1, consumed + (s.nread + n))
  <2>1. DataRead(b, 0, n) = Stream(Base(b) + b.rpos + 0 + 1, Base(b) + b.rpos + 0 + n)
    <3>1. b.rpos + 0 + n <= b.wpos /\ 0 \in Nat
      BY <1>3, <1>6 DEF readableSize
    <3> QED
      BY <1>3, <1>6, <3>1, DataIs
  <2>2. /\ Base(b) + b.rpos + 0 + 1 = p + 1
        /\ Base(b) + b.rpos + 0 + n = p + n
        /\ consumed + (s.nread + n) = p + n
    <3>1. Base(b) + b.rpos + 0 + 1 = p + 1 /\ Base(b) + b.rpos + 0 + n = p + n
      BY <1>2, <1>3, <1>6
    <3>2. consumed + (s.nread + n) = p + n
      BY <1>6, <1>7
    <3> QED
      BY <3>1, <3>2
  <2>3. consumed + 1 \in Int /\ p + n \in Int /\ (consumed + 1) - 1 <= p /\ p <= p + n
    BY <1>2, <1>6, <1>7
  <2>4. Stream(consumed + 1, p) \o Stream(p + 1, p + n) = Stream(consumed + 1, p + n)
    BY <1>2, <2>3, StreamJoin
  <2> QED
    BY <1>1, <2>1, <2>2, <2>4
<1>11. s.nread + n \in Nat /\ s.nread + n <= count
       /\ Stream(consumed + 1, consumed + (s.nread + n)) \in Seq(Int)
  <2>1. s.nread + n \in Nat /\ s.nread + n <= count
    BY <1>1, <1>6
  <2>2. consumed + 1 \in Int /\ consumed + (s.nread + n) \in Int
    BY <2>1
  <2> QED
    BY <2>1, <2>2, StreamIs
<1>12. p + n = consumed + (s.nread + n)
  BY <1>1, <1>6 DEF p
<1>13. CASE empty(c)
  <2>1. t = [buffers |-> Tail(bs), extend |-> Append(s.extend, reset(c)),
             nread |-> s.nread + n, got |-> s.got \o DataRead(b, 0, n)]
    BY <1>5, <1>13
  <2>2. Window(Tail(bs), p + n, received)
    <3>1. Window(Tail(bs), Base(b) + b.wpos, received)
      BY <1>1, <1>2, WindowPop DEF b, bs
    <3>2. Base(b) + b.wpos = p + n
      BY <1>3, <1>6, <1>9, <1>13 DEF readableSize
    <3> QED
      BY <3>1, <3>2
  <2>3. Spares(Append(s.extend, reset(c)))
    BY <1>1, <1>8, ResetSpare, SparesAppend
  <2>4. /\ Tail(bs) \in Seq(Storage) /\ Len(Tail(bs)) = Len(bs) - 1
        /\ Append(s.extend, reset(c)) \in Seq(Storage)
        /\ Len(Append(s.extend, reset(c))) = Len(s.extend) + 1
    <3>1. reset(c) \in Storage
      BY <1>8, ResetSpare DEF SpareOK
    <3>2. bs # <<>>
      BY DEF bs
    <3> QED
      BY <1>1, <3>1, <3>2, HeadTailProperties, AppendProperties
  <2>5. t \in TakeStates
    BY <1>10, <1>11, <2>1, <2>4 DEF TakeStates
  <2>6. Len(t.buffers) + Len(t.extend) = Len(buffers_) + Len(extendBuffers_)
    <3>1. Len(s.extend) \in Nat
      BY <1>1
    <3>2. Len(t.buffers) = Len(bs) - 1 /\ Len(t.extend) = Len(s.extend) + 1
      BY <2>1, <2>4
    <3>3. Len(bs) + Len(s.extend) = Len(buffers_) + Len(extendBuffers_)
      BY <1>1
    <3> QED
      BY <1>2, <3>1, <3>2, <3>3
  <2>7. TakeOK(t, count)
    BY <1>10, <1>11, <1>12, <2>1, <2>2, <2>3, <2>5, <2>6 DEF TakeOK
  <2> QED
    BY <2>1, <2>4, <2>7 DEF t, bs
<1>14. CASE ~empty(c)
  <2>1. t = [buffers |-> [bs EXCEPT ![1] = c], extend |-> s.extend,
             nread |-> s.nread + n, got |-> s.got \o DataRead(b, 0, n)]
    BY <1>5, <1>14
  <2>2. n < readableSize(b) /\ s.nread + n = count
    <3>1. n = count - s.nread /\ n # readableSize(b)
      BY <1>6, <1>9, <1>14
    <3>2. readableSize(b) \in Int
      BY <1>3 DEF readableSize
    <3> QED
      BY <1>6, <1>7, <3>1, <3>2
  <2>3. Base(c) = Base(b) /\ BufferOK(c)
    <3>1. Base(c) = Base(b)
      BY <1>8 DEF Base
    <3>2. c.rpos < c.wpos /\ c.wpos <= Capacity
      BY <1>3, <1>6, <1>8, <2>2, BufferIs DEF readableSize
    <3>3. \A j \in (c.rpos + 1)..c.wpos : j \in (b.rpos + 1)..b.wpos
      BY <1>3, <1>6, <1>8
    <3>4. \A j \in (b.rpos + 1)..b.wpos : b.mem[j] = Base(b) + j
      BY <1>3, BufferIs
    <3> QED
      BY <1>8, <3>1, <3>2, <3>3, <3>4 DEF BufferOK
  <2>4. Window([bs EXCEPT ![1] = c], p + n, received)
    <3>1. Window([bs EXCEPT ![1] = c], Base(c) + c.rpos,
                 IF 1 = Len(bs) THEN Base(c) + c.wpos ELSE received)
      BY <1>1, <1>2, <1>8, <2>3, WindowReplace DEF b
    <3>2. Base(c) + c.rpos = p + n
      BY <1>3, <1>6, <1>8, <2>3
    <3>3. 1 = Len(bs) => Base(c) + c.wpos = received
      <4>1. received = Base(bs[Len(bs)]) + bs[Len(bs)].wpos
        BY <1>1, <1>2 DEF Window
      <4> QED
        BY <1>8, <2>3, <4>1 DEF b
    <3> QED
      BY <3>1, <3>2, <3>3
  <2>5. [bs EXCEPT ![1] = c] \in Seq(Storage) /\ Len([bs EXCEPT ![1] = c]) = Len(bs)
    BY <1>1, <1>2, <1>8, ExceptSeq
  <2>6. t \in TakeStates
    BY <1>1, <1>10, <1>11, <2>1, <2>5 DEF TakeStates
  <2>7. TakeOK(t, count)
    BY <1>1, <1>10, <1>11, <1>12, <2>1, <2>4, <2>5, <2>6 DEF TakeOK
  <2> QED
    BY <2>1, <2>2, <2>7 DEF t
<1> QED
  BY <1>13, <1>14

\* The loop of read() and retrieve(): its result is as between two turns, and
\* it stops with what was asked for or with nothing left.
LEMMA TakenOK ==
    ASSUME NEW count \in Nat, StreamInv
    PROVE  /\ TakeOK(Taken(count), count)
           /\ Taken(count).nread = count \/ Len(Taken(count).buffers) = 0
<1> DEFINE n == Len(buffers_)
           start == [buffers |-> buffers_, extend |-> extendBuffers_,
                     nread |-> 0, got |-> <<>>]
           Turn(s) == IF s.nread >= count \/ s.buffers = <<>>
                      THEN s ELSE TakeTurn(s, count)
           Step(f) == [i \in 0..n |-> IF i = 0 THEN start ELSE Turn(f[i - 1])]
           f == CHOOSE f : f = Step(f)
           J(i) == {s \in TakeStates :
                       /\ TakeOK(s, count)
                       /\ s.nread = count \/ Len(s.buffers) = n - i}
           I == [i \in 0..n |-> J(i)]
           G == [i \in 1..n |-> [s \in J(i - 1) |-> Turn(s)]]
<1>1. Taken(count) = f[n]
  BY DEF Taken
<1>2. /\ n \in Nat /\ buffers_ \in Seq(Storage) /\ extendBuffers_ \in Seq(Storage)
      /\ consumed \in Nat /\ received \in Nat /\ Spares(extendBuffers_)
      /\ Window(buffers_, consumed, received)
  BY DEF StreamInv, Window, Spares
<1>3. start \in J(0)
  <2>1. start \in TakeStates
    BY <1>2, EmptySeq DEF TakeStates
  <2>2. consumed + 0 = consumed /\ consumed + 1 \in Int /\ consumed < consumed + 1
        /\ consumed \in Int /\ 0 <= count /\ n - 0 = n
    BY <1>2
  <2>3. Stream(consumed + 1, consumed) = <<>>
    BY <2>2, StreamIs
  <2>4. TakeOK(start, count)
    BY <1>2, <2>1, <2>2, <2>3 DEF TakeOK
  <2> QED
    BY <2>1, <2>2, <2>4
<1>4. ASSUME NEW i \in 1..n, NEW s \in J(i - 1) PROVE Turn(s) \in J(i)
  <2>1. TakeOK(s, count) /\ (s.nread = count \/ Len(s.buffers) = n - (i - 1))
    OBVIOUS
  <2>2. s.nread \in Nat /\ s.nread <= count /\ s.buffers \in Seq(Storage)
        /\ s \in TakeStates
    BY <2>1 DEF TakeOK, TakeStates
  <2>3. CASE s.nread >= count
    <3>1. s.nread = count /\ Turn(s) = s
      BY <2>2, <2>3
    <3> QED
      BY <2>1, <2>2, <3>1
  <2>4. CASE ~(s.nread >= count)
    <3>1. Len(s.buffers) = n - (i - 1) /\ s.nread < count /\ n - (i - 1) > 0
          /\ (n - (i - 1)) - 1 = n - i
      BY <1>2, <2>1, <2>2, <2>4
    <3>2. s.buffers # <<>>
      BY <2>2, <3>1
    <3>3. Turn(s) = TakeTurn(s, count)
      BY <2>4, <3>2
    <3>4. /\ TakeOK(TakeTurn(s, count), count)
          /\ \/ TakeTurn(s, count).nread = count
             \/ Len(TakeTurn(s, count).buffers) = Len(s.buffers) - 1
      BY <1>2, <2>1, <3>1, <3>2, TakeTurnOK
    <3>5. TakeTurn(s, count) \in TakeStates
      BY <3>4 DEF TakeOK
    <3> QED
      BY <3>1, <3>3, <3>4, <3>5
  <2> QED
    BY <2>3, <2>4
<1>5. /\ \A i \in 1..n : i - 1 \in 0..n /\ i \in 0..n
      /\ \A i \in 0..n : I[i] = J(i)
      /\ \A i \in 1..n : \A s \in J(i - 1) : G[i][s] = Turn(s)
      /\ 0 \in 0..n /\ n \in 0..n /\ 0 \in Int /\ n \in Int
  BY <1>2
<1> HIDE DEF n, start, Turn, I, G, J
<1>6. LoopKeeps(n, I, G)
  BY <1>4, <1>5 DEF LoopKeeps
<1>7. PICK g : LoopRun(g, n, I, G, start)
  <2>1. start \in I[0]
    BY <1>3, <1>5
  <2> QED
    BY <1>2, <1>6, <2>1, LoopExists
<1>8. g = Step(g)
  <2>1. g = [i \in 0..n |-> g[i]] /\ g[0] = start
    BY <1>7 DEF LoopRun
  <2>2. ASSUME NEW i \in 0..n PROVE g[i] = IF i = 0 THEN start ELSE Turn(g[i - 1])
    <3>1. CASE i = 0
      BY <2>1, <3>1
    <3>2. CASE i # 0
      <4>1. i \in 1..n
        BY <1>2, <3>2
      <4>2. g[i] = G[i][g[i - 1]] /\ g[i - 1] \in J(i - 1)
        BY <1>5, <1>7, <4>1 DEF LoopRun
      <4> QED
        BY <1>5, <3>2, <4>1, <4>2
    <3> QED
      BY <3>1, <3>2
  <2> QED
    BY <2>1, <2>2
<1>9. f = Step(f)
  BY <1>8
<1> HIDE DEF f
<1>10. \A i \in 0..n : f[i] \in I[i]
  <2>1. f[0] \in I[0]
    BY <1>3, <1>5, <1>9
  <2>2. ASSUME NEW i \in (0 + 1)..n, f[i - 1] \in I[i - 1] PROVE f[i] \in I[i]
    <3>1. i \in 1..n /\ i \in 0..n /\ i # 0
      BY <1>2
    <3>2. f[i] = Turn(f[i - 1]) /\ f[i - 1] \in J(i - 1)
      BY <1>5, <1>9, <2>2, <3>1
    <3> QED
      BY <1>4, <1>5, <3>1, <3>2
  <2> QED
    BY <1>5, <2>1, <2>2, LoopInvariant
<1>11. f[n] \in J(n) /\ n - n = 0
  BY <1>2, <1>5, <1>10
<1> QED
  BY <1>1, <1>11 DEF J

\* As many bytes as were asked for, or as there are.
LEMMA TakenMany ==
    ASSUME NEW count \in Nat, StreamInv
    PROVE  /\ Taken(count).nread \in Nat
           /\ consumed + Taken(count).nread = Smaller(received, consumed + count)
<1> DEFINE s == Taken(count)
           m == s.nread
<1>1. TakeOK(s, count) /\ (m = count \/ Len(s.buffers) = 0)
  BY TakenOK
<1>2. m \in Nat /\ m <= count /\ Window(s.buffers, consumed + m, received)
      /\ s.buffers \in Seq(Storage)
  BY <1>1 DEF TakeOK, TakeStates
<1>3. consumed \in Nat /\ received \in Nat
  BY DEF StreamInv
<1> HIDE DEF s, m
<1>4. consumed + m \in Int /\ received \in Int
  BY <1>2, <1>3
<1>5. consumed + m <= received
  BY <1>2, <1>4, FirstLeast
<1>6. m = count \/ consumed + m = received
  <2>1. CASE Len(s.buffers) = 0
    <3>1. s.buffers = <<>>
      BY <1>2, <2>1
    <3> QED
      BY <1>2, <3>1 DEF Window
  <2> QED
    BY <1>1, <2>1
<1>7. consumed + m = Smaller(received, consumed + count)
  BY <1>2, <1>3, <1>5, <1>6 DEF Smaller
<1> QED
  BY <1>2, <1>7 DEF s, m

-----------------------------------------------------------------------------
(* peek().                                                                 *)

\* What is known of the window at a turn of a loop over the buffers.
LEMMA WindowNow ==
    ASSUME StreamInv
    PROVE  /\ consumed \in Nat /\ received \in Nat /\ Len(buffers_) \in Nat
           /\ Upto(buffers_, consumed, 0) = consumed
           /\ Upto(buffers_, consumed, Len(buffers_)) = received
           /\ \A i \in 0..Len(buffers_) :
                  /\ Upto(buffers_, consumed, i) \in Int
                  /\ consumed <= Upto(buffers_, consumed, i)
                  /\ Upto(buffers_, consumed, i) <= received
           /\ \A i \in 1..Len(buffers_) :
                  /\ Upto(buffers_, consumed, i - 1) < Upto(buffers_, consumed, i)
                  /\ readableSize(buffers_[i]) = Upto(buffers_, consumed, i)
                                                 - Upto(buffers_, consumed, i - 1)
<1>1. consumed \in Int /\ received \in Int /\ Window(buffers_, consumed, received)
      /\ consumed \in Nat /\ received \in Nat /\ Len(buffers_) \in Nat
  BY DEF StreamInv, Window
<1> QED
  BY <1>1, Joined, FirstLeast DEF Upto

PeekStates == [nread : Nat, got : Seq(Int)]

\* A turn of peek(buf, count) shows the part of the stream that buffer i
\* holds, or what is left of count.
LEMMA PeekTurnOK ==
    ASSUME StreamInv, NEW count \in Nat, NEW i \in 1..Len(buffers_),
           NEW s \in PeekStates, s.nread <= count,
           consumed + s.nread <= Upto(buffers_, consumed, i - 1),
           s.nread = count \/ consumed + s.nread = Upto(buffers_, consumed, i - 1),
           s.got = Stream(consumed + 1, consumed + s.nread),
           NEW t, t = PeekTurn(s, buffers_[i], count)
    PROVE  /\ t \in PeekStates /\ t.nread <= count
           /\ consumed + t.nread <= Upto(buffers_, consumed, i)
           /\ t.nread = count \/ consumed + t.nread = Upto(buffers_, consumed, i)
           /\ t.got = Stream(consumed + 1, consumed + t.nread)
<1> DEFINE b == buffers_[i]
           u == Upto(buffers_, consumed, i - 1)
           v == Upto(buffers_, consumed, i)
           r == readableSize(b)
           m == s.nread
           k == Smaller(r, count - m)
<1>1. i - 1 \in 0..Len(buffers_) /\ i \in 0..Len(buffers_)
  BY WindowNow
<1>2. /\ consumed \in Nat /\ u \in Int /\ v \in Int /\ u < v /\ r = v - u
      /\ m \in Nat /\ m <= count /\ consumed + m <= u /\ (m = count \/ consumed + m = u)
      /\ s.got = Stream(consumed + 1, consumed + m)
  BY <1>1, WindowNow DEF PeekStates
<1>3. t = IF m >= count THEN s
          ELSE [nread |-> m + k, got |-> s.got \o DataRead(b, 0, k)]
  BY DEF PeekTurn
<1>4. CASE m >= count
  <2>1. t = s /\ m = count
    BY <1>2, <1>3, <1>4
  <2>2. consumed + m <= v
    <3> HIDE DEF u, v, m
    <3> QED
      BY <1>2
  <2> QED
    BY <1>2, <2>1, <2>2
<1>5. CASE ~(m >= count)
  <2>1. t = [nread |-> m + k, got |-> s.got \o DataRead(b, 0, k)]
    BY <1>3, <1>5
  <2>2. DataRead(b, 0, k) = Stream(u + 0 + 1, u + 0 + k)
    <3>1. k \in Nat /\ 0 \in Nat /\ 0 + k <= r
      <4> HIDE DEF u, v, m, r
      <4> QED
        BY <1>2, <1>5 DEF Smaller
    <3>2. consumed \in Int /\ received \in Int /\ Window(buffers_, consumed, received)
      BY DEF StreamInv
    <3> HIDE DEF k
    <3> QED
      BY <3>1, <3>2, DataAt
  <2> HIDE DEF u, v, m, r
  <2>3. /\ k \in Nat /\ k <= r /\ k <= count - m /\ (k = r \/ k = count - m)
        /\ consumed + m = u
    BY <1>2, <1>5 DEF Smaller
  <2> HIDE DEF k
  <2>4. /\ m + k \in Nat /\ m + k <= count /\ consumed + (m + k) = u + k /\ u + k <= v
        /\ (m + k = count \/ consumed + (m + k) = v)
        /\ u + 0 + 1 = u + 1 /\ u + 0 + k = u + k
        /\ consumed + 1 \in Int /\ u + k \in Int /\ (consumed + 1) - 1 <= u /\ u <= u + k
    BY <1>2, <2>3
  <2>5. Stream(consumed + 1, u) \o Stream(u + 1, u + k) = Stream(consumed + 1, u + k)
    BY <1>2, <2>4, StreamJoin
  <2>6. s.got \o DataRead(b, 0, k) = Stream(consumed + 1, consumed + (m + k))
    BY <1>2, <2>2, <2>3, <2>4, <2>5
  <2>7. Stream(consumed + 1, consumed + (m + k)) \in Seq(Int)
    BY <2>4, StreamIs
  <2>8. t.nread = m + k /\ t.got = Stream(consumed + 1, consumed + (m + k))
    BY <2>1, <2>6
  <2>9. t \in PeekStates
    <3> DEFINE z == Stream(consumed + 1, consumed + (m + k))
               y == m + k
    <3>1. t = [nread |-> y, got |-> z] /\ y \in Nat /\ z \in Seq(Int)
      BY <2>1, <2>4, <2>6, <2>7
    <3> HIDE DEF y, z
    <3> QED
      BY <3>1 DEF PeekStates
  <2> QED
    BY <2>4, <2>8, <2>9 DEF v
<1> QED
  BY <1>4, <1>5

\* peek(buf, count) shows what read() would copy.
LEMMA PeekedIs ==
    ASSUME NEW count \in Nat, StreamInv
    PROVE  Peeked(count) = Stream(consumed + 1, Smaller(received, consumed + count))
<1> DEFINE n == Len(buffers_)
           start == [nread |-> 0, got |-> <<>>]
           Turn(s, i) == PeekTurn(s, buffers_[i], count)
           Step(f) == [i \in 0..n |-> IF i = 0 THEN start ELSE Turn(f[i - 1], i)]
           f == CHOOSE f : f = Step(f)
           U(i) == Upto(buffers_, consumed, i)
           J(i) == {s \in PeekStates :
                       /\ s.nread <= count /\ consumed + s.nread <= U(i)
                       /\ s.nread = count \/ consumed + s.nread = U(i)
                       /\ s.got = Stream(consumed + 1, consumed + s.nread)}
           I == [i \in 0..n |-> J(i)]
           G == [i \in 1..n |-> [s \in J(i - 1) |-> Turn(s, i)]]
<1>1. Peeked(count) = f[n].got
  BY DEF Peeked
<1>2. /\ n \in Nat /\ consumed \in Nat /\ received \in Nat
      /\ U(0) = consumed /\ U(n) = received
  BY WindowNow
<1>3. start \in J(0)
  <2>1. start \in PeekStates
    BY EmptySeq DEF PeekStates
  <2>2. consumed + 0 = consumed /\ consumed + 1 \in Int /\ consumed < consumed + 1
        /\ consumed \in Int /\ 0 <= count /\ consumed <= consumed
    BY <1>2
  <2>3. Stream(consumed + 1, consumed) = <<>>
    BY <2>2, StreamIs
  <2> QED
    BY <1>2, <2>1, <2>2, <2>3
<1>4. ASSUME NEW i \in 1..n, NEW s \in J(i - 1) PROVE Turn(s, i) \in J(i)
  BY PeekTurnOK
<1>5. /\ \A i \in 1..n : i - 1 \in 0..n /\ i \in 0..n
      /\ \A i \in 0..n : I[i] = J(i)
      /\ \A i \in 1..n : \A s \in J(i - 1) : G[i][s] = Turn(s, i)
      /\ 0 \in 0..n /\ n \in 0..n /\ 0 \in Int /\ n \in Int
  BY <1>2
<1> HIDE DEF n, start, Turn, I, G, J
<1>6. LoopKeeps(n, I, G)
  BY <1>4, <1>5 DEF LoopKeeps
<1>7. PICK g : LoopRun(g, n, I, G, start)
  <2>1. start \in I[0]
    BY <1>3, <1>5
  <2> QED
    BY <1>2, <1>6, <2>1, LoopExists
<1>8. g = Step(g)
  <2>1. g = [i \in 0..n |-> g[i]] /\ g[0] = start
    BY <1>7 DEF LoopRun
  <2>2. ASSUME NEW i \in 0..n PROVE g[i] = IF i = 0 THEN start ELSE Turn(g[i - 1], i)
    <3>1. CASE i = 0
      BY <2>1, <3>1
    <3>2. CASE i # 0
      <4>1. i \in 1..n
        BY <1>2, <3>2
      <4>2. g[i] = G[i][g[i - 1]] /\ g[i - 1] \in J(i - 1)
        BY <1>5, <1>7, <4>1 DEF LoopRun
      <4> QED
        BY <1>5, <3>2, <4>1, <4>2
    <3> QED
      BY <3>1, <3>2
  <2> QED
    BY <2>1, <2>2
<1>9. f = Step(f)
  BY <1>8
<1> HIDE DEF f
<1>10. \A i \in 0..n : f[i] \in I[i]
  <2>1. f[0] \in I[0]
    BY <1>3, <1>5, <1>9
  <2>2. ASSUME NEW i \in (0 + 1)..n, f[i - 1] \in I[i - 1] PROVE f[i] \in I[i]
    <3>1. i \in 1..n /\ i \in 0..n /\ i # 0
      BY <1>2
    <3>2. f[i] = Turn(f[i - 1], i) /\ f[i - 1] \in J(i - 1)
      BY <1>5, <1>9, <2>2, <3>1
    <3> QED
      BY <1>4, <1>5, <3>1, <3>2
  <2> QED
    BY <1>5, <2>1, <2>2, LoopInvariant
<1>11. f[n] \in J(n)
  BY <1>5, <1>10
<1> DEFINE m == f[n].nread
<1>12. /\ m \in Nat /\ m <= count /\ consumed + m <= received
       /\ m = count \/ consumed + m = received
       /\ f[n].got = Stream(consumed + 1, consumed + m)
  BY <1>2, <1>11 DEF J, PeekStates
<1> HIDE DEF m
<1>13. consumed + m = Smaller(received, consumed + count)
  BY <1>2, <1>12 DEF Smaller
<1> QED
  BY <1>1, <1>12, <1>13

PeekAtStates == [offset : Nat, nread : Nat, got : Seq(Int)]

\* Up to a position of the stream the offset is used up or something is shown.
PeekAtOK(s, offset, position) ==
    /\ s \in PeekAtStates
    /\ IF position - consumed <= offset
       THEN s.offset = offset - (position - consumed) /\ s.nread = 0
       ELSE s.offset = 0 /\ s.nread = position - consumed - offset
    /\ s.got = Stream(consumed + 1 + offset, position)

\* A turn of peek(buf, offset, count), where count is no less than what is
\* held, takes the whole of buffer i: off the offset, into the copy, or both.
LEMMA PeekAtTurnOK ==
    ASSUME StreamInv, NEW offset \in Nat, NEW count \in Nat, size_ <= count,
           NEW i \in 1..Len(buffers_), NEW s,
           PeekAtOK(s, offset, Upto(buffers_, consumed, i - 1)),
           NEW t, t = PeekAtTurn(s, buffers_[i], count)
    PROVE  PeekAtOK(t, offset, Upto(buffers_, consumed, i))
<1> DEFINE b == buffers_[i]
           u == Upto(buffers_, consumed, i - 1)
           v == Upto(buffers_, consumed, i)
           r == readableSize(b)
           m == s.nread
           x == s.offset
           k == Smaller(r, count - m)
           a == consumed + 1 + offset
<1>1. i - 1 \in 0..Len(buffers_) /\ i \in 0..Len(buffers_)
  BY WindowNow
<1>2. /\ consumed \in Nat /\ received \in Nat /\ u \in Int /\ v \in Int /\ u < v
      /\ r = v - u /\ v <= received /\ consumed <= u
  BY <1>1, WindowNow
<1>3. /\ m \in Nat /\ x \in Nat /\ s.got \in Seq(Int) /\ s.got = Stream(a, u)
      /\ s = [offset |-> x, nread |-> m, got |-> s.got]
      /\ IF u - consumed <= offset THEN x = offset - (u - consumed) /\ m = 0
                                   ELSE x = 0 /\ m = u - consumed - offset
  BY DEF PeekAtOK, PeekAtStates
<1>4. received - consumed <= count
  BY DEF StreamInv
<1>5. t = IF m >= count THEN s
          ELSE IF x > 0 /\ x >= k
               THEN [s EXCEPT !.offset = @ - k]
               ELSE [offset |-> 0, nread |-> m + (k - x),
                     got |-> s.got \o DataRead(b, x, k - x)]
  BY DEF PeekAtTurn
<1>6. x + (r - x) <= r /\ (x <= r => r - x \in Nat)
  <2>1. r \in Int /\ x \in Nat
    BY <1>2, <1>3
  <2> HIDE DEF r, x
  <2> QED
    BY <2>1
<1>7. x <= r => DataRead(b, x, r - x) = Stream(u + x + 1, u + x + (r - x))
  <2>1. consumed \in Int /\ received \in Int /\ Window(buffers_, consumed, received)
    BY DEF StreamInv
  <2> DEFINE y == r - x
  <2> HIDE DEF y, x
  <2>2. x \in Nat /\ x + y <= readableSize(buffers_[i]) /\ (x <= r => y \in Nat)
    BY <1>3, <1>6 DEF x, y
  <2>3. x <= r => DataRead(b, x, y) = Stream(u + x + 1, u + x + y)
    BY <2>1, <2>2, DataAt
  <2> QED
    BY <2>3 DEF y
<1> HIDE DEF b, u, v, r, m, x, a
<1>8. ~(m >= count) /\ k = r
  <2>1. m \in Int /\ r \in Int /\ m < count /\ r <= count - m
    <3>1. CASE u - consumed <= offset
      BY <1>2, <1>3, <1>4, <3>1, SMTT(30)
    <3>2. CASE ~(u - consumed <= offset)
      BY <1>2, <1>3, <1>4, <3>2, SMTT(30)
    <3> QED
      BY <3>1, <3>2
  <2>2. \A p, q \in Int : p <= q => Smaller(p, q) = p
    BY DEF Smaller
  <2> QED
    BY <2>1, <2>2
<1>9. consumed + 1 + offset = a /\ a \in Int
  BY <1>2 DEF a
<1> HIDE DEF k
<1>10. /\ m \in Nat /\ x \in Nat
       /\ u - consumed <= offset => (x = offset - (u - consumed) /\ m = 0)
       /\ ~(u - consumed <= offset) => (x = 0 /\ m = u - consumed - offset)
  BY <1>3
<1>11. CASE x > 0 /\ x >= r
  <2>1. t = [offset |-> x - r, nread |-> m, got |-> s.got]
    BY <1>3, <1>5, <1>8, <1>11, SMTT(30)
  <2>2. /\ x - r \in Nat /\ m = 0 /\ v - consumed <= offset
        /\ x - r = offset - (v - consumed) /\ u < a /\ v < a
    <3>1. u - consumed <= offset
      BY <1>2, <1>10, <1>11
    <3>2. x = offset - (u - consumed) /\ m = 0
      BY <1>10, <3>1
    <3> QED
      BY <1>2, <1>9, <1>10, <1>11, <3>2
  <2>3. s.got = Stream(a, v)
    BY <1>2, <1>3, <1>9, <2>2, StreamIs
  <2>4. t \in PeekAtStates
    BY <1>3, <2>1, <2>2 DEF PeekAtStates
  <2> QED
    BY <1>9, <2>1, <2>2, <2>3, <2>4 DEF PeekAtOK, v
<1>12. CASE ~(x > 0 /\ x >= r)
  <2>1. t = [offset |-> 0, nread |-> m + (r - x), got |-> s.got \o DataRead(b, x, r - x)]
    BY <1>5, <1>8, <1>12
  <2>2. /\ x < r /\ m + (r - x) \in Nat /\ ~(v - consumed <= offset)
        /\ m + (r - x) = v - consumed - offset
        /\ u + x + (r - x) = v /\ u + x + 1 \in Int /\ a <= v
    <3>1. x < r
      BY <1>2, <1>10, <1>12
    <3>2. CASE u - consumed <= offset
      <4>1. x = offset - (u - consumed) /\ m = 0
        BY <1>10, <3>2
      <4> QED
        BY <1>2, <1>9, <1>10, <3>1, <4>1
    <3>3. CASE ~(u - consumed <= offset)
      <4>1. x = 0 /\ m = u - consumed - offset
        BY <1>10, <3>3
      <4> QED
        BY <1>2, <1>9, <1>10, <3>1, <3>3, <4>1
    <3> QED
      BY <3>2, <3>3
  <2>3. DataRead(b, x, r - x) = Stream(u + x + 1, v)
    <3>1. x <= r
      BY <1>2, <1>10, <2>2
    <3> QED
      BY <1>7, <2>2, <3>1
  <2>4. s.got \o Stream(u + x + 1, v) = Stream(a, v)
    <3>1. CASE u - consumed <= offset
      <4>0. x = offset - (u - consumed)
        BY <1>10, <3>1
      <4>1. u + x + 1 = a /\ u < a
        BY <1>2, <1>9, <3>1, <4>0
      <4>2. s.got = <<>>
        BY <1>2, <1>3, <1>9, <4>1, StreamIs
      <4>3. Stream(a, v) \in Seq(Int)
        BY <1>2, <1>9, StreamIs
      <4> QED
        BY <4>1, <4>2, <4>3
    <3>2. CASE ~(u - consumed <= offset)
      <4>0. x = 0
        BY <1>10, <3>2
      <4>1. u + x + 1 = u + 1 /\ a - 1 <= u /\ u <= v
        BY <1>2, <1>9, <3>2, <4>0
      <4>2. Stream(a, u) \o Stream(u + 1, v) = Stream(a, v)
        BY <1>2, <1>9, <4>1, StreamJoin
      <4>3. s.got = Stream(a, u)
        BY <1>3
      <4> QED
        BY <4>1, <4>2, <4>3
    <3> QED
      BY <3>1, <3>2
  <2>5. Stream(a, v) \in Seq(Int)
    BY <1>2, <1>9, StreamIs
  <2>6. t = [offset |-> 0, nread |-> m + (r - x), got |-> Stream(a, v)]
    BY <2>1, <2>3, <2>4
  <2>7. t \in PeekAtStates
    BY <2>2, <2>5, <2>6 DEF PeekAtStates
  <2> QED
    BY <1>9, <2>2, <2>6, <2>7 DEF PeekAtOK, v
<1> QED
  BY <1>11, <1>12

\* peek(buf, offset, count) shows the stream from the offset on, if it is
\* asked for no less than what is held.
LEMMA PeekedAtIs ==
    ASSUME StreamInv, NEW offset \in Nat, NEW count \in Nat, size_ <= count
    PROVE  PeekedAt(offset, count) = Stream(consumed + 1 + offset, received)
<1> DEFINE n == Len(buffers_)
           start == [offset |-> offset, nread |-> 0, got |-> <<>>]
           Turn(s, i) == PeekAtTurn(s, buffers_[i], count)
           Step(f) == [i \in 0..n |-> IF i = 0 THEN start ELSE Turn(f[i - 1], i)]
           f == CHOOSE f : f = Step(f)
           U(i) == Upto(buffers_, consumed, i)
           J(i) == {s \in PeekAtStates : PeekAtOK(s, offset, U(i))}
           I == [i \in 0..n |-> J(i)]
           G == [i \in 1..n |-> [s \in J(i - 1) |-> Turn(s, i)]]
<1>1. PeekedAt(offset, count) = f[n].got
  BY DEF PeekedAt
<1>2. /\ n \in Nat /\ consumed \in Nat /\ received \in Nat
      /\ U(0) = consumed /\ U(n) = received
  BY WindowNow
<1>3. start \in J(0)
  <2>1. start \in PeekAtStates
    BY EmptySeq DEF PeekAtStates
  <2>2. consumed - consumed = 0 /\ consumed + 1 + offset \in Int
        /\ consumed < consumed + 1 + offset
        /\ consumed \in Int /\ 0 <= offset /\ offset - 0 = offset
    BY <1>2
  <2>3. Stream(consumed + 1 + offset, consumed) = <<>>
    BY <2>2, StreamIs
  <2> QED
    BY <1>2, <2>1, <2>2, <2>3 DEF PeekAtOK
<1>4. ASSUME NEW i \in 1..n, NEW s \in J(i - 1) PROVE Turn(s, i) \in J(i)
  <2>1. PeekAtOK(Turn(s, i), offset, U(i))
    BY PeekAtTurnOK
  <2> QED
    BY <2>1 DEF PeekAtOK
<1>5. /\ \A i \in 1..n : i - 1 \in 0..n /\ i \in 0..n
      /\ \A i \in 0..n : I[i] = J(i)
      /\ \A i \in 1..n : \A s \in J(i - 1) : G[i][s] = Turn(s, i)
      /\ 0 \in 0..n /\ n \in 0..n /\ 0 \in Int /\ n \in Int
  BY <1>2
<1> HIDE DEF n, start, Turn, I, G, J
<1>6. LoopKeeps(n, I, G)
  BY <1>4, <1>5 DEF LoopKeeps
<1>7. PICK g : LoopRun(g, n, I, G, start)
  <2>1. start \in I[0]
    BY <1>3, <1>5
  <2> QED
    BY <1>2, <1>6, <2>1, LoopExists
<1>8. g = Step(g)
  <2>1. g = [i \in 0..n |-> g[i]] /\ g[0] = start
    BY <1>7 DEF LoopRun
  <2>2. ASSUME NEW i \in 0..n PROVE g[i] = IF i = 0 THEN start ELSE Turn(g[i - 1], i)
    <3>1. CASE i = 0
      BY <2>1, <3>1
    <3>2. CASE i # 0
      <4>1. i \in 1..n
        BY <1>2, <3>2
      <4>2. g[i] = G[i][g[i - 1]] /\ g[i - 1] \in J(i - 1)
        BY <1>5, <1>7, <4>1 DEF LoopRun
      <4> QED
        BY <1>5, <3>2, <4>1, <4>2
    <3> QED
      BY <3>1, <3>2
  <2> QED
    BY <2>1, <2>2
<1>9. f = Step(f)
  BY <1>8
<1> HIDE DEF f
<1>10. \A i \in 0..n : f[i] \in I[i]
  <2>1. f[0] \in I[0]
    BY <1>3, <1>5, <1>9
  <2>2. ASSUME NEW i \in (0 + 1)..n, f[i - 1] \in I[i - 1] PROVE f[i] \in I[i]
    <3>1. i \in 1..n /\ i \in 0..n /\ i # 0
      BY <1>2
    <3>2. f[i] = Turn(f[i - 1], i) /\ f[i - 1] \in J(i - 1)
      BY <1>5, <1>9, <2>2, <3>1
    <3> QED
      BY <1>4, <1>5, <3>1, <3>2
  <2> QED
    BY <1>5, <2>1, <2>2, LoopInvariant
<1>11. f[n] \in J(n)
  BY <1>5, <1>10
<1> QED
  BY <1>1, <1>2, <1>11 DEF J, PeekAtOK

-----------------------------------------------------------------------------
(* handleRead(): where readv() writes.                                     *)

\* The room in the last buffer.
LEMMA RoomIs ==
    ASSUME StreamInv
    PROVE  /\ BackRoom \in Nat /\ BackRoom < Capacity
           /\ buffers_ = <<>> => BackRoom = 0
           /\ buffers_ # <<>> =>
                  /\ Len(buffers_) \in 1..Len(buffers_)
                  /\ BufferOK(buffers_[Len(buffers_)])
                  /\ BackRoom = Capacity - buffers_[Len(buffers_)].wpos
                  /\ received = Base(buffers_[Len(buffers_)])
                                + buffers_[Len(buffers_)].wpos
<1> DEFINE n == Len(buffers_)
           b == buffers_[n]
<1>1. Window(buffers_, consumed, received) /\ buffers_ \in Seq(Storage) /\ n \in Nat
  BY DEF StreamInv, Window
<1>2. CASE buffers_ = <<>>
  BY <1>2, CapacityNat DEF BackRoom
<1>3. CASE buffers_ # <<>>
  <2>1. n \in 1..n
    BY <1>1, <1>3
  <2>2. BufferOK(b) /\ received = Base(b) + b.wpos
    BY <1>1, <1>3, <2>1 DEF Window
  <2>3. b.rpos \in Nat /\ b.wpos \in Nat /\ b.wpos <= Capacity /\ b.rpos < b.wpos
    BY <2>2, BufferIs
  <2>4. BackRoom = Capacity - b.wpos
    BY <1>3 DEF BackRoom, writableSize, Last
  <2> HIDE DEF b
  <2>5. Capacity - b.wpos \in Nat /\ Capacity - b.wpos < Capacity
    BY <2>3, CapacityNat
  <2> QED
    BY <1>3, <2>1, <2>2, <2>4, <2>5 DEF b
<1> QED
  BY <1>2, <1>3

\* What prepareReceive() leaves: one spare buffer more if it is needed and
\* there is none.
LEMMA PreparedIs ==
    ASSUME StreamInv
    PROVE  /\ Spares(Prepared)
           /\ UsesExtend => Prepared # <<>>
           /\ \/ Len(Prepared) = Len(extendBuffers_)
              \/ /\ UsesExtend /\ Len(extendBuffers_) = 0
                 /\ Len(Prepared) = 1
<1>1. Spares(extendBuffers_) /\ extendBuffers_ \in Seq(Storage)
  BY DEF StreamInv, Spares
<1>2. CASE UsesExtend /\ extendBuffers_ = <<>>
  <2>1. NewBuffer \in Storage /\ SpareOK(NewBuffer)
    BY CapacityNat DEF NewBuffer, Storage, SpareOK
  <2>2. Prepared = <<NewBuffer>>
    BY <1>2 DEF Prepared
  <2> HIDE DEF Storage
  <2>3. <<NewBuffer>> \in Seq(Storage) /\ Len(<<NewBuffer>>) = 1
        /\ <<NewBuffer>>[1] = NewBuffer
    BY <2>1
  <2>4. \A i \in 1..1 : i = 1
    OBVIOUS
  <2>5. Spares(Prepared)
    BY <2>1, <2>2, <2>3, <2>4 DEF Spares
  <2> QED
    BY <1>2, <2>2, <2>3, <2>5
<1>3. CASE ~(UsesExtend /\ extendBuffers_ = <<>>)
  BY <1>1, <1>3 DEF Prepared
<1> QED
  BY <1>2, <1>3

\* hasReceived() up to the last buffer's share of n bytes.
Credited(n) ==
    IF Smaller(n, BackRoom) = 0
    THEN BackFilled(n)
    ELSE [BackFilled(n) EXCEPT ![Len(BackFilled(n))] =
             hasWritten(@, Smaller(n, BackRoom))]

\* The last buffer's share goes on with the stream, and if there is more the
\* buffer is full.
LEMMA CreditedIs ==
    ASSUME StreamInv, NEW n \in Nat \ {0}
    PROVE  /\ Window(Credited(n), consumed, received + Smaller(n, BackRoom))
           /\ Len(Credited(n)) = Len(buffers_)
           /\ BackRoom <= n => \/ Credited(n) = <<>>
                               \/ Credited(n)[Len(Credited(n))].wpos = Capacity
<1> DEFINE k == Smaller(n, BackRoom)
           N == Len(buffers_)
           b == buffers_[N]
<1>1. /\ Window(buffers_, consumed, received) /\ buffers_ \in Seq(Storage) /\ N \in Nat
      /\ consumed \in Nat /\ received \in Nat
      /\ consumed \in Int /\ received \in Int /\ BackRoom \in Nat
  BY RoomIs DEF StreamInv, Window
<1>2. k \in Nat /\ k <= BackRoom /\ (k = 0 <=> BackRoom = 0)
      /\ (BackRoom <= n => k = BackRoom)
  BY <1>1 DEF Smaller
<1> HIDE DEF k
<1>3. CASE BackRoom = 0
  <2>1. Credited(n) = buffers_ /\ k = 0 /\ received + 0 = received
    BY <1>1, <1>2, <1>3 DEF Credited, BackFilled, k
  <2>2. buffers_ = <<>> \/ buffers_[N].wpos = Capacity
    <3>1. CASE buffers_ # <<>>
      <4>1. BufferOK(b) /\ BackRoom = Capacity - b.wpos
        BY <3>1, RoomIs
      <4>2. b.wpos \in Nat
        BY <4>1, BufferIs
      <4> QED
        BY <1>3, <4>1, <4>2, CapacityNat
    <3> QED
      BY <3>1
  <2> QED
    BY <1>1, <2>1, <2>2 DEF k
<1>4. CASE BackRoom # 0
  <2>1. buffers_ # <<>>
    BY <1>4, RoomIs
  <2>2. /\ N \in 1..N /\ BufferOK(b) /\ BackRoom = Capacity - b.wpos
        /\ received = Base(b) + b.wpos
    BY <2>1, RoomIs
  <2>3. b \in Storage /\ b.wpos \in Nat /\ b.rpos \in Nat /\ Base(b) \in Int
    BY <2>2, BufferIs DEF BufferOK
  <2> DEFINE d == Filled(b, b.wpos, received + 1, k)
             c == hasWritten(d, k)
             ds == [buffers_ EXCEPT ![N] = d]
             cs == [buffers_ EXCEPT ![N] = c]
  <2>4. k \in 1..(Capacity - b.wpos) /\ (k = BackRoom => b.wpos + k = Capacity)
    BY <1>1, <1>2, <1>4, <2>2, <2>3, CapacityNat
  <2>5. /\ BufferOK(c) /\ Base(c) = received - b.wpos
        /\ c.rpos = b.rpos /\ c.wpos = b.wpos + k
    BY <1>1, <2>2, <2>3, <2>4, BufferFilled
  <2>6. BackFilled(n) = ds
    BY <1>4 DEF BackFilled, k
  <2>7. Len(ds) = N /\ ds[N] = d /\ [ds EXCEPT ![N] = c] = cs
    <3>1. DOMAIN buffers_ = 1..N /\ DOMAIN ds = 1..N
      BY <1>1
    <3> HIDE DEF c, d
    <3>2. Len(ds) = N /\ ds[N] = d
      BY <1>1, <2>2, <3>1
    <3>3. [ds EXCEPT ![N] = c] = cs
      BY <3>1
    <3> QED
      BY <3>2, <3>3
  <2>8. Credited(n) = cs
    <3>1. Credited(n) = [ds EXCEPT ![N] = hasWritten(ds[N], k)]
      BY <1>2, <1>4, <2>6, <2>7 DEF Credited, k
    <3> QED
      BY <2>7, <3>1
  <2>9. Base(c) = Base(b) /\ Base(c) + c.wpos = received + k
    BY <1>1, <1>2, <2>2, <2>3, <2>5
  <2> HIDE DEF c, d, ds
  <2>10. Window(cs, IF N = 1 THEN Base(c) + c.rpos ELSE consumed, Base(c) + c.wpos)
    BY <1>1, <2>2, <2>5, <2>9, WindowReplace
  <2>11. N = 1 => Base(c) + c.rpos = consumed
    BY <1>1, <2>1, <2>5, <2>9 DEF Window
  <2>12. Window(cs, consumed, received + k)
    BY <2>9, <2>10, <2>11
  <2>13. Len(cs) = N /\ cs[N] = c
    <3>1. c \in Storage
      BY <2>5 DEF BufferOK
    <3> QED
      BY <1>1, <2>2, <3>1, ExceptSeq
  <2>14. BackRoom <= n => cs[N].wpos = Capacity
    BY <1>2, <2>4, <2>5, <2>13
  <2> QED
    BY <2>8, <2>12, <2>13, <2>14 DEF k
<1> QED
  BY <1>3, <1>4

\* n bytes from readv() go on with the stream, in the last buffer and then in
\* the spare one.
LEMMA ReceivedIs ==
    ASSUME StreamInv, NEW n \in 1..Offered,
           NEW after, after = HasReceived(BackFilled(n), ExtendFilled(n), n)
    PROVE  /\ Window(after.buffers, consumed, received + n)
           /\ Spares(after.extend) /\ after.nwrote = n
           /\ Len(after.buffers) + Len(after.extend) = Len(buffers_) + Len(Prepared)
<1> DEFINE back == Smaller(n, BackRoom)
           cs == Credited(n)
           es == ExtendFilled(n)
           ps == Prepared
           share == SpareShare(Head(es), n, back)
<1>1. after = IF back < n /\ es # <<>>
              THEN [buffers |-> Append(cs, hasWritten(Head(es), share)),
                    extend |-> Tail(es), nwrote |-> back + share]
              ELSE [buffers |-> cs, extend |-> es, nwrote |-> back]
  BY DEF HasReceived, Credited
<1>2. BackRoom \in Nat /\ consumed \in Nat /\ received \in Nat /\ Len(buffers_) \in Nat
      /\ consumed \in Int /\ received \in Int
  BY RoomIs DEF StreamInv, Window
<1>3. n \in Nat \ {0} /\ n <= Offered
  <2>1. Offered \in Nat
    BY <1>2, CapacityNat DEF Offered
  <2> QED
    BY <2>1
<1>4. Window(cs, consumed, received + back) /\ Len(cs) = Len(buffers_)
  BY <1>3, CreditedIs
<1>5. CASE n <= BackRoom
  <2>1. back = n /\ es = ps
    BY <1>2, <1>3, <1>5 DEF Smaller, ExtendFilled
  <2>2. after = [buffers |-> cs, extend |-> ps, nwrote |-> n]
    BY <1>1, <1>3, <2>1
  <2> QED
    BY <1>4, <2>1, <2>2, PreparedIs
<1>6. CASE ~(n <= BackRoom)
  <2>1. back = BackRoom /\ back < n /\ BackRoom <= n
    BY <1>2, <1>3, <1>6 DEF Smaller
  <2>2. UsesExtend /\ n - BackRoom \in 1..Capacity
    BY <1>2, <1>3, <1>6, CapacityNat DEF Offered
  <2> DEFINE b == ps[1]
             m == n - BackRoom
             d == Filled(b, 0, received + BackRoom + 1, m)
  <2>3. ps \in Seq(Storage) /\ ps # <<>> /\ SpareOK(b) /\ Len(ps) \in Nat \ {0}
        /\ 1 \in 1..Len(ps) /\ \A i \in 1..Len(ps) : SpareOK(ps[i])
    <3>1. Spares(ps) /\ ps # <<>>
      BY <2>2, PreparedIs
    <3>2. ps \in Seq(Storage) /\ \A i \in 1..Len(ps) : SpareOK(ps[i])
      BY <3>1 DEF Spares
    <3>3. Len(ps) \in Nat \ {0} /\ 1 \in 1..Len(ps)
      BY <3>1, <3>2
    <3> QED
      BY <3>1, <3>2, <3>3
  <2>4. es = [ps EXCEPT ![1] = d]
    BY <1>6 DEF ExtendFilled
  <2>5. b \in Storage /\ b.wpos = 0 /\ b.rpos = 0 /\ m \in Nat /\ m \in 1..(Capacity - b.wpos)
        /\ b = [mem |-> b.mem, rpos |-> 0, wpos |-> 0]
    BY <2>2, <2>3, CapacityNat DEF SpareOK, Storage
  <2>6. d.wpos = 0
    BY <2>5 DEF Filled
  <2> DEFINE p == received + BackRoom
             c == hasWritten(d, m)
  <2>7. p \in Nat /\ p - 0 = p /\ 0 + m = m /\ p + m = received + n
    BY <1>2, <1>3
  <2>8. BufferOK(c) /\ Base(c) = p /\ c.rpos = 0 /\ c.wpos = m
    <3>1. c = hasWritten(Filled(b, b.wpos, p + 1, m), m)
      BY <2>5
    <3> HIDE DEF c, b, p, m
    <3>2. /\ BufferOK(c) /\ Base(c) = p - b.wpos
          /\ c.rpos = b.rpos /\ c.wpos = b.wpos + m
      BY <2>3, <2>5, <2>7, <3>1, BufferFilled
    <3> QED
      BY <2>5, <2>7, <3>2
  <2>9. /\ es # <<>> /\ Head(es) = d /\ Tail(es) \in Seq(Storage)
        /\ Len(Tail(es)) = Len(ps) - 1
        /\ \A i \in 1..(Len(ps) - 1) : Tail(es)[i] = ps[i + 1]
    <3>1. d \in Storage
      <4>1. d = [mem |-> c.mem, rpos |-> 0, wpos |-> 0]
        <5>1. d = [b EXCEPT !.mem = d.mem]
          BY <2>5 DEF Filled
        <5> HIDE DEF d
        <5>2. d = [mem |-> d.mem, rpos |-> 0, wpos |-> 0]
          BY <2>5, <5>1
        <5>3. c.mem = d.mem
          BY <5>2 DEF hasWritten
        <5> QED
          BY <5>2, <5>3
      <4>2. c.mem \in [1..Capacity -> Nat]
        BY <2>8 DEF BufferOK, Storage
      <4> HIDE DEF d, c
      <4> QED
        BY <4>1, <4>2 DEF Storage
    <3> HIDE DEF d, es, ps
    <3>2. /\ es \in Seq(Storage) /\ Len(es) = Len(ps)
          /\ \A j \in 1..Len(ps) : es[j] = IF j = 1 THEN d ELSE ps[j]
      BY <2>3, <2>4, <3>1, ExceptSeq
    <3>3. es # <<>> /\ Head(es) = d
      BY <2>3, <3>2
    <3>4. /\ Tail(es) \in Seq(Storage) /\ Len(Tail(es)) = Len(ps) - 1
          /\ \A i \in 1..(Len(ps) - 1) : Tail(es)[i] = es[i + 1]
      BY <3>2, <3>3, HeadTailProperties
    <3>5. \A i \in 1..(Len(ps) - 1) : i + 1 \in 1..Len(ps) /\ i + 1 # 1
      BY <2>3
    <3> QED
      BY <3>2, <3>3, <3>4, <3>5
  <2>10. share = m
    <3>1. share = Smaller(Capacity - 0, m)
      BY <2>1, <2>6, <2>9 DEF SpareShare, writableSize
    <3> QED
      BY <2>2, <3>1, CapacityNat DEF Smaller
  <2>11. after = [buffers |-> Append(cs, c), extend |-> Tail(es), nwrote |-> n]
    <3>1. back + m = n
      BY <1>2, <1>3, <2>1
    <3> QED
      BY <1>1, <2>1, <2>9, <2>10, <3>1
  <2>12. Window(Append(cs, c), consumed, received + n)
    <3>1. cs = <<>> \/ cs[Len(cs)].wpos = Capacity
      BY <1>3, <2>1, CreditedIs
    <3>2. Window(cs, consumed, p) /\ p \in Int
      BY <1>4, <2>1, <2>7
    <3> HIDE DEF c, cs, p, m
    <3>3. Window(Append(cs, c), consumed, p + c.wpos)
      BY <1>2, <2>8, <3>1, <3>2, WindowAppend
    <3> QED
      BY <2>7, <2>8, <3>3
  <2>13. Spares(Tail(es))
    <3>1. \A i \in 1..(Len(ps) - 1) : i + 1 \in 1..Len(ps)
      BY <2>3
    <3> QED
      BY <2>3, <2>9, <3>1 DEF Spares
  <2>14. Len(Append(cs, c)) + Len(Tail(es)) = Len(buffers_) + Len(ps)
    <3>1. cs \in Seq(Storage) /\ c \in Storage
      BY <1>4, <2>8 DEF Window, BufferOK
    <3>2. Len(Append(cs, c)) = Len(cs) + 1
      BY <3>1, AppendProperties
    <3> HIDE DEF cs, c, es, ps
    <3> QED
      BY <1>2, <1>4, <2>3, <2>9, <3>2, SMTT(30)
  <2> HIDE DEF c, cs, es, ps
  <2>15. after.buffers = Append(cs, c) /\ after.extend = Tail(es) /\ after.nwrote = n
    BY <2>11
  <2> QED
    BY <2>12, <2>13, <2>14, <2>15 DEF ps
<1> QED
  BY <1>5, <1>6

-----------------------------------------------------------------------------
(* The theorems about ReceiveBuffer.                                       *)

\* A window with little room at its end holds nearly all that its buffers but
\* one could hold.
LEMMA WindowFull ==
    ASSUME StreamInv, UsesExtend
    PROVE  (Len(buffers_) - 1) * Capacity <= size_ + kReceiveSize - 2
<1> DEFINE n == Len(buffers_)
           x == (n - 1) * Capacity
<1>1. /\ Window(buffers_, consumed, received) /\ buffers_ \in Seq(Storage) /\ n \in Nat
      /\ consumed \in Nat /\ received \in Nat /\ size_ = received - consumed
      /\ BackRoom < kReceiveSize
  BY DEF StreamInv, Window, UsesExtend
<1>2. CASE buffers_ = <<>>
  <2>1. n = 0 /\ consumed = received
    BY <1>1, <1>2 DEF Window
  <2>2. x = 0 - Capacity
    BY <2>1, CapacityNat
  <2> HIDE DEF x
  <2>3. x <= size_ + kReceiveSize - 2
    BY <1>1, <2>1, <2>2, CapacityNat
  <2> QED
    BY <2>3 DEF x
<1>3. CASE buffers_ # <<>>
  <2> DEFINE b == buffers_[1]
             c == buffers_[n]
  <2>1. /\ n \in 1..n /\ BufferOK(c) /\ BackRoom = Capacity - c.wpos
        /\ received = Base(c) + c.wpos
    BY <1>3, RoomIs
  <2>2. 1 \in 1..n /\ BufferOK(b) /\ consumed = Base(b) + b.rpos
    BY <1>1, <1>3, <2>1 DEF Window
  <2>3. Base(c) = Base(b) + x
    BY <1>1, <2>1, Bases
  <2>4. /\ b.rpos \in Nat /\ b.rpos < Capacity /\ Base(b) \in Int
        /\ c.wpos \in Nat /\ c.wpos <= Capacity
    <3>1. /\ b.rpos \in Nat /\ b.wpos \in Nat /\ b.rpos < b.wpos /\ b.wpos <= Capacity
          /\ Base(b) \in Int
      BY <2>2, BufferIs
    <3>2. c.wpos \in Nat /\ c.wpos <= Capacity
      BY <2>1, BufferIs
    <3> QED
      BY <3>1, <3>2, CapacityNat
  <2>5. x \in Int
    BY <1>1, CapacityNat, Products
  <2> HIDE DEF b, c, x
  <2>6. size_ = x + c.wpos - b.rpos
    BY <1>1, <2>1, <2>2, <2>3, <2>4, <2>5, SMTT(30)
  <2>7. c.wpos >= Capacity - kReceiveSize + 1 /\ b.rpos <= Capacity - 1
    BY <1>1, <2>1, <2>4, CapacityNat
  <2>8. x <= size_ + kReceiveSize - 2
    BY <2>4, <2>5, <2>6, <2>7, CapacityNat
  <2> QED
    BY <2>8 DEF x
<1> QED
  BY <1>2, <1>3

\* One buffer more where the window is nearly full keeps the bound.
LEMMA BoundKept ==
    ASSUME StreamInv, MemoryBounded, NEW total \in Nat, NEW most \in Nat,
           peak <= most,
           \/ total = Len(buffers_) + Len(extendBuffers_)
           \/ UsesExtend /\ total = Len(buffers_) + 1
    PROVE  (total - 2) * Capacity <= most + kReceiveSize - 2
<1>1. /\ Len(buffers_) \in Nat /\ Len(extendBuffers_) \in Nat /\ peak \in Nat
      /\ size_ <= peak /\ size_ \in Int
  BY DEF StreamInv, Window, Spares
<1>2. CASE total = Len(buffers_) + Len(extendBuffers_)
  <2> DEFINE x == (total - 2) * Capacity
  <2>1. x <= peak + kReceiveSize - 2
    BY <1>2 DEF MemoryBounded
  <2>2. x \in Int
    BY CapacityNat, Products
  <2> HIDE DEF x
  <2>3. x <= most + kReceiveSize - 2
    BY <1>1, <2>1, <2>2, CapacityNat
  <2> QED
    BY <2>3 DEF x
<1>3. CASE UsesExtend /\ total = Len(buffers_) + 1
  <2> DEFINE x == (Len(buffers_) - 1) * Capacity
  <2>1. x <= size_ + kReceiveSize - 2
    BY <1>3, WindowFull
  <2>2. x \in Int
    BY <1>1, CapacityNat, Products
  <2>3. total - 2 = Len(buffers_) - 1
    BY <1>1, <1>3
  <2> HIDE DEF x
  <2>4. x <= most + kReceiveSize - 2
    BY <1>1, <2>1, <2>2, CapacityNat
  <2> QED
    BY <2>3, <2>4 DEF x
<1> QED
  BY <1>2, <1>3

\* Both hold at the start.
LEMMA StreamInit == Init => StreamInv /\ MemoryBounded
<1> SUFFICES ASSUME Init PROVE StreamInv /\ MemoryBounded
  OBVIOUS
<1>1. buffers_ = <<>> /\ extendBuffers_ = <<>> /\ size_ = 0 /\ received = 0
      /\ consumed = 0 /\ peak = 0
  BY DEF Init
<1>2. Len(<<>>) = 0 /\ <<>> \in Seq(Storage) /\ 1..0 = {} /\ 1..(0 - 1) = {}
  BY EmptySeq
<1>3. Window(<<>>, 0, 0) /\ Spares(<<>>)
  BY <1>2 DEF Window, Spares
<1>4. StreamInv
  BY <1>1, <1>3 DEF StreamInv
<1>5. MemoryBounded
  <2>1. (Len(buffers_) + Len(extendBuffers_) - 2) = 0 - 2
    BY <1>1, <1>2
  <2>2. (0 - 2) * Capacity <= 0 + kReceiveSize - 2
    BY CapacityNat
  <2> QED
    BY <1>1, <2>1, <2>2 DEF MemoryBounded
<1> QED
  BY <1>4, <1>5

\* Each step of the receive buffer keeps both.
LEMMA StreamStep == StreamInv /\ MemoryBounded /\ [Next]_vars
                    => (StreamInv /\ MemoryBounded)'
<1> SUFFICES ASSUME StreamInv, MemoryBounded, [Next]_vars
             PROVE  StreamInv' /\ MemoryBounded'
  OBVIOUS
<1>1. /\ received \in Nat /\ consumed \in Nat /\ peak \in Nat
      /\ Window(buffers_, consumed, received) /\ Spares(extendBuffers_)
      /\ size_ = received - consumed /\ size_ <= peak
      /\ Len(buffers_) \in Nat /\ Len(extendBuffers_) \in Nat
      /\ buffers_ \in Seq(Storage) /\ extendBuffers_ \in Seq(Storage)
  BY DEF StreamInv, Window, Spares
<1>2. ASSUME NEW n \in 1..MaxReceived, Receive(n) PROVE StreamInv' /\ MemoryBounded'
  <2> DEFINE after == HasReceived(BackFilled(n), ExtendFilled(n), n)
  <2>1. /\ n \in 1..Offered /\ buffers_' = after.buffers
        /\ extendBuffers_' = after.extend /\ size_' = size_ + after.nwrote
        /\ received' = received + n /\ consumed' = consumed
        /\ peak' = IF size_' > peak THEN size_' ELSE peak
    BY <1>2 DEF Receive
  <2> HIDE DEF after
  <2>2. /\ Window(after.buffers, consumed, received + n)
        /\ Spares(after.extend) /\ after.nwrote = n
        /\ Len(after.buffers) + Len(after.extend) = Len(buffers_) + Len(Prepared)
    BY <2>1, ReceivedIs DEF after
  <2>3. n \in Nat
    BY SizeAssumption
  <2>4. /\ received' \in Nat /\ consumed' \in Nat /\ peak' \in Nat
        /\ size_' = received' - consumed' /\ size_' <= peak' /\ peak <= peak'
    BY <1>1, <2>1, <2>2, <2>3
  <2>5. Window(buffers_', consumed', received') /\ Spares(extendBuffers_')
    BY <2>1, <2>2
  <2>6. StreamInv'
    BY <2>4, <2>5 DEF StreamInv, Window, Spares, BufferOK, SpareOK, Base, Storage, Capacity
  <2>7. MemoryBounded'
    <3> DEFINE total == Len(buffers_') + Len(extendBuffers_')
    <3>1. /\ total = Len(buffers_) + Len(Prepared)
          /\ \/ Len(Prepared) = Len(extendBuffers_)
             \/ UsesExtend /\ Len(Prepared) = 1
      BY <2>1, <2>2, PreparedIs
    <3> HIDE DEF total
    <3>2. total \in Nat
      BY <1>1, <3>1
    <3>3. (total - 2) * Capacity <= peak' + kReceiveSize - 2
      BY <2>4, <3>1, <3>2, BoundKept
    <3> QED
      BY <3>3 DEF total, MemoryBounded, Capacity
  <2> QED
    BY <2>6, <2>7
<1>3. CASE ReceiveNothing
  <2>1. /\ extendBuffers_' = Prepared /\ buffers_' = buffers_ /\ size_' = size_
        /\ received' = received /\ consumed' = consumed /\ peak' = peak
    BY <1>3 DEF ReceiveNothing
  <2>2. Spares(extendBuffers_') /\ Window(buffers_', consumed', received')
    BY <1>1, <2>1, PreparedIs
  <2>3. StreamInv'
    BY <1>1, <2>1, <2>2 DEF StreamInv, Window, Spares, BufferOK, SpareOK, Base, Storage, Capacity
  <2>4. MemoryBounded'
    <3> DEFINE total == Len(buffers_') + Len(extendBuffers_')
    <3>1. /\ total = Len(buffers_) + Len(Prepared)
          /\ \/ Len(Prepared) = Len(extendBuffers_)
             \/ UsesExtend /\ Len(Prepared) = 1
      BY <2>1, PreparedIs
    <3> HIDE DEF total
    <3>2. total \in Nat /\ peak \in Nat /\ peak <= peak
      BY <1>1, <3>1
    <3>3. (total - 2) * Capacity <= peak + kReceiveSize - 2
      BY <3>1, <3>2, BoundKept
    <3> QED
      BY <2>1, <3>3 DEF total, MemoryBounded, Capacity
  <2> QED
    BY <2>3, <2>4
<1>4. ASSUME NEW count \in 0..MaxReceived, Take(count) PROVE StreamInv' /\ MemoryBounded'
  <2> DEFINE after == Taken(count)
  <2>1. /\ buffers_' = after.buffers /\ extendBuffers_' = after.extend
        /\ size_' = size_ - after.nread /\ consumed' = consumed + after.nread
        /\ received' = received /\ peak' = peak
    BY <1>4 DEF Take
  <2>2. count \in Nat
    BY SizeAssumption
  <2> HIDE DEF after
  <2>3. TakeOK(after, count)
    BY <2>2, TakenOK DEF after
  <2>4. /\ after.nread \in Nat /\ Window(after.buffers, consumed + after.nread, received)
        /\ Spares(after.extend)
        /\ Len(after.buffers) + Len(after.extend) = Len(buffers_) + Len(extendBuffers_)
    BY <2>3 DEF TakeOK, TakeStates
  <2>5. /\ received' \in Nat /\ consumed' \in Nat /\ peak' \in Nat
        /\ size_' = received' - consumed' /\ size_' <= peak'
    BY <1>1, <2>1, <2>4, SMTT(30)
  <2>6. Window(buffers_', consumed', received') /\ Spares(extendBuffers_')
    BY <2>1, <2>4
  <2>7. StreamInv'
    BY <2>5, <2>6 DEF StreamInv, Window, Spares, BufferOK, SpareOK, Base, Storage, Capacity
  <2>8. MemoryBounded'
    <3>1. Len(buffers_') + Len(extendBuffers_') = Len(buffers_) + Len(extendBuffers_)
      BY <2>1, <2>4
    <3> DEFINE total == Len(buffers_') + Len(extendBuffers_')
    <3>2. total \in Nat /\ total = Len(buffers_) + Len(extendBuffers_)
          /\ peak' \in Nat /\ peak <= peak'
      <4>1. total \in Nat /\ total = Len(buffers_) + Len(extendBuffers_)
        BY <1>1, <3>1
      <4>2. peak' = peak
        BY <2>1
      <4> QED
        BY <1>1, <4>1, <4>2
    <3> HIDE DEF total
    <3>3. (total - 2) * Capacity <= peak' + kReceiveSize - 2
      BY <3>2, BoundKept
    <3> QED
      BY <3>3 DEF total, MemoryBounded, Capacity
  <2> QED
    BY <2>7, <2>8
<1>5. CASE RetrieveAll
  <2> DEFINE rs == [i \in DOMAIN buffers_ |-> reset(buffers_[i])]
             n == Len(buffers_)
  <2>1. /\ buffers_' = <<>> /\ extendBuffers_' = extendBuffers_ \o rs /\ size_' = 0
        /\ consumed' = consumed + size_ /\ received' = received /\ peak' = peak
    BY <1>5 DEF RetrieveAll
  <2>2. consumed + size_ = received
    BY <1>1
  <2>3. \A i \in 1..n : SpareOK(rs[i]) /\ rs[i] \in Storage
    <3>1. ASSUME NEW i \in 1..n PROVE SpareOK(rs[i])
      <4>1. buffers_[i] \in Storage
        BY <1>1, ElementOfSeq
      <4>2. rs[i] = reset(buffers_[i])
        BY <1>1
      <4> QED
        BY <4>1, <4>2, ResetSpare
    <3> QED
      BY <3>1 DEF SpareOK
  <2>4. rs = [i \in 1..n |-> rs[i]]
    BY <1>1
  <2> HIDE DEF rs
  <2>5. rs \in Seq(Storage) /\ Len(rs) = n
    BY <1>1, <2>3, <2>4
  <2>6. /\ extendBuffers_' \in Seq(Storage)
        /\ Len(extendBuffers_') = Len(extendBuffers_) + n
        /\ \A i \in 1..(Len(extendBuffers_) + n) :
               extendBuffers_'[i] = IF i <= Len(extendBuffers_) THEN extendBuffers_[i]
                                    ELSE rs[i - Len(extendBuffers_)]
    <3> DEFINE es == extendBuffers_ \o rs
    <3>1. /\ es \in Seq(Storage)
          /\ Len(es) = Len(extendBuffers_) + Len(rs)
          /\ \A i \in 1..(Len(extendBuffers_) + Len(rs)) :
                 es[i] = IF i <= Len(extendBuffers_) THEN extendBuffers_[i]
                         ELSE rs[i - Len(extendBuffers_)]
      BY <1>1, <2>5, ConcatProperties
    <3> HIDE DEF es
    <3> QED
      BY <2>1, <2>5, <3>1 DEF es
  <2>7. Spares(extendBuffers_')
    <3>1. ASSUME NEW i \in 1..(Len(extendBuffers_) + n) PROVE SpareOK(extendBuffers_'[i])
      <4>1. CASE i <= Len(extendBuffers_)
        <5>1. i \in 1..Len(extendBuffers_)
          BY <1>1, <4>1
        <5> QED
          BY <1>1, <2>6, <4>1, <5>1 DEF Spares
      <4>2. CASE ~(i <= Len(extendBuffers_))
        <5>1. i - Len(extendBuffers_) \in 1..n
          BY <1>1, <4>2
        <5> QED
          BY <2>3, <2>6, <4>2, <5>1
      <4> QED
        BY <4>1, <4>2
    <3> QED
      BY <2>6, <3>1 DEF Spares
  <2>8. Window(buffers_', consumed', received')
    <3>1. Len(<<>>) = 0 /\ <<>> \in Seq(Storage) /\ 1..0 = {} /\ 1..(0 - 1) = {}
      BY EmptySeq
    <3> QED
      BY <2>1, <2>2, <3>1 DEF Window
  <2>9. /\ received' \in Nat /\ consumed' \in Nat /\ peak' \in Nat
        /\ size_' = received' - consumed' /\ size_' <= peak'
    BY <1>1, <2>1, <2>2
  <2>10. StreamInv'
    BY <2>7, <2>8, <2>9 DEF StreamInv, Window, Spares, BufferOK, SpareOK, Base, Storage, Capacity
  <2>11. MemoryBounded'
    <3>1. Len(buffers_') + Len(extendBuffers_') = Len(buffers_) + Len(extendBuffers_)
      BY <1>1, <2>1, <2>6, EmptySeq
    <3> QED
      BY <2>1, <3>1 DEF MemoryBounded, Capacity
  <2> QED
    BY <2>10, <2>11
<1>6. CASE UNCHANGED vars
  BY <1>6 DEF vars, StreamInv, MemoryBounded, Window, Spares, BufferOK, SpareOK, Base,
              Storage, Capacity
<1> QED
  BY <1>2, <1>3, <1>4, <1>5, <1>6 DEF Next

\* For any size of a read and any length of the stream: the buffers hold the
\* stream from where the user stopped to where the kernel stopped, and size()
\* counts it.
THEOREM HoldsTheStream == Spec => []HoldsStream
<1>1. StreamInv => HoldsStream
  <2> SUFFICES ASSUME StreamInv PROVE HoldsStream
    OBVIOUS
  <2>1. consumed \in Int /\ received \in Int /\ Window(buffers_, consumed, received)
        /\ size_ = received - consumed
    BY DEF StreamInv
  <2> QED
    BY <2>1, SendIs DEF HoldsStream
<1> QED
  BY StreamInit, StreamStep, <1>1, PTL DEF Spec

\* For any size of a read and any length of the stream: read() and peek() give
\* the next bytes of the stream, and as many as are asked for or there are.
THEOREM ReadsTheStreamInOrder == Spec => []ReadsInOrder
<1>1. StreamInv => ReadsInOrder
  <2> SUFFICES ASSUME StreamInv PROVE ReadsInOrder
    OBVIOUS
  <2>1. ASSUME NEW count \in 0..(MaxReceived + 1)
        PROVE  /\ Taken(count).got
                      = Stream(consumed + 1, Smaller(received, consumed + count))
               /\ Peeked(count)
                      = Stream(consumed + 1, Smaller(received, consumed + count))
    <3>1. count \in Nat
      BY SizeAssumption
    <3>2. TakeOK(Taken(count), count)
      BY <3>1, TakenOK
    <3>3. consumed + Taken(count).nread = Smaller(received, consumed + count)
      BY <3>1, TakenMany
    <3>4. Taken(count).got = Stream(consumed + 1, consumed + Taken(count).nread)
      BY <3>2 DEF TakeOK
    <3> QED
      BY <3>1, <3>3, <3>4, PeekedIs
  <2>2. ASSUME NEW offset \in 0..(MaxReceived + 1), NEW count \in size_..(MaxReceived + 1)
        PROVE  PeekedAt(offset, count) = Stream(consumed + 1 + offset, received)
    <3>1. size_ \in Nat
      <4>1. consumed \in Nat /\ received \in Nat /\ size_ = received - consumed
            /\ Window(buffers_, consumed, received)
        BY DEF StreamInv
      <4>2. consumed \in Int /\ received \in Int
        BY <4>1
      <4>3. consumed <= received
        BY <4>1, <4>2, FirstLeast
      <4> QED
        BY <4>1, <4>3
    <3>2. offset \in Nat /\ count \in Nat /\ size_ <= count
      BY <3>1, SizeAssumption
    <3> QED
      BY <3>2, PeekedAtIs
  <2> QED
    BY <2>1, <2>2 DEF ReadsInOrder
<1> QED
  BY StreamInit, StreamStep, <1>1, PTL DEF Spec

\* For any size of a read and any length of the stream: memory follows the
\* most that was ever held at once.
THEOREM MemoryIsBounded == Spec => []MemoryBounded
BY StreamInit, StreamStep, PTL DEF Spec
=============================================================================
