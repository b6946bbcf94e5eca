--------------------------- MODULE SerialExecutor ---------------------------
(***************************************************************************)
(* What an EventLoop promises to the code that queues work on it: functors *)
(* are taken in the order they were handed over and each is run once, by   *)
(* one thread, one at a time.                                              *)
(***************************************************************************)
EXTENDS Sequences, Functions

CONSTANT Functors

VARIABLES
    queue,   \* handed over, not yet run
    done     \* run, in order

execVars == <<queue, done>>

Init == queue = <<>> /\ done = <<>>

Submit(f) ==
    /\ f \notin Range(queue) \cup Range(done)
    /\ queue' = Append(queue, f)
    /\ UNCHANGED done

Execute ==
    /\ queue # <<>>
    /\ done' = Append(done, Head(queue))
    /\ queue' = Tail(queue)

Next == Execute \/ \E f \in Functors : Submit(f)

Spec == Init /\ [][Next]_execVars
=============================================================================
