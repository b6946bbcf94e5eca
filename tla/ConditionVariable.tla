------------------------- MODULE ConditionVariable -------------------------
(***************************************************************************)
(* std::condition_variable as the monitors of nutty/util and nutty/log use *)
(* it: a set of waiting threads.  A wait may also return without a         *)
(* notification, which the modules have an action for.                     *)
(***************************************************************************)

\* notify_one(): some waiting thread, if there is one, stops waiting.
NotifyOne(waiting) ==
    IF waiting = {} THEN {{}} ELSE {waiting \ {t} : t \in waiting}
=============================================================================
