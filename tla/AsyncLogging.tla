---------------------------- MODULE AsyncLogging ----------------------------
(***************************************************************************)
(* nutty::AsyncLogging and nutty::AsyncLogger (nutty/log/AsyncLogging.h,   *)
(* AsyncLogging.cpp, AsyncLogger.h, AsyncLogger.cpp) with the              *)
(* nutty::CountDownLatch (nutty/util/CountDownLatch.h, CountDownLatch.cpp) *)
(* they use: threads append lines to loggers, one thread writes them to    *)
(* files.                                                                  *)
(*                                                                         *)
(* A critical section of mutex_ is one step, and so is writing one buffer, *)
(* which is the logging thread's own by then.  running_ is volatile and    *)
(* read as it is stored.                                                   *)
(* A null pointer to a buffer is <<>>, another one <<buffer>>; a buffer is *)
(* the sequence of its lines.                                              *)
(***************************************************************************)
EXTENDS Integers, Sequences, SequencesExt

CONSTANTS
    Loggers,
    kBufferSize,       \* of Buffer
    rollSize_,
    kCheckTimeRoll_,
    kRollPerSeconds_,
    Lengths,           \* of lines
    MaxLines,          \* no line is appended after this many
    MaxStarts,         \* start() is called at most this often
    MaxTime            \* the clock shows 1 to this many seconds

ASSUME LoggingAssumption ==
    /\ kBufferSize \in Nat /\ rollSize_ \in Nat /\ kCheckTimeRoll_ \in Nat
    /\ kRollPerSeconds_ \in Nat \ {0} /\ Lengths \subseteq Nat \ {0}

VARIABLES
    running_,
    latch_,           \* count_ of the CountDownLatch
    owner,            \* where start() or stop() is: "idle", "latch",
                      \* "latchWait", "started", "notify", "join"
    thread,           \* where threadFunc() is: "none", "begin", "loop",
                      \* "swap", "wait", "woken", "write", "ended", "aborted"
    asyncLoggers_,    \* loggers with something to write
    toWrite,          \* asyncLoggersToWrite, those still to be written
    logger,           \* the fields of each logger, and its files
    now,              \* the system clock, which may be set
    lines,            \* number of lines appended so far
    accepted,         \* history: lines of each logger, but those that are
                      \* too long for a buffer
    starts,           \* history: calls of start()
    missed            \* history: the last stop() notified while the thread
                      \* was between its test of running_ and mutex_

logVars == <<running_, latch_, owner, thread, asyncLoggers_, toWrite, logger,
             now, lines, accepted, starts, missed>>

null == <<>>
EmptyBuffer == <<>>
File(stamp) == [stamp |-> stamp, lines |-> <<>>]

\* AsyncLogger(): its constructor opens the first file.
NewLogger(time) ==
    [notEmpty_ |-> FALSE, currentBuffer_ |-> EmptyBuffer,
     nextBuffer_ |-> <<EmptyBuffer>>, buffers_ |-> <<>>,
     buffersToWrite_ |-> <<>>, buffer1_ |-> <<EmptyBuffer>>,
     buffer2_ |-> <<EmptyBuffer>>, done |-> 0, count_ |-> 0,
     files |-> <<File(time)>>]

LogInit ==
    /\ running_ = FALSE
    /\ latch_ = 1
    /\ owner = "idle"
    /\ thread = "none"
    /\ asyncLoggers_ = <<>>
    /\ toWrite = <<>>
    /\ logger = [l \in Loggers |-> NewLogger(1)]
    /\ now = 1
    /\ lines = 0
    /\ accepted = [l \in Loggers |-> <<>>]
    /\ starts = 0
    /\ missed = FALSE

-----------------------------------------------------------------------------
(* Buffers and files of one logger.                                        *)

Length(buffer) ==
    LET upTo[i \in 0..Len(buffer)] ==
            IF i = 0 THEN 0 ELSE upTo[i - 1] + buffer[i].len
    IN upTo[Len(buffer)]
Avail(buffer) == kBufferSize - Length(buffer)

\* Buffer::append(): a line that does not fit is dropped.
BufferAppend(buffer, line) ==
    IF Avail(buffer) > line.len THEN Append(buffer, line) ELSE buffer

AppendToBuffer(lg, line) ==
    IF Avail(lg.currentBuffer_) > line.len
    THEN [lg EXCEPT !.currentBuffer_ = BufferAppend(@, line),
                    !.notEmpty_ = TRUE]
    ELSE LET next == IF lg.nextBuffer_ # null THEN lg.nextBuffer_[1]
                     ELSE EmptyBuffer
         IN [lg EXCEPT !.buffers_ = Append(@, lg.currentBuffer_),
                       !.currentBuffer_ = BufferAppend(next, line),
                       !.nextBuffer_ = null,
                       !.notEmpty_ = TRUE]

SwapBuffersToWrite(lg) ==
    LET used == Length(lg.currentBuffer_) > 0
        full == IF used THEN Append(lg.buffers_, lg.currentBuffer_)
                ELSE lg.buffers_
    IN [lg EXCEPT
            !.currentBuffer_ = IF used THEN lg.buffer1_[1] ELSE @,
            !.buffer1_ = IF used THEN null ELSE @,
            !.nextBuffer_ = IF @ = null THEN lg.buffer2_ ELSE @,
            !.buffer2_ = IF lg.nextBuffer_ = null THEN null ELSE @,
            !.buffersToWrite_ = full,
            !.buffers_ = lg.buffersToWrite_,
            !.notEmpty_ = FALSE]

Period(time) == time \div kRollPerSeconds_

\* rollFile(): the name of a file is its time in seconds.  What LogFile does
\* with a file that exists is not known; here its content would be lost.
RollFile(files) ==
    IF now > Last(files).stamp
    THEN Append([i \in DOMAIN files |->
                    IF files[i].stamp = now THEN File(now) ELSE files[i]],
                File(now))
    ELSE files

\* append_unlocked() of the next buffer.  The period of the last roll is that
\* of the current file's time.
AppendToFile(lg) ==
    LET buffer == lg.buffersToWrite_[lg.done + 1]
        files == [lg.files EXCEPT ![Len(lg.files)].lines = @ \o buffer]
        written == Length(Last(files).lines)
        check == lg.count_ > kCheckTimeRoll_
        roll == \/ written > rollSize_
                \/ check /\ Period(now) # Period(Last(files).stamp)
    IN [lg EXCEPT
            !.done = @ + 1,
            !.files = IF roll THEN RollFile(files) ELSE files,
            !.count_ = IF written > rollSize_ \/ check THEN 0 ELSE @ + 1]

\* Mutant: the buffers that were written are kept.
GiveBackCopies(lg) ==
    [lg EXCEPT !.buffer1_ = <<EmptyBuffer>>,
               !.buffer2_ = <<EmptyBuffer>>,
               !.done = 0]

\* The rest of appendBuffers_unlocked(): the buffers that were given away
\* are replaced by two of those that were written.
GiveBackBuffers(lg) ==
    [lg EXCEPT !.buffer1_ = IF @ = null THEN <<EmptyBuffer>> ELSE @,
               !.buffer2_ = IF @ = null THEN <<EmptyBuffer>> ELSE @,
               !.buffersToWrite_ = <<>>,
               !.done = 0]

-----------------------------------------------------------------------------
(* Any thread.                                                             *)

\* notify_one(), with the logging thread as the only one that waits.
Notified == IF thread = "wait" THEN "woken" ELSE thread

\* Mutant: the logging thread is not told.
LogAppendSilently(l, len) ==
    /\ lines < MaxLines
    /\ thread # "aborted"
    /\ lines' = lines + 1
    /\ LET line == [n |-> lines', len |-> len]
       IN /\ logger' = [logger EXCEPT ![l] = AppendToBuffer(@, line)]
          /\ accepted' = IF len < kBufferSize
                         THEN [accepted EXCEPT ![l] = Append(@, line)]
                         ELSE accepted
    /\ IF logger[l].notEmpty_
       THEN UNCHANGED <<asyncLoggers_, thread>>
       ELSE asyncLoggers_' = Append(asyncLoggers_, l) /\ UNCHANGED thread
    /\ UNCHANGED <<running_, latch_, owner, toWrite, now, starts, missed>>

\* append(), of AsyncLogger and AsyncLogging.
LogAppend(l, len) ==
    /\ lines < MaxLines
    /\ thread # "aborted"
    /\ lines' = lines + 1
    /\ LET line == [n |-> lines', len |-> len]
       IN /\ logger' = [logger EXCEPT ![l] = AppendToBuffer(@, line)]
          /\ accepted' = IF len < kBufferSize
                         THEN [accepted EXCEPT ![l] = Append(@, line)]
                         ELSE accepted
    /\ IF logger[l].notEmpty_
       THEN UNCHANGED <<asyncLoggers_, thread>>
       ELSE asyncLoggers_' = Append(asyncLoggers_, l) /\ thread' = Notified
    /\ UNCHANGED <<running_, latch_, owner, toWrite, now, starts, missed>>

ClockSet(time) ==
    /\ thread # "aborted"
    /\ time # now
    /\ now' = time
    /\ UNCHANGED <<running_, latch_, owner, thread, asyncLoggers_, toWrite,
                   logger, lines, accepted, starts, missed>>

-----------------------------------------------------------------------------
(* The owner, which calls start() and stop() in turn.                      *)

loggers == <<asyncLoggers_, toWrite, logger, now, lines, accepted>>

Start ==
    /\ owner = "idle"
    /\ starts < MaxStarts
    /\ starts' = starts + 1
    /\ running_' = TRUE
    /\ thread' = "begin"
    /\ owner' = "latch"
    /\ UNCHANGED <<latch_, loggers, missed>>

\* Mutant: start() does not wait.
LatchPasses ==
    /\ owner = "latch"
    /\ owner' = "started"
    /\ UNCHANGED <<running_, latch_, thread, loggers, starts, missed>>

\* CountDownLatch::wait().
LatchWait ==
    /\ owner = "latch"
    /\ thread # "aborted"
    /\ owner' = IF latch_ > 0 THEN "latchWait" ELSE "started"
    /\ UNCHANGED <<running_, latch_, thread, loggers, starts, missed>>

\* stop(), which is also what ~AsyncLogging() does.
StopClears ==
    /\ owner = "started"
    /\ thread # "aborted"
    /\ running_' = FALSE
    /\ owner' = "notify"
    /\ UNCHANGED <<latch_, thread, loggers, starts, missed>>

StopNotifies ==
    /\ owner = "notify"
    /\ thread # "aborted"
    /\ thread' = Notified
    /\ missed' = (thread = "swap")
    /\ owner' = "join"
    /\ UNCHANGED <<running_, latch_, loggers, starts>>

StopJoins ==
    /\ owner = "join"
    /\ thread = "ended"
    /\ owner' = "idle"
    /\ thread' = "none"
    /\ UNCHANGED <<running_, latch_, loggers, starts, missed>>

-----------------------------------------------------------------------------
(* The logging thread.                                                     *)

\* CountDownLatch::countDown(), which wakes start() when it reaches zero.
CountDown ==
    /\ latch_' = latch_ - 1
    /\ owner' = IF latch_' = 0 /\ owner = "latchWait" THEN "latch" ELSE owner

\* threadFunc() up to its loop; it asserts that running_ is set.
ThreadBegins ==
    /\ thread = "begin"
    /\ IF running_
       THEN thread' = "loop" /\ CountDown
       ELSE thread' = "aborted" /\ UNCHANGED <<latch_, owner>>
    /\ UNCHANGED <<running_, loggers, starts, missed>>

ThreadTests ==
    /\ thread = "loop"
    /\ thread' = IF running_ THEN "swap" ELSE "ended"
    /\ UNCHANGED <<running_, latch_, owner, loggers, starts, missed>>

ThreadWaits ==
    /\ thread = "swap"
    /\ asyncLoggers_ = <<>>
    /\ thread' = "wait"
    /\ UNCHANGED <<running_, latch_, owner, loggers, starts, missed>>

\* A wait may return without a notification.
LogSpurious ==
    /\ thread = "wait"
    /\ thread' = "woken"
    /\ UNCHANGED <<running_, latch_, owner, loggers, starts, missed>>

\* swapAsyncLoggersToWrite() from where it need not wait, or has waited; it
\* waits once, whatever there is then.
ThreadSwaps ==
    /\ thread = "woken" \/ (thread = "swap" /\ asyncLoggers_ # <<>>)
    /\ thread' = "write"
    /\ toWrite' = asyncLoggers_
    /\ asyncLoggers_' = <<>>
    /\ logger' = [l \in Loggers |->
                     IF \E i \in DOMAIN asyncLoggers_ : asyncLoggers_[i] = l
                     THEN SwapBuffersToWrite(logger[l]) ELSE logger[l]]
    /\ UNCHANGED <<running_, latch_, owner, now, lines, accepted, starts, missed>>

\* appendBuffers_unlocked() of the next logger, buffer by buffer.
ThreadWrites ==
    /\ thread = "write"
    /\ toWrite # <<>>
    /\ LET l == Head(toWrite)
           more == logger[l].done < Len(logger[l].buffersToWrite_)
       IN /\ logger' = [logger EXCEPT ![l] = IF more THEN AppendToFile(@)
                                             ELSE GiveBackBuffers(@)]
          /\ toWrite' = IF more THEN toWrite ELSE Tail(toWrite)
    /\ UNCHANGED <<running_, latch_, owner, thread, asyncLoggers_, now, lines,
                   accepted, starts, missed>>

ThreadWritten ==
    /\ thread = "write"
    /\ toWrite = <<>>
    /\ thread' = "loop"
    /\ UNCHANGED <<running_, latch_, owner, loggers, starts, missed>>

ThreadStep ==
    \/ ThreadBegins \/ ThreadTests \/ ThreadWaits \/ ThreadSwaps
    \/ ThreadWrites \/ ThreadWritten

LogNext ==
    \/ \E l \in Loggers, len \in Lengths : LogAppend(l, len)
    \/ \E time \in 1..MaxTime : ClockSet(time)
    \/ Start \/ LatchWait \/ StopClears \/ StopNotifies \/ StopJoins
    \/ ThreadStep \/ LogSpurious

\* Threads go on with what they have begun; nobody has to begin anything.
LogFairness ==
    /\ WF_logVars(ThreadStep)
    /\ WF_logVars(LatchWait)
    /\ WF_logVars(StopNotifies)
    /\ WF_logVars(StopJoins)

LogSpec == LogInit /\ [][LogNext]_logVars

-----------------------------------------------------------------------------
(* Properties.                                                             *)

Written(l) == FlattenSeq([i \in DOMAIN logger[l].files |-> logger[l].files[i].lines])

Held(l) ==
    LET rest == SubSeq(logger[l].buffersToWrite_, logger[l].done + 1,
                       Len(logger[l].buffersToWrite_))
    IN FlattenSeq(rest) \o FlattenSeq(logger[l].buffers_)
           \o logger[l].currentBuffer_

\* Every line that fits into a buffer is written once and in order: at any
\* time it is in a file or in one of the buffers on the way, though buffers
\* change hands between appending threads and the logging thread, files are
\* rolled by size and period, the clock is set back, and logging is stopped
\* and started again.
LinesInOrder == \A l \in Loggers : Written(l) \o Held(l) = accepted[l]

\* What the code relies on without looking: running_ is set when the thread
\* begins, unless stop() and start() came before, as the latch is then open
\* already; a logger has buffer1_ whenever its buffers may be swapped; and
\* enough buffers come back from writing to replace the missing ones
\* (back() of appendBuffers_unlocked).
ReliesRightly ==
    /\ thread = "aborted" => starts > 1
    /\ \A l \in Loggers :
          LET lg == logger[l]
              missing == (IF lg.buffer1_ = null THEN 1 ELSE 0)
                         + (IF lg.buffer2_ = null THEN 1 ELSE 0)
          IN /\ missing <= Len(lg.buffersToWrite_)
             /\ (\A i \in DOMAIN toWrite : toWrite[i] # l) => missing = 0

\* start() returns; what is appended is written, when appending pauses and
\* unless stop() is called, which leaves it in the buffers; stop() returns,
\* unless its notification came when the thread had seen running_ set and
\* had not begun to wait, as running_ is cleared without mutex_.
LoggingProceeds ==
    /\ (owner = "latch") ~> (owner = "started")
    /\ \A l \in Loggers :
          (running_ /\ Held(l) # <<>>)
              ~> (Held(l) = <<>> \/ ~running_ \/ thread = "aborted")
    /\ (owner = "join") ~> (owner = "idle" \/ missed \/ thread = "aborted")
=============================================================================
