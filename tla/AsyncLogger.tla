------------------------------ MODULE AsyncLogger ------------------------------
(***************************************************************************)
(* AsyncFileLogger and the Logger calls that feed it (logging.cpp): events *)
(* appended by any thread, a worker that batches them into a buffer per    *)
(* file and writes the buffers when they are full, when an interval is     *)
(* over or when flush() asks for it, files that roll.                      *)
(*                                                                         *)
(* An event is a record [n, size], n in the order of the appends; a file   *)
(* is its level's, in one directory.  A section under mutex_ is one step,  *)
(* a notify after it another; who waits on cv_ may wake up for no reason.  *)
(* The clock only tells whether the interval is over.  The file system     *)
(* does what it is asked to.  A message without a file (set_output) does   *)
(* not come here.                                                          *)
(***************************************************************************)
EXTENDS Naturals, Sequences, SequencesExt

CONSTANTS
  Loggers,      \* threads that log
  LogFiles,     \* the files
  RecordSizes,  \* the sizes of a file's records, in the order of the appends
  BufferLimit,  \* k_log_buffer_flush_size
  RollSize,     \* Logger::roll_size()
  MaxRollFiles, \* Logger::max_roll_files()
  MaxFlushes    \* bound: calls of flush() and set_flush_interval()

ASSUME AsyncLoggerAssumption ==
  /\ RecordSizes \in Seq(Nat \ {0}) /\ BufferLimit \in Nat \ {0} /\ RollSize \in Nat \ {0}
  /\ MaxRollFiles \in Nat /\ MaxFlushes \in Nat /\ "worker" \notin Loggers

VARIABLES
  pending,        \* pending_
  logStarted, logStopping,
  flushRequested, \* flush_requested_
  flushGeneration, flushedGeneration,
  intervalChanged,\* interval_generation_ is not the one the worker has seen
  stopNotifies,   \* stop() is between its unlock and its notify
  logger,         \* where each thread is
  generation,     \* what each thread in flush() waits for
  cvWaiters,      \* threads asleep on cv_
  logWorker,      \* where the worker is
  batch,          \* run()'s locals: events, force_flush and flush_generation
  buffers,        \* ... and buffers
  files,          \* contents of the base file, then of its .1, .2, ...
  flushCalls,     \* calls of flush() and set_flush_interval()
  appended,       \* history: every event of each file
  mark            \* history: how many there were at each thread's last flush()

logQueue == <<pending, logStarted, logStopping, flushRequested, flushGeneration, flushedGeneration,
              intervalChanged>>
logDisk == <<batch, buffers, files>>
logHistory == <<flushCalls, appended, mark>>
logVars == <<logQueue, stopNotifies, logger, generation, cvWaiters, logWorker, logDisk, logHistory>>

LogInit ==
  /\ pending = << >> /\ logStarted = FALSE /\ logStopping = FALSE /\ stopNotifies = FALSE
  /\ flushRequested = FALSE /\ intervalChanged = FALSE
  /\ flushGeneration = 0 /\ flushedGeneration = 0
  /\ logger = [c \in Loggers |-> "out"] /\ generation = [c \in Loggers |-> 0]
  /\ cvWaiters = {} /\ logWorker = "none"
  /\ batch = [events |-> << >>, force |-> FALSE, generation |-> 0]
  /\ buffers = [f \in LogFiles |-> << >>] /\ files = [f \in LogFiles |-> << >>]
  /\ flushCalls = 0 /\ appended = [f \in LogFiles |-> << >>]
  /\ mark = [c \in Loggers |-> [f \in LogFiles |-> 0]]

Goes(c, to) == logger' = [logger EXCEPT ![c] = to]

\* ensure_started_locked
Started == logStarted' = TRUE /\ logWorker' = IF logStarted THEN logWorker ELSE "ready"

\* notify_one: it is not said whom.
NotifyOne ==
  IF cvWaiters = {} THEN UNCHANGED cvWaiters ELSE \E t \in cvWaiters : cvWaiters' = cvWaiters \ {t}

-----------------------------------------------------------------------------
(* The threads that log.                                                   *)

\* Logger::~Logger: append(), up to its unlock.  A fatal one goes on with a flush().
\* Bound: as many events of a file as RecordSizes has sizes.
AppendEvent(c, f) ==
  LET n == Len(appended[f]) + 1
      event == [n |-> n, size |-> RecordSizes[n]]
  IN  /\ n \in DOMAIN RecordSizes
      /\ logger[c] = "out" /\ Goes(c, "notify")
      /\ Started
      /\ pending' = Append(pending, <<f, event>>)
      /\ appended' = [appended EXCEPT ![f] = Append(@, event)]
      /\ UNCHANGED <<stopNotifies, logStopping, flushRequested, flushGeneration, flushedGeneration,
                     intervalChanged, generation, cvWaiters, logDisk, flushCalls, mark>>

AppendNotify(c) ==
  /\ logger[c] = "notify" /\ NotifyOne /\ Goes(c, "out")
  /\ UNCHANGED <<stopNotifies, logQueue, generation, logWorker, logDisk, logHistory>>

\* flush(): the request and its notify are one section.
Flush(c) ==
  /\ logger[c] = "out" /\ Goes(c, "waits")
  /\ flushCalls < MaxFlushes /\ flushCalls' = flushCalls + 1
  /\ Started /\ NotifyOne
  /\ flushGeneration' = flushGeneration + 1 /\ flushRequested' = TRUE
  /\ generation' = [generation EXCEPT ![c] = flushGeneration + 1]
  /\ mark' = [mark EXCEPT ![c] = [f \in LogFiles |-> Len(appended[f])]]
  /\ UNCHANGED <<stopNotifies, pending, logStopping, flushedGeneration, intervalChanged, logDisk,
                 appended>>

\* Its wait.
FlushWaits(c) ==
  /\ logger[c] = "waits" /\ c \notin cvWaiters
  /\ IF flushedGeneration >= generation[c]
     THEN Goes(c, "out") /\ UNCHANGED cvWaiters
     ELSE cvWaiters' = cvWaiters \cup {c} /\ UNCHANGED logger
  /\ UNCHANGED <<stopNotifies, logQueue, generation, logWorker, logDisk, logHistory>>

\* Logger::set_flush_interval, notify_flush_interval_changed
SetFlushInterval(c) ==
  /\ logger[c] = "out" /\ flushCalls < MaxFlushes /\ flushCalls' = flushCalls + 1
  /\ intervalChanged' = TRUE /\ Goes(c, "notify")
  /\ UNCHANGED <<stopNotifies, pending, logStarted, logStopping, flushRequested, flushGeneration,
                 flushedGeneration, generation, cvWaiters, logWorker, logDisk, appended, mark>>

\* stop(), when the program ends: the flag, and the notify after it; then it joins
\* the worker.
StopLogger ==
  /\ logStarted /\ ~logStopping /\ logStopping' = TRUE /\ stopNotifies' = TRUE
  /\ UNCHANGED <<pending, logStarted, flushRequested, flushGeneration, flushedGeneration,
                 intervalChanged, logger, generation, cvWaiters, logWorker, logDisk, logHistory>>

StopNotify ==
  /\ stopNotifies /\ stopNotifies' = FALSE /\ NotifyOne
  /\ UNCHANGED <<logQueue, logger, generation, logWorker, logDisk, logHistory>>

-----------------------------------------------------------------------------
(* The files.                                                              *)

Size(records) == SumFunction([i \in DOMAIN records |-> records[i].size])

\* Mutant: the shift begins one file too low.
RollOneShort(fs) ==
  IF MaxRollFiles = 0 THEN <<<< >>>>
  ELSE <<<< >>>> \o SubSeq(fs, 1, IF Len(fs) < MaxRollFiles THEN Len(fs) ELSE MaxRollFiles - 1)

\* roll_sink: every file moves up by one, the one beyond the last is removed.
RollSink(fs) ==
  IF MaxRollFiles = 0 THEN <<<< >>>>
  ELSE <<<< >>>> \o SubSeq(fs, 1, IF Len(fs) > MaxRollFiles THEN MaxRollFiles ELSE Len(fs))

\* write_record and write_to_sink; sink.written is the size of the base file.
WriteRecord(fs, record) ==
  LET written == IF fs = << >> THEN 0 ELSE Size(fs[1])
      rolled == IF written > 0 /\ (written >= RollSize \/ record.size > RollSize - written)
                THEN RollSink(fs) ELSE fs
  IN  IF rolled = << >> THEN <<<<record>>>> ELSE [rolled EXCEPT ![1] = Append(@, record)]

\* write_buffer
WriteBuffer(fs, buffer) ==
  LET with[k \in 0..Len(buffer)] == IF k = 0 THEN fs ELSE WriteRecord(with[k - 1], buffer[k])
  IN  with[Len(buffer)]

\* flush_buffers
FlushBuffers ==
  /\ files' = [f \in LogFiles |-> WriteBuffer(files[f], buffers[f])]
  /\ buffers' = [f \in LogFiles |-> << >>]

-----------------------------------------------------------------------------
(* The worker: run().                                                      *)

WorkToDo == logStopping \/ flushRequested \/ pending # << >> \/ intervalChanged

\* The wait: the predicate fails and the interval is not over.
WorkerWaits ==
  /\ logWorker = "ready" /\ "worker" \notin cvWaiters /\ ~WorkToDo
  /\ cvWaiters' = cvWaiters \cup {"worker"}
  /\ UNCHANGED <<logQueue, logger, stopNotifies, generation, logWorker, logDisk, logHistory>>

\* The rest of the section; with nothing to do it is the clock that ended the wait.
\* After a change of the interval a new one has begun.
WorkerTakesEvents(due) ==
  /\ logWorker = "ready" /\ (WorkToDo => "worker" \notin cvWaiters)
  /\ (~WorkToDo => due) /\ (intervalChanged => ~due)
  /\ cvWaiters' = cvWaiters \ {"worker"}
  /\ batch' = [events |-> pending, force |-> flushRequested \/ logStopping \/ due,
               generation |-> flushGeneration]
  /\ pending' = << >> /\ flushRequested' = FALSE /\ intervalChanged' = FALSE
  /\ logWorker' = "writing"
  /\ UNCHANGED <<logStarted, logStopping, flushGeneration, flushedGeneration, logger, stopNotifies, generation,
                 buffers, files, logHistory>>

\* Outside the lock: the next event into its buffer, which is written when it is full.
WorkerBuffers ==
  /\ logWorker = "writing" /\ batch.events # << >>
  /\ batch' = [batch EXCEPT !.events = Tail(@)]
  /\ LET f == Head(batch.events)[1]
         buffer == Append(buffers[f], Head(batch.events)[2])
         full == Size(buffer) >= BufferLimit
     IN  /\ buffers' = [buffers EXCEPT ![f] = IF full THEN << >> ELSE buffer]
         /\ files' = IF full THEN [files EXCEPT ![f] = WriteBuffer(@, buffer)] ELSE files
  /\ UNCHANGED <<logQueue, logger, stopNotifies, generation, cvWaiters, logWorker, logHistory>>

\* ... and all of them when it has to be.
WorkerFlushes ==
  /\ logWorker = "writing" /\ batch.events = << >>
  /\ IF batch.force
     THEN logWorker' = "answer" /\ FlushBuffers
     ELSE logWorker' = "check" /\ UNCHANGED <<buffers, files>>
  /\ UNCHANGED <<logQueue, logger, stopNotifies, generation, cvWaiters, batch, logHistory>>

\* Mutant: everything that has been asked for by now counts as flushed.
AnswerAll ==
  /\ logWorker = "answer" /\ logWorker' = "check"
  /\ flushedGeneration' = flushGeneration /\ cvWaiters' = {}
  /\ UNCHANGED <<pending, logStarted, logStopping, flushRequested, flushGeneration,
                 intervalChanged, logger, stopNotifies, generation, logDisk, logHistory>>

\* Mutant: one waiting thread is told.
AnswerOne ==
  /\ logWorker = "answer" /\ logWorker' = "check"
  /\ flushedGeneration' = batch.generation /\ NotifyOne
  /\ UNCHANGED <<pending, logStarted, logStopping, flushRequested, flushGeneration,
                 intervalChanged, logger, stopNotifies, generation, logDisk, logHistory>>

WorkerAnswers ==
  /\ logWorker = "answer" /\ logWorker' = "check"
  /\ flushedGeneration' = batch.generation /\ cvWaiters' = {}
  /\ UNCHANGED <<pending, logStarted, logStopping, flushRequested, flushGeneration,
                 intervalChanged, logger, stopNotifies, generation, logDisk, logHistory>>

\* The end of the loop, and the last flush after it.
WorkerChecks ==
  /\ logWorker = "check"
  /\ IF logStopping /\ pending = << >>
     THEN logWorker' = "gone" /\ FlushBuffers
     ELSE logWorker' = "ready" /\ UNCHANGED <<buffers, files>>
  /\ UNCHANGED <<logQueue, logger, stopNotifies, generation, cvWaiters, batch, logHistory>>

\* For no reason.
WakesUp(t) ==
  /\ t \in cvWaiters /\ cvWaiters' = cvWaiters \ {t}
  /\ UNCHANGED <<logQueue, logger, stopNotifies, generation, logWorker, logDisk, logHistory>>

-----------------------------------------------------------------------------
LogNext ==
  \/ \E c \in Loggers :
       \/ \E f \in LogFiles : AppendEvent(c, f)
       \/ AppendNotify(c) \/ Flush(c) \/ FlushWaits(c) \/ SetFlushInterval(c)
       \/ WakesUp(c)
  \/ StopLogger \/ StopNotify
  \/ \E due \in BOOLEAN : WorkerTakesEvents(due)
  \/ WorkerWaits \/ WorkerBuffers \/ WorkerFlushes \/ WorkerAnswers \/ WorkerChecks \/ WakesUp("worker")

LogSpec == LogInit /\ [][LogNext]_logVars

-----------------------------------------------------------------------------
(* Properties.                                                             *)

\* What is in a file's files, oldest first, and what is still on its way to it.
OnFile(f) == FlattenSeq(Reverse(files[f]))
Of(f, events) == FlattenSeq([i \in DOMAIN events |-> IF events[i][1] = f THEN <<events[i][2]>> ELSE << >>])
OnItsWay(f) == buffers[f] \o Of(f, batch.events) \o Of(f, pending)

\* No event is lost, doubled or overtaken: the files, oldest first, the buffer, the
\* batch and the queue together are the last of the events appended, and all of them
\* until the number of files is reached.  A file holds more than the roll size only
\* as a single record, and the worker leaves nothing in its buffers when it ends
\* (append, run, write_buffer, roll_sink).
LogComplete ==
  \A f \in LogFiles :
    /\ \E k \in 0..Len(appended[f]) :
         /\ OnFile(f) \o OnItsWay(f) = SubSeq(appended[f], k + 1, Len(appended[f]))
         /\ Len(files[f]) <= MaxRollFiles => k = 0
    /\ \A i \in DOMAIN files[f] : Size(files[f][i]) > RollSize => Len(files[f][i]) = 1
    /\ logWorker = "gone" => buffers[f] = << >> /\ batch.events = << >>

\* A flush() that may return has everything on file that was appended before it, by
\* whatever thread; a fatal Logger aborts only after that (flush, the generations).
FlushedIsOnFile ==
  \A c \in Loggers : logger[c] = "waits" /\ flushedGeneration >= generation[c] =>
    \A f \in LogFiles : Len(appended[f]) - Len(OnItsWay(f)) >= mark[c][f]

\* What was logged is on file, once, in order and by the time flush() promises
\* (append, flush, run, write_buffer, roll_sink).
LogFaithful == LogComplete /\ FlushedIsOnFile

\* One condition variable serves the worker and the threads in flush(), and a
\* notify_one reaches any of them; still nobody sleeps over what he waits for, with
\* no help of the interval.  While the worker sleeps nobody else does, and if there
\* is work a notify is on its way; while a thread in flush() sleeps, its request is
\* there or in the worker's hands, unless the worker has ended (append, flush, stop,
\* run).
LogAwake ==
  /\ "worker" \in cvWaiters =>
       /\ cvWaiters = {"worker"}
       /\ WorkToDo => stopNotifies \/ \E c \in Loggers : logger[c] = "notify"
  /\ \A c \in Loggers \cap cvWaiters :
       /\ flushedGeneration < generation[c]
       /\ \/ flushRequested
          \/ logWorker \in {"writing", "answer"} /\ batch.force /\ batch.generation >= generation[c]
          \/ logWorker = "gone"
=============================================================================
