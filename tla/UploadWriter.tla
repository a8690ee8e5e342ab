----------------------------- MODULE UploadWriter -----------------------------
(***************************************************************************)
(* UploadFileWriterPool and its sessions (upload_file_writer.cpp): the     *)
(* thread that feeds an upload copies what it gets into blocks, a worker   *)
(* of the pool writes the full blocks to a part file and renames it at the *)
(* end, and watermarks tell the feeding side to pause and to resume.       *)
(*                                                                         *)
(* All sessions ask for the same file name, the case in which they meet.   *)
(* A byte is its number in the upload.  The blocks' memory and its reuse   *)
(* are left out.  What the callbacks do is HttpRequestBodyStream's         *)
(* reading_paused flag, as the upload routes of the repository use it.     *)
(***************************************************************************)
EXTENDS Naturals, Sequences, FiniteSets, FiniteSetsExt, SequencesExt

CONSTANTS
  Sessions,     \* uploads
  Overwriting,  \* those with overwrite_existing
  Chunks,       \* bound: sizes of the data given to append
  MaxBytes,     \* bound: MaxBytes[s] bytes are given to upload s
  BlockSize, HighMark, LowMark, MaxUpload,  \* UploadFileWriterOptions
  MaxTotal, MaxActive, Workers,             \* UploadFileWriterPoolOptions, start()
  MaxFaults     \* bound: file operations that fail

NoOne == "noOne"

ASSUME UploadAssumption ==
  /\ IsFiniteSet(Sessions) /\ NoOne \notin Sessions
  /\ Overwriting \subseteq Sessions /\ Chunks \subseteq Nat \ {0}
  /\ BlockSize \in Nat \ {0} /\ Workers \in Nat \ {0}
  /\ MaxBytes \in [Sessions -> Nat]
  /\ \A n \in {HighMark, LowMark, MaxUpload, MaxTotal, MaxActive, MaxFaults} : n \in Nat
  /\ LowMark < HighMark
  \* Else a block that is not full could hold a paused upload above the low mark.
  /\ BlockSize - 1 <= LowMark

VARIABLES
  ses,       \* each session's fields under its mutex
  apc,       \* the feeding thread: "none", "idle", or "high" (callback due)
  paused,    \* HttpRequestBodyStream::reading_paused
  wpc,       \* where the worker of each session is
  ok,        \* the worker's local `ok`
  opened,    \* the part file has been opened
  taken,     \* the worker's local block
  file,      \* what is in the part file
  result,    \* the worker's result: "none", "ok", "failed", "canceled"
  path,      \* final_path: the index behind the name
  disk,      \* disk[i]: the session whose bytes are in file i, or NoOne
  total,     \* total_queued_bytes
  active,    \* active_uploads
  reserved,  \* reserved_final_paths
  faults     \* file operations that have failed

worker == <<wpc, ok, opened, taken, file, result, disk, reserved, active, faults>>
vars == <<ses, apc, paused, worker, path, total>>

Indices == 0..Cardinality(Sessions)
Bytes(from, to) == [i \in 1..to - from |-> from + i]

Points == {"none", "queued", "open", "wait", "low", "write", "close", "decide",
           "rename", "release", "report", "ended"}

Session == [ready : Seq(Seq(Nat)), block : Seq(Nat), got : Nat,
            finished : BOOLEAN, canceled : BOOLEAN, failed : BOOLEAN, done : BOOLEAN,
            above : BOOLEAN, queued : 0..MaxTotal, written : Nat]

TypeOK ==
  /\ ses \in [Sessions -> Session]
  /\ apc \in [Sessions -> {"none", "idle", "high"}] /\ paused \in [Sessions -> BOOLEAN]
  /\ wpc \in [Sessions -> Points]
  /\ ok \in [Sessions -> BOOLEAN] /\ opened \in [Sessions -> BOOLEAN]
  /\ taken \in [Sessions -> Seq(Nat)] /\ file \in [Sessions -> Seq(Nat)]
  /\ result \in [Sessions -> {"none", "ok", "failed", "canceled"}]
  /\ path \in [Sessions -> Indices] /\ disk \in [Indices -> Sessions \cup {NoOne}]
  /\ total \in 0..MaxTotal /\ active \in 0..MaxActive /\ reserved \subseteq Indices
  /\ faults \in 0..MaxFaults

Init ==
  /\ ses = [s \in Sessions |-> [ready |-> << >>, block |-> << >>, got |-> 0,
        finished |-> FALSE, canceled |-> FALSE, failed |-> FALSE, done |-> FALSE,
        above |-> FALSE, queued |-> 0, written |-> 0]]
  /\ apc = [s \in Sessions |-> "none"] /\ paused = [s \in Sessions |-> FALSE]
  /\ wpc = [s \in Sessions |-> "none"] /\ ok = [s \in Sessions |-> TRUE]
  /\ opened = [s \in Sessions |-> FALSE]
  /\ taken = [s \in Sessions |-> << >>] /\ file = [s \in Sessions |-> << >>]
  /\ result = [s \in Sessions |-> "none"]
  /\ path = [s \in Sessions |-> 0] /\ disk = [i \in Indices |-> NoOne]
  /\ total = 0 /\ active = 0 /\ reserved = {} /\ faults = 0

-----------------------------------------------------------------------------
(* create_session                                                          *)

\* Mutant: only the disk is asked, not the uploads under way.
FreePathUnreserved(s, i) == disk[i] = NoOne \/ s \in Overwriting

\* reserve_upload_paths: may s have index i?
FreePath(s, i) == (disk[i] = NoOne \/ s \in Overwriting) /\ i \notin reserved

CreateSession(s) ==
  /\ wpc[s] = "none" /\ active < MaxActive /\ active' = active + 1
  /\ LET i == Min({j \in Indices : FreePath(s, j)})
     IN  reserved' = reserved \cup {i} /\ path' = [path EXCEPT ![s] = i]
  /\ wpc' = [wpc EXCEPT ![s] = "queued"] /\ apc' = [apc EXCEPT ![s] = "idle"]
  /\ UNCHANGED <<ses, paused, ok, opened, taken, file, result, disk, total, faults>>

-----------------------------------------------------------------------------
(* The feeding thread.                                                     *)

Open(s) == ~ses[s].finished /\ ~ses[s].canceled /\ ~ses[s].failed

\* fail_locked, as a change of the session's record.
Fail(r) == IF r.finished \/ r.canceled \/ r.failed THEN r
           ELSE [r EXCEPT !.failed = TRUE, !.finished = TRUE]

\* Mutant: what waits in the queue does not count.
OverLimitWritten(s, n) == n > MaxUpload \/ ses[s].written > MaxUpload - n

\* The size limit
OverLimit(s, n) == n > MaxUpload \/ ses[s].written + ses[s].queued > MaxUpload - n

\* try_reserve_queued fails
OverTotal(n) == n > MaxTotal \/ total > MaxTotal - n

\* The copy into blocks: full ones are ready, the rest is the pending block.
Fill(r, n) ==
  LET all  == r.block \o Bytes(r.got, r.got + n)
      full == Len(all) \div BlockSize
  IN  [r EXCEPT !.ready = @ \o [i \in 1..full |-> SubSeq(all, (i - 1) * BlockSize + 1, i * BlockSize)],
                !.block = SubSeq(all, full * BlockSize + 1, Len(all)),
                !.got = @ + n, !.queued = @ + n,
                !.above = @ \/ r.queued + n >= HighMark]

\* append.  The body stream delivers nothing while it is paused.
AppendData(s) ==
  /\ apc[s] = "idle" /\ ~paused[s]
  /\ \E n \in Chunks :
       /\ ses[s].got + n <= MaxBytes[s]
       /\ Open(s) /\ ~ses[s].done
       /\ IF OverLimit(s, n) \/ OverTotal(n)
          THEN ses' = [ses EXCEPT ![s] = Fail(@)] /\ UNCHANGED <<apc, total>>
          ELSE /\ total' = total + n
               /\ ses' = [ses EXCEPT ![s] = Fill(@, n)]
               /\ apc' = [apc EXCEPT ![s] = IF ses'[s].above /\ ~ses[s].above THEN "high" ELSE "idle"]
  /\ UNCHANGED <<paused, path, worker>>

\* The high-watermark callback, after the unlock: pause_reading.
HighCallback(s) ==
  /\ apc[s] = "high" /\ apc' = [apc EXCEPT ![s] = "idle"]
  /\ paused' = [paused EXCEPT ![s] = TRUE]
  /\ UNCHANGED <<ses, path, total, worker>>

\* Mutant: what is in the pending block is forgotten.
FlushPendingForgotten(r) == r

\* flush_pending_block_locked
FlushPending(r) ==
  IF r.block = << >> THEN r
  ELSE [r EXCEPT !.ready = Append(@, r.block), !.block = << >>]

\* finish, when the body is complete; its last bytes may have paused the stream.
FinishUpload(s) ==
  /\ apc[s] = "idle" /\ ~ses[s].finished
  /\ ~ses[s].canceled /\ ~ses[s].failed
  /\ ses' = [ses EXCEPT ![s] = [FlushPending(@) EXCEPT !.finished = TRUE]]
  /\ UNCHANGED <<apc, paused, path, total, worker>>

\* cancel, from any thread: the connection has gone, or append has refused.
CancelUpload(s) ==
  /\ apc[s] # "none" /\ ~ses[s].canceled /\ ~ses[s].done
  /\ ses' = [ses EXCEPT ![s].canceled = TRUE, ![s].finished = TRUE]
  /\ UNCHANGED <<apc, paused, path, total, worker>>

-----------------------------------------------------------------------------
(* The worker: run_upload_writer_session on a thread of the pool.          *)

At(s, from, to) == wpc[s] = from /\ wpc' = [wpc EXCEPT ![s] = to]

\* A file operation works, or fails while faults are left.
Tries(works, fails) ==
  \/ works /\ UNCHANGED faults
  \/ faults < MaxFaults /\ faults' = faults + 1 /\ fails

Running(s) == wpc[s] \notin {"none", "queued", "ended"}

WorkerStarts(s) ==
  /\ Cardinality({t \in Sessions : Running(t)}) < Workers /\ At(s, "queued", "open")
  /\ UNCHANGED <<ses, apc, paused, path, total, ok, opened, taken, file, result, disk, reserved, active, faults>>

\* The directory and the part file.
WorkerOpens(s) ==
  /\ At(s, "open", "wait")
  /\ Tries(opened' = [opened EXCEPT ![s] = TRUE] /\ UNCHANGED ok,
           ok' = [ok EXCEPT ![s] = FALSE] /\ UNCHANGED opened)
  /\ UNCHANGED <<ses, apc, paused, path, total, taken, file, result, disk, reserved, active>>

\* Mutant: the bytes discarded stay in the pool's count.
DiscardKeepingTotal(s) ==
  /\ ses' = [ses EXCEPT ![s].queued = 0, ![s].block = << >>, ![s].ready = << >>]
  /\ UNCHANGED total

\* discard_ready_blocks_locked
Discard(s) ==
  /\ ses' = [ses EXCEPT ![s].queued = 0, ![s].block = << >>, ![s].ready = << >>]
  /\ total' = total - ses[s].queued

Dropping(s) == ses[s].canceled \/ ses[s].failed \/ ~ok[s]

\* Mutant: the worker is woken by data only.
WorkerDropsWhenReady(s) ==
  /\ At(s, "wait", "close")
  /\ Dropping(s) /\ ses[s].ready # << >>
  /\ Discard(s)
  /\ UNCHANGED <<apc, paused, path, ok, opened, taken, file, result, disk, reserved, active, faults>>

\* The wait is over: canceled, failed, or the file is not usable.
WorkerDrops(s) ==
  /\ At(s, "wait", "close")
  /\ Dropping(s) /\ (ses[s].finished \/ ses[s].canceled \/ ses[s].failed \/ ses[s].ready # << >>)
  /\ Discard(s)
  /\ UNCHANGED <<apc, paused, path, ok, opened, taken, file, result, disk, reserved, active, faults>>

\* Is this the block that brings the queue down to the low mark?
LowNow(r, left) == r.above /\ left <= LowMark

\* Or: the next block.
WorkerTakes(s) ==
  /\ wpc[s] = "wait" /\ ~Dropping(s) /\ ses[s].ready # << >>
  /\ LET b   == Head(ses[s].ready)
         n   == ses[s].queued - Len(b)
         low == LowNow(ses[s], n)
     IN  /\ taken' = [taken EXCEPT ![s] = b] /\ total' = total - Len(b)
         /\ ses' = [ses EXCEPT ![s].ready = Tail(@), ![s].queued = n,
                               ![s].above = @ /\ ~low]
         /\ wpc' = [wpc EXCEPT ![s] = IF low THEN "low" ELSE "write"]
  /\ UNCHANGED <<apc, paused, path, ok, opened, file, result, disk, reserved, active, faults>>

\* Or: finished, and nothing is left.
WorkerStops(s) ==
  /\ At(s, "wait", "close") /\ ~Dropping(s) /\ ses[s].ready = << >> /\ ses[s].finished
  /\ UNCHANGED <<ses, apc, paused, path, total, ok, opened, taken, file, result, disk, reserved, active, faults>>

\* The low-watermark callback, after the unlock: resume_reading.
WorkerResumes(s) ==
  /\ At(s, "low", "write") /\ paused' = [paused EXCEPT ![s] = FALSE]
  /\ UNCHANGED <<ses, apc, path, total, ok, opened, taken, file, result, disk, reserved, active, faults>>

\* bytes_written, of n more bytes.
Counted(r, n) == [r EXCEPT !.written = @ + n]

\* The block goes to the file; it counts as written even if that fails.
WorkerWrites(s) ==
  /\ At(s, "write", "wait")
  /\ Tries(/\ file' = [file EXCEPT ![s] = @ \o taken[s]] /\ UNCHANGED ok
           /\ ses' = [ses EXCEPT ![s] = Counted(@, Len(taken[s]))],
           /\ ok' = [ok EXCEPT ![s] = FALSE] /\ UNCHANGED file
           /\ ses' = [ses EXCEPT ![s] = Counted(Fail(@), Len(taken[s]))])
  /\ taken' = [taken EXCEPT ![s] = << >>]
  /\ UNCHANGED <<apc, paused, path, total, opened, result, disk, reserved, active>>

WorkerCloses(s) ==
  /\ At(s, "close", "decide")
  /\ Tries(UNCHANGED ok, ok' = [ok EXCEPT ![s] = FALSE])
  /\ UNCHANGED <<ses, apc, paused, path, total, opened, taken, file, result, disk, reserved, active>>

\* canceled, failed, or to be renamed, under the lock once more.
Verdict(s) == IF ses[s].canceled THEN "canceled"
              ELSE IF ses[s].failed \/ ~ok[s] THEN "failed" ELSE "ok"

\* What was canceled or failed is removed.
WorkerDecides(s) ==
  /\ wpc[s] = "decide" /\ result' = [result EXCEPT ![s] = Verdict(s)]
  /\ wpc' = [wpc EXCEPT ![s] = IF Verdict(s) = "ok" THEN "rename" ELSE "release"]
  /\ UNCHANGED <<ses, apc, paused, path, total, ok, opened, taken, file, disk, reserved, active, faults>>

WorkerRenames(s) ==
  /\ At(s, "rename", "release")
  /\ Tries(disk' = [disk EXCEPT ![path[s]] = s] /\ UNCHANGED result,
           result' = [result EXCEPT ![s] = "failed"] /\ UNCHANGED disk)
  /\ UNCHANGED <<ses, apc, paused, path, total, ok, opened, taken, file, reserved, active>>

\* finish_worker_state: the blocks go back to the pool, whatever queued says,
\* then the path and the place among the active uploads ...
WorkerReleases(s) ==
  /\ At(s, "release", "report")
  /\ ses' = [ses EXCEPT ![s].block = << >>, ![s].ready = << >>]
  /\ reserved' = reserved \ {path[s]} /\ active' = active - 1
  /\ UNCHANGED <<apc, paused, path, total, ok, opened, taken, file, result, disk, faults>>

\* ... then worker_done and the completion callback.
WorkerReports(s) ==
  /\ At(s, "report", "ended")
  /\ ses' = [ses EXCEPT ![s].done = TRUE]
  /\ UNCHANGED <<apc, paused, path, total, ok, opened, taken, file, result, disk, reserved, active, faults>>

-----------------------------------------------------------------------------
Feeding(s) == AppendData(s) \/ HighCallback(s) \/ FinishUpload(s) \/ CancelUpload(s)

Working(s) ==
  \/ WorkerStarts(s) \/ WorkerOpens(s) \/ WorkerDrops(s) \/ WorkerTakes(s) \/ WorkerStops(s)
  \/ WorkerResumes(s) \/ WorkerWrites(s) \/ WorkerCloses(s) \/ WorkerDecides(s)
  \/ WorkerRenames(s) \/ WorkerReleases(s) \/ WorkerReports(s)

Next == \E s \in Sessions : CreateSession(s) \/ Feeding(s) \/ Working(s)

Spec == Init /\ [][Next]_vars

(* Fairness: the pool's threads run, and a callback that is due is called.    *)
(* Nobody has to append, finish or cancel.                                    *)
Fairness == \A s \in Sessions : WF_vars(Working(s)) /\ WF_vars(HighCallback(s))

-----------------------------------------------------------------------------
(* Properties.                                                             *)

Live(s) == wpc[s] \notin {"none", "report", "ended"}

\* The bytes each session has queued.
Queued == [s \in Sessions |-> ses[s].queued]

(* The counts agree, whatever fails: the pool's bytes are the sessions', a    *)
(* session's are those in its blocks, an upload that has ended leaves none    *)
(* behind and active_uploads counts the others (append, the worker's pops     *)
(* and discards, finish_worker_state).  The exception is a file that could    *)
(* not be opened: append still accepts data between the worker's discard and  *)
(* worker_done, and nobody releases it.                                       *)
AccountsAgree ==
  /\ total = SumFunction(Queued)
  /\ \A s \in Sessions :
       /\ Live(s) \/ opened[s]
            => ses[s].queued = Len(ses[s].block) + Len(FlattenSeq(ses[s].ready))
       /\ wpc[s] \in {"decide", "rename", "release", "report", "ended"} /\ opened[s]
            => ses[s].queued = 0
  /\ active = Cardinality({s \in Sessions : Live(s)})

(* A file that is renamed is the upload, whole and in order, and a file that  *)
(* was canceled or has failed is not there: nothing is lost, doubled or       *)
(* swapped between the pending block, the ready blocks and the file (append,  *)
(* finish, run_upload_writer_session).                                        *)
CompleteIsWhole ==
  \A s \in Sessions :
    /\ result[s] = "ok" => file[s] = Bytes(0, ses[s].got)
    /\ result[s] \in {"failed", "canceled"} => \A i \in Indices : disk[i] # s

(* Uploads of the same name never meet in one file: those under way have      *)
(* different paths, and a completed one keeps its file unless a later one has *)
(* overwrite_existing (reserve_upload_paths, release_upload_path).            *)
PathsDistinct ==
  \A s, t \in Sessions : s # t =>
    /\ Live(s) /\ Live(t) => path[s] # path[t]
    /\ wpc[s] = "ended" /\ result[s] = "ok" /\ disk[path[s]] = t => t \in Overwriting

(* Back-pressure bounds the queue: it never exceeds the high mark by more     *)
(* than the chunk that crosses it, and the size limit is exceeded by no more  *)
(* than the block in the worker's hands, which is in neither count.  If the   *)
(* part file cannot be opened the worker's discard starts the count anew, and *)
(* as much again may come in until worker_done; none of that is written       *)
(* (append against run_upload_writer_session and the callbacks outside the    *)
(* lock).                                                                     *)
QueueBounded ==
  \A s \in Sessions :
    /\ \A n \in Chunks : (\A m \in Chunks : m <= n) => ses[s].queued < HighMark + n
    /\ ses[s].got <= MaxUpload + (IF opened[s] THEN BlockSize ELSE MaxUpload)

(* What is queued is accounted for and bounded (append, the worker's pops and *)
(* discards, finish_worker_state).                                            *)
QueueAccounted == AccountsAgree /\ QueueBounded

(* An upload that completes has a file of its own, and has it whole (append,  *)
(* run_upload_writer_session, reserve_upload_paths).                          *)
FilesOwned == CompleteIsWhole /\ PathsDistinct

(* Every upload that is finished, canceled or failed ends in its completion   *)
(* callback, unless all threads of the pool are held by uploads that nobody   *)
(* finishes (finish, cancel, append; run_upload_writer_session).              *)
UploadEnds ==
  \A s \in Sessions :
    (wpc[s] # "none" /\ ses[s].finished)
      ~> (ses[s].done \/ \E t \in Sessions : Running(t) /\ ~ses[t].finished)

(* What the documentation says: draining below the low watermark resumes      *)
(* reads, so an upload that is drained, with no callback under way, is not    *)
(* paused (append's high callback against the worker's low callback).         *)
DrainResumes ==
  \A s \in Sessions :
    wpc[s] = "wait" /\ apc[s] = "idle" /\ ~Dropping(s) /\ ses[s].queued <= LowMark
      => ~paused[s]
=============================================================================
