--------------------------- MODULE RolloutRecorder --------------------------
(***************************************************************************)
(* The writer of one thread's rollout file (codex-rs/rollout): commands in *)
(* a bounded channel, a task that writes them line by line and retries,    *)
(* I/O that fails with part of a line written, crashes, and resumption     *)
(* from the file.  The history mode is paginated: lines carry ordinals.    *)
(* The thread inherits nothing: one with a history base counts from there, *)
(* and a subagent's file is refused while its prefix is incomplete.        *)
(***************************************************************************)
EXTENDS Naturals, Sequences, FiniteSets

CONSTANTS
  Capacity,    \* of the command channel (256 in the code)
  MaxItems,    \* bound: items recorded
  MaxBarriers, \* bound: persist, flush and shutdown calls
  MaxFaults,   \* bound: failing I/O operations
  MaxStarts    \* bound: crashes, resumptions and appends to the closed file

ASSUME BoundsAssumption ==
  /\ Capacity \in Nat \ {0}
  /\ {MaxItems, MaxBarriers, MaxFaults, MaxStarts} \subseteq Nat

VARIABLES
  alive,     \* is there a recorder with a writer task?
  queue,     \* the command channel
  job,       \* the command being executed
  attempt,   \* of write_pending_with_recovery: 1 or 2, 0 when nothing is written
  handle,    \* RolloutWriterState::writer is Some
  deferred,  \* deferred_creation
  meta,      \* the session metadata is still to be written
  pending,   \* pending_items
  next,      \* the next ordinal
  file,      \* the lines of the file
  newline,   \* does the file end with a newline (or is it empty)?
  torn,      \* history: the lines left without a newline by a failed write
  accepted, lost, promised,    \* history, as in RolloutLog
  barriers, faults, starts     \* how much of the bounds is used

writerVars == <<job, attempt, handle, deferred, meta, pending, next>>
fileVars == <<file, newline, torn>>
logHistory == <<accepted, lost, promised>>
boundVars == <<barriers, faults, starts>>
vars == <<alive, queue, writerVars, fileVars, logHistory, boundVars>>

Barriers == {"persist", "flush", "shutdown"}
NoJob == [op |-> "none", upto |-> 0]
\* upto: the item added, or the items recorded before a barrier.
Commands == [op : Barriers \cup {"add"}, upto : 0..MaxItems]
\* Item 0 is the session metadata; a line that is not whole does not parse.
Lines == [item : 0..MaxItems, ordinal : Nat, whole : BOOLEAN]

TypeOK ==
  /\ alive \in BOOLEAN
  /\ queue \in Seq(Commands) /\ Len(queue) <= Capacity
  /\ job \in Commands \cup {NoJob, [op |-> "stop", upto |-> 0]}
  /\ attempt \in 0..2
  /\ handle \in BOOLEAN /\ deferred \in BOOLEAN /\ meta \in BOOLEAN /\ newline \in BOOLEAN
  /\ pending \in Seq(1..MaxItems)
  /\ next \in Nat
  /\ file \in Seq(Lines) /\ torn \subseteq 1..Len(file)
  /\ accepted \in 0..MaxItems
  /\ lost \subseteq 1..MaxItems /\ promised \subseteq 1..MaxItems
  /\ barriers \in 0..MaxBarriers /\ faults \in 0..MaxFaults /\ starts \in 0..MaxStarts

\* A new thread.
Init ==
  /\ alive = TRUE
  /\ queue = <<>> /\ job = NoJob /\ attempt = 0
  /\ handle = FALSE /\ deferred = TRUE /\ meta = TRUE
  /\ pending = <<>> /\ next = 0
  /\ file = <<>> /\ newline = TRUE /\ torn = {}
  /\ accepted = 0 /\ lost = {} /\ promised = {}
  /\ barriers = 0 /\ faults = 0 /\ starts = 0

-----------------------------------------------------------------------------
(* The callers                                                             *)

\* Mutant of Send: the channel is unbounded.
SendAlways(cmd) == alive /\ queue' = Append(queue, cmd)
\* A full channel makes the caller wait; a closed one is an error to it.
Send(cmd) == alive /\ Len(queue) < Capacity /\ queue' = Append(queue, cmd)

RecordItems ==
  /\ accepted < MaxItems
  /\ accepted' = accepted + 1
  /\ Send([op |-> "add", upto |-> accepted'])
  /\ UNCHANGED <<alive, writerVars, fileVars, lost, promised, boundVars>>

CallBarrier(op) ==
  /\ barriers < MaxBarriers
  /\ barriers' = barriers + 1
  /\ Send([op |-> op, upto |-> accepted])
  /\ UNCHANGED <<alive, writerVars, fileVars, logHistory, faults, starts>>

-----------------------------------------------------------------------------
(* rollout_writer                                                          *)

IsDeferred == ~handle /\ deferred
Busy == attempt > 0

\* The end of a command: a barrier is answered with Ok, shutdown ends the loop.
AnswerOk(cmd) ==
  /\ job' = IF cmd.op = "shutdown" THEN [op |-> "stop", upto |-> 0] ELSE NoJob
  /\ promised' = IF cmd.op \in Barriers THEN promised \cup (1..cmd.upto \ lost) ELSE promised

\* A command with nothing to write: an item of a thread that is not
\* materialized is buffered, and there a flush or a shutdown of nothing is Ok.
ReceiveOnly ==
  /\ alive /\ job = NoJob /\ queue # <<>>
  /\ LET cmd == Head(queue)
     IN /\ IsDeferred
        /\ \/ cmd.op = "add" /\ pending' = Append(pending, cmd.upto)
           \/ cmd.op \in {"flush", "shutdown"} /\ pending = <<>> /\ UNCHANGED pending
        /\ AnswerOk(cmd)
  /\ queue' = Tail(queue)
  /\ UNCHANGED <<alive, attempt, handle, deferred, meta, next, fileVars, accepted, lost,
                 boundVars>>

\* A command that leads to write_pending_with_recovery.
ReceiveAndWrite ==
  /\ alive /\ job = NoJob /\ queue # <<>>
  /\ LET cmd == Head(queue)
     IN /\ \/ cmd.op = "persist"
           \/ cmd.op = "add" /\ ~IsDeferred
           \/ cmd.op \in {"flush", "shutdown"} /\ ~(IsDeferred /\ pending = <<>>)
        /\ pending' = IF cmd.op = "add" THEN Append(pending, cmd.upto) ELSE pending
        /\ job' = cmd
  /\ attempt' = 1
  /\ queue' = Tail(queue)
  /\ UNCHANGED <<alive, handle, deferred, meta, next, fileVars, logHistory, boundVars>>

\* Mutant of OpenFile: the tail of a failed write is not closed by a newline.
OpenFileAsIs ==
  /\ Busy /\ ~handle
  /\ handle' = TRUE
  /\ deferred' = FALSE
  /\ UNCHANGED <<alive, queue, job, attempt, meta, pending, next, fileVars, logHistory, boundVars>>

\* ensure_writer_open.  The file is created if need be, and newline-terminated.
OpenFile ==
  /\ Busy /\ ~handle
  /\ handle' = TRUE
  /\ deferred' = FALSE
  /\ newline' = TRUE
  /\ UNCHANGED <<alive, queue, job, attempt, meta, pending, next, file, torn, logHistory,
                 boundVars>>

HasLine == Busy /\ handle /\ (meta \/ pending # <<>>)
NextLine == [item |-> IF meta THEN 0 ELSE Head(pending), ordinal |-> next, whole |-> TRUE]
\* Bytes written behind an unterminated line become part of it.
Written(line) ==
  IF newline THEN Append(file, line)
  ELSE [file EXCEPT ![Len(file)].whole = FALSE]

\* The metadata first, then the pending items, each removed once written.
WriteLine ==
  /\ HasLine
  /\ file' = Written(NextLine)
  /\ newline' = TRUE
  /\ next' = next + 1
  /\ meta' = FALSE
  /\ pending' = IF meta THEN pending ELSE Tail(pending)
  /\ UNCHANGED <<alive, queue, job, attempt, handle, deferred, torn, logHistory, boundVars>>

\* Mutant of Fail: the error of the second attempt is not sent to the caller.
FailSilently ==
  /\ faults < MaxFaults
  /\ faults' = faults + 1
  /\ handle' = FALSE
  /\ attempt' = IF attempt = 1 THEN 2 ELSE 0
  /\ UNCHANGED job
\* enter_recovery_mode: the handle is dropped; after the second failure the
\* caller gets the error and the buffered items stay for the next barrier.
Fail ==
  /\ faults < MaxFaults
  /\ faults' = faults + 1
  /\ handle' = FALSE
  /\ attempt' = IF attempt = 1 THEN 2 ELSE 0
  /\ job' = IF attempt = 1 THEN job ELSE NoJob

\* Opening the file fails, or the flush when every line has been written.
OpenOrFlushFails ==
  /\ Busy
  /\ ~handle \/ (~meta /\ pending = <<>>)
  /\ Fail
  /\ UNCHANGED <<alive, queue, deferred, meta, pending, next, fileVars, logHistory,
                 barriers, starts>>

\* Mutant of WriteFails: the ordinal is used up by the failed write.
WriteFailsAdvances(left) ==
  /\ HasLine
  /\ Fail
  /\ next' = next + 1
  /\ \/ left = "nothing" /\ UNCHANGED fileVars
     \/ /\ left # "nothing"
        /\ file' = Written([NextLine EXCEPT !.whole = left = "allButNewline"])
        /\ newline' = FALSE
        /\ torn' = torn \cup {Len(file')}
  /\ UNCHANGED <<alive, queue, deferred, meta, pending, logHistory, barriers, starts>>

\* write_line fails and leaves nothing, a fragment, or all but the newline.
WriteFails(left) ==
  /\ HasLine
  /\ Fail
  /\ \/ left = "nothing" /\ UNCHANGED fileVars
     \/ /\ left # "nothing"
        /\ file' = Written([NextLine EXCEPT !.whole = left = "allButNewline"])
        /\ newline' = FALSE
        /\ torn' = torn \cup {Len(file')}
  /\ UNCHANGED <<alive, queue, deferred, meta, pending, next, logHistory, barriers, starts>>

Complete ==
  /\ Busy /\ handle /\ ~meta /\ pending = <<>>
  /\ AnswerOk(job)
  /\ attempt' = 0
  /\ UNCHANGED <<alive, queue, handle, deferred, meta, pending, next, fileVars, accepted,
                 lost, boundVars>>

-----------------------------------------------------------------------------
(* The end of the writer, and what can be done with the file afterwards    *)

\* The lines that parse, by their place in the file, and their items.
Whole == {i \in 1..Len(file) : file[i].whole}
InFile == {file[i].item : i \in Whole}

\* The task is gone: with the channel go the commands in it, and the buffer.
Gone ==
  /\ alive' = FALSE
  /\ queue' = <<>> /\ job' = NoJob /\ attempt' = 0
  /\ handle' = FALSE /\ pending' = <<>>
  /\ lost' = (1..accepted) \ InFile
  /\ UNCHANGED <<deferred, meta, next, fileVars, accepted, promised, barriers, faults>>

Stop == job.op = "stop" /\ Gone /\ UNCHANGED starts
Crash == alive /\ starts < MaxStarts /\ starts' = starts + 1 /\ Gone

\* open_rollout_for_append, for a file load_rollout_items found a thread in:
\* the tail is closed, the first line must be the metadata, and the ordinals go
\* on behind the last line that parses.
Opens ==
  /\ ~alive
  /\ starts < MaxStarts
  /\ 0 \in InFile
  /\ file[1].whole /\ file[1].item = 0
  /\ starts' = starts + 1

LastOrdinal == file[CHOOSE i \in Whole : \A j \in Whole : j <= i].ordinal

\* RolloutRecorder::new with Resume.
Resume ==
  /\ Opens
  /\ alive' = TRUE
  /\ handle' = TRUE /\ deferred' = FALSE /\ meta' = FALSE
  /\ next' = LastOrdinal + 1
  /\ newline' = TRUE
  /\ UNCHANGED <<queue, job, attempt, pending, file, torn, logHistory, barriers, faults>>

\* append_rollout_item_to_path: new metadata for a thread that is not loaded,
\* one line with no second attempt.
AppendMetadata(left) ==
  /\ Opens
  /\ left # "all" => faults < MaxFaults
  /\ faults' = IF left = "all" THEN faults ELSE faults + 1
  /\ file' = IF left = "nothing" THEN file
             ELSE Append(file, [item |-> 0, ordinal |-> LastOrdinal + 1,
                                whole |-> left # "fragment"])
  /\ newline' = (left \in {"all", "nothing"})
  /\ torn' = IF newline' THEN torn ELSE torn \cup {Len(file')}
  /\ UNCHANGED <<alive, queue, writerVars, logHistory, barriers>>

-----------------------------------------------------------------------------
Partial == {"nothing", "fragment", "allButNewline"}

Writer ==
  \/ ReceiveOnly \/ ReceiveAndWrite
  \/ OpenFile \/ OpenOrFlushFails
  \/ WriteLine \/ \E left \in Partial : WriteFails(left)
  \/ Complete
  \/ Stop

Next ==
  \/ RecordItems
  \/ \E op \in Barriers : CallBarrier(op)
  \/ Writer
  \/ Crash
  \/ Resume
  \/ \E left \in Partial \cup {"all"} : AppendMetadata(left)

Spec == Init /\ [][Next]_vars

\* The writer task is polled.  Callers need not call, and I/O need not fail.
FairSpec == Spec /\ WF_vars(Writer)

-----------------------------------------------------------------------------
(* Properties                                                              *)

\* What load_rollout_items returns: the items of the lines that parse, in order,
\* and the same item again for every line that repeats it.
Kept == {i \in Whole : file[i].item # 0}
Rank(i) == Cardinality({j \in Kept : j <= i})
Readable == [k \in 1..Cardinality(Kept) |-> file[CHOOSE i \in Kept : Rank(i) = k].item]

\* The last line with an item was left without its newline by a failed write.
Doubtful == \E i \in Kept \cap torn : \A j \in Kept : j <= i

\* However writes fail and tear, and wherever the process dies, the file is a log
\* as RolloutLog describes it: flush, persist and shutdown answer Ok only when
\* everything recorded before them can be read back, in order; a reader finds an
\* item twice only if its write was reported as failed.
Log == INSTANCE RolloutLog WITH log <- Readable, doubtful <- Doubtful
ImplementsLog == Log!Spec

\* Ordinals neither skip nor go back, over retries, resumptions and appends to
\* the closed file: two neighbours that parse are consecutive, unless the first
\* was left by a failed write short of its newline and the second is its retry;
\* and what a reader meets first is the metadata.
OrdinalsInOrder ==
  \A i \in Whole :
    \/ file[i].item = 0 /\ file[i].ordinal = 0 /\ \A j \in Whole : j >= i
    \/ \E j \in Whole :
         /\ j < i /\ \A k \in Whole : k <= j \/ k >= i
         /\ \/ file[i].ordinal = file[j].ordinal + 1
            \/ file[i] = file[j] /\ j \in torn

\* No caller waits for ever: the writer works off the channel although both
\* attempts of a write may fail, and after an error it goes on.
BarriersAnswered == queue # <<>> \/ Busy ~> queue = <<>> /\ ~Busy

-----------------------------------------------------------------------------
(* What docs and tests promise and the code does not keep                  *)

\* flush waits until the writes "are committed by the writer task", and Resume
\* "immediately opens the existing rollout file": a thread with committed items
\* can be resumed.
CommittedResumes == promised # {} => file[1].whole

\* catch_up_rejects_invalid_complete_suffixes lists "duplicate ordinal" among the
\* files that the history of a thread is not projected from.  The recorder
\* writes no such file.
OrdinalsDiffer == \A i, j \in Whole : file[i].ordinal = file[j].ordinal => i = j
=============================================================================
