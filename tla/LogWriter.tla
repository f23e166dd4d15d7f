-------------------------------- MODULE LogWriter --------------------------------
(***************************************************************************)
(* The process log (logging/mod.rs): AsyncWriter hands lines to a bounded  *)
(* channel and never blocks; the Logger service writes them to a buffered  *)
(* file, rotates it, falls back to stderr when the file fails, and drains  *)
(* the channel at shutdown.  Lines are numbered in the order in which the  *)
(* loggers produce them (env_logger serialises its writer); sizes count    *)
(* lines.                                                                  *)
(***************************************************************************)
EXTENDS Integers, FiniteSets, SequencesExt

CONSTANTS
  LogCapacity,      \* channel_capacity
  BufferLines,      \* lines that can be in the BufWriter and on their way to the disk
  MaxLogSize,       \* max_size_bytes, rotation "internal"
  MaxBackups,       \* max_backups
  LogBatch,         \* lines taken without going through the select (256)
  MaxExisting,      \* bound: files found at startup
  MaxLines          \* bound: lines logged

ASSUME LogAssumption ==
  /\ {LogCapacity, MaxLogSize, BufferLines} \subseteq Nat \ {0}
  /\ {MaxBackups, LogBatch, MaxExisting, MaxLines} \subseteq Nat

VARIABLES
  produced,         \* lines logged so far
  refused,          \* a line the channel did not take and that was not yet dealt with
  logQueue, logClosed, logStopped,
  logger,           \* the service: where it is, lines left of its batch
  logFile,          \* file_writer: is there one, its buffer, written_bytes
  files,            \* what is on disk: 0 is the path, i its backup i
  stderr,
  lost              \* history: the lines that are nowhere, by reason

logVars == <<produced, refused, logQueue, logClosed, logStopped, logger, logFile, files,
             stderr, lost>>

NoLine == 0
Absent == [there |-> FALSE, lines |-> <<>>]
FileWith(lines) == [there |-> TRUE, lines |-> lines]
NoFile == [open |-> FALSE, buffer |-> <<>>, written |-> 0]
Reasons == {"refused", "deadline", "buffered", "rotated"}

\* Index MaxBackups + 1 stands for the backups of an earlier, larger max_backups.
Indices == 0..(MaxBackups + 1)

LinesOnDisk(onDisk) == UNION {ToSet(onDisk[i].lines) : i \in Indices}

\* start_service: the files of an earlier run are numbered downwards from the
\* youngest.  An existing file counts from its length, from 0 when its metadata
\* cannot be read; without a file the lines go to stderr.
LogInit ==
  /\ produced = 0 /\ refused = NoLine
  /\ logQueue = <<>> /\ logClosed = FALSE
  /\ logger = [pc |-> "select", left |-> 0]
  /\ \E existing \in 0..MaxExisting :
       files = [i \in Indices |-> IF i < existing THEN FileWith(<<-(i + 1)>>)
                                  ELSE IF i = 0 THEN FileWith(<<>>) ELSE Absent]
  /\ \/ /\ \E length \in {0, Len(files[0].lines)} :
            logFile = [open |-> TRUE, buffer |-> <<>>, written |-> length]
        /\ logStopped = FALSE
     \/ /\ logFile = NoFile
        /\ logStopped = TRUE
  /\ stderr = {}
  /\ lost = [r \in Reasons |-> {}]

--------------------------------------------------------------------------------
(* AsyncWriter::write. *)

LineAccepted ==
  /\ produced < MaxLines /\ refused = NoLine
  /\ ~logClosed /\ Len(logQueue) < LogCapacity
  /\ produced' = produced + 1
  /\ logQueue' = Append(logQueue, produced + 1)
  /\ UNCHANGED <<refused, logClosed, logStopped, logger, logFile, files, stderr, lost>>

LineRefused ==
  /\ produced < MaxLines /\ refused = NoLine
  /\ logClosed \/ Len(logQueue) >= LogCapacity
  /\ produced' = produced + 1
  /\ refused' = produced + 1
  /\ UNCHANGED <<logQueue, logClosed, logStopped, logger, logFile, files, stderr, lost>>

\* Only now the flag is read.  A line refused after close and before the flag is
\* set is discarded, like one refused by a full channel.
RefusedLineSettled ==
  /\ refused # NoLine
  /\ refused' = NoLine
  /\ \/ /\ logStopped
        /\ stderr' = stderr \cup {refused} /\ UNCHANGED lost
     \/ /\ ~logStopped
        /\ lost' = [lost EXCEPT !["refused"] = @ \cup {refused}] /\ UNCHANGED stderr
  /\ UNCHANGED <<produced, logQueue, logClosed, logStopped, logger, logFile, files>>

--------------------------------------------------------------------------------
(* The file.  buffer holds the lines written to it and not yet known to be on  *)
(* disk: those in the BufWriter and those tokio's File writes in the           *)
(* background.  An error of that write is reported by a later call.            *)

Reached(n) ==
  [files EXCEPT ![0] = [there |-> files[0].there, lines |-> files[0].lines \o SubSeq(logFile.buffer, 1, n)]]

Pending(n) == SubSeq(logFile.buffer, n + 1, Len(logFile.buffer))

Flushed == Reached(Len(logFile.buffer))

\* A failing call: the first n lines got to disk, the others go with the handle.
FileFails ==
  \E n \in 0..(Len(logFile.buffer) - 1) :
    /\ files' = Reached(n)
    /\ lost' = [lost EXCEPT !["buffered"] = @ \cup ToSet(Pending(n))]
    /\ logFile' = NoFile

\* write_all.
WriteAll(line) ==
  /\ \E n \in 0..Len(logFile.buffer) :
       /\ Len(logFile.buffer) - n < BufferLines
       /\ files' = Reached(n)
       /\ logFile' = [logFile EXCEPT !.buffer = Append(Pending(n), line), !.written = @ + 1]
  /\ UNCHANGED <<stderr, lost, logStopped>>

\* Mutant of WriteFails: the line that could not be written is forgotten.
WriteFailsSilently(line) ==
  /\ FileFails
  /\ UNCHANGED stderr
  /\ logStopped' = TRUE

WriteFails(line) ==
  /\ FileFails
  /\ stderr' = stderr \cup {line}
  /\ logStopped' = TRUE

ToStderr(line) ==
  /\ stderr' = stderr \cup {line}
  /\ UNCHANGED <<logFile, files, lost, logStopped>>

\* rotate_log_file: the k-th rename moves this file to the next index.
RenameSource(k) == MaxBackups - k

\* The k-th step: a file is moved up, a missing one being no error; without backups
\* the file is removed.
Renamed(fs, k) ==
  LET from == RenameSource(k) IN
  IF MaxBackups = 0 THEN [fs EXCEPT ![0] = Absent]
  ELSE IF k > MaxBackups \/ ~fs[from].there THEN fs
  ELSE [fs EXCEPT ![from + 1] = fs[from], ![from] = Absent]

\* The files after k steps, the surplus backups being removed first.
Rotated ==
  LET after[k \in Indices] ==
        IF k = 0 THEN [Flushed EXCEPT ![MaxBackups + 1] = Absent] ELSE Renamed(after[k - 1], k)
  IN after

--------------------------------------------------------------------------------
(* Logger::start_service. *)

At(pc, left) == logger' = [pc |-> pc, left |-> left]

FlushTick ==
  /\ logger.pc = "select"
  /\ logFile.open /\ logFile.buffer # <<>>
  /\ \/ /\ files' = Flushed
        /\ logFile' = [logFile EXCEPT !.buffer = <<>>]
        /\ UNCHANGED <<logStopped, lost>>
     \/ FileFails /\ logStopped' = TRUE
  /\ UNCHANGED <<produced, refused, logQueue, logClosed, logger, stderr>>

MustRotate == logFile'.written >= MaxLogSize

\* A message received by the select.
ReceiveLine ==
  /\ logger.pc = "select" /\ logQueue # <<>>
  /\ logQueue' = Tail(logQueue)
  /\ \/ /\ logFile.open
        /\ WriteAll(Head(logQueue))
        /\ IF MustRotate THEN At("rotate", 0) ELSE At("batch", LogBatch)
     \/ /\ logFile.open
        /\ WriteFails(Head(logQueue))
        /\ At("batch", LogBatch)
     \/ /\ ~logFile.open
        /\ ToStderr(Head(logQueue))
        /\ At("batch", LogBatch)
  /\ UNCHANGED <<produced, refused, logClosed>>

\* The bounded batch after it, to the file or to stderr.
BatchLine ==
  /\ logger.pc = "batch" /\ logger.left > 0 /\ logQueue # <<>>
  /\ logQueue' = Tail(logQueue)
  /\ \/ logFile.open /\ WriteAll(Head(logQueue)) /\ At("batch", logger.left - 1)
     \/ logFile.open /\ WriteFails(Head(logQueue)) /\ At("batch", LogBatch)
     \/ ~logFile.open /\ ToStderr(Head(logQueue)) /\ At("batch", logger.left - 1)
  /\ UNCHANGED <<produced, refused, logClosed>>

BatchEnds ==
  /\ logger.pc = "batch"
  /\ logger.left = 0 \/ logQueue = <<>>
  /\ At("select", 0)
  /\ UNCHANGED <<produced, refused, logQueue, logClosed, logStopped, logFile, files, stderr, lost>>

\* The flush before a rotation fails.
RotateFlushFails ==
  /\ logger.pc = "rotate"
  /\ FileFails
  /\ logStopped' = TRUE
  /\ At("select", 0)
  /\ UNCHANGED <<produced, refused, logQueue, logClosed, stderr>>

\* Flush, close, rename and reopen; a removal, a rename or the opening may fail.
Rotate ==
  /\ logger.pc = "rotate"
  /\ At("batch", LogBatch)
  /\ \/ /\ files' = [Rotated[MaxBackups + 1] EXCEPT ![0] = FileWith(<<>>)]
        /\ logFile' = [open |-> TRUE, buffer |-> <<>>, written |-> 0]
        /\ UNCHANGED logStopped
     \/ /\ files' \in {Flushed} \cup {Rotated[k] : k \in Indices}
        /\ logFile' = NoFile
        /\ logStopped' = TRUE
  /\ lost' = [lost EXCEPT !["rotated"] = @ \cup (LinesOnDisk(Flushed) \ LinesOnDisk(files'))]
  /\ UNCHANGED <<produced, refused, logQueue, logClosed, stderr>>

\* The shutdown signal; the channel is closed, then the flag set.
LogCloses ==
  /\ logger.pc = "select"
  /\ logClosed' = TRUE
  /\ At("closed", 0)
  /\ UNCHANGED <<produced, refused, logQueue, logStopped, logFile, files, stderr, lost>>

LogMarksStopped ==
  /\ logger.pc = "closed"
  /\ logStopped' = TRUE
  /\ At("drain", 0)
  /\ UNCHANGED <<produced, refused, logQueue, logClosed, logFile, files, stderr, lost>>

DrainLine ==
  /\ logger.pc = "drain" /\ logQueue # <<>>
  /\ logQueue' = Tail(logQueue)
  /\ \/ logFile.open /\ (WriteAll(Head(logQueue)) \/ WriteFails(Head(logQueue)))
     \/ ~logFile.open /\ ToStderr(Head(logQueue))
  /\ UNCHANGED <<produced, refused, logClosed, logger>>

\* SHUTDOWN_DRAIN is over: the rest is counted and dropped.
DrainDeadline ==
  /\ logger.pc = "drain" /\ logQueue # <<>>
  /\ lost' = [lost EXCEPT !["deadline"] = @ \cup ToSet(logQueue)]
  /\ logQueue' = <<>>
  /\ At("flush", 0)
  /\ UNCHANGED <<produced, refused, logClosed, logStopped, logFile, files, stderr>>

DrainEnds ==
  /\ logger.pc = "drain" /\ logQueue = <<>>
  /\ At("flush", 0)
  /\ UNCHANGED <<produced, refused, logQueue, logClosed, logStopped, logFile, files, stderr, lost>>

FinalFlush ==
  /\ logger.pc = "flush"
  /\ At("done", 0)
  /\ \/ /\ files' = IF logFile.open THEN Flushed ELSE files
        /\ logFile' = NoFile
        /\ UNCHANGED lost
     \/ /\ logFile.open
        /\ FileFails
  /\ UNCHANGED <<produced, refused, logQueue, logClosed, logStopped, stderr>>

LogNext ==
  \/ LineAccepted \/ LineRefused \/ RefusedLineSettled
  \/ FlushTick \/ ReceiveLine \/ BatchLine \/ BatchEnds
  \/ RotateFlushFails \/ Rotate
  \/ LogCloses \/ LogMarksStopped \/ DrainLine \/ DrainDeadline \/ DrainEnds \/ FinalFlush

LogSpec == LogInit /\ [][LogNext]_logVars

--------------------------------------------------------------------------------
(* Properties. *)

PlaceNames == {"queue", "buffer", "disk", "stderr", "producer"} \cup Reasons
Places ==
  [p \in PlaceNames |->
     CASE p = "queue" -> ToSet(logQueue)
       [] p = "buffer" -> ToSet(logFile.buffer)
       [] p = "disk" -> LinesOnDisk(files)
       [] p = "stderr" -> stderr
       [] p = "producer" -> {refused} \ {NoLine}
       [] p \in Reasons -> lost[p]]

InOnePlace ==
  LET places == Places
  IN /\ \A line \in 1..produced : \E p \in PlaceNames : line \in places[p]
     /\ \A p \in PlaceNames : \A line \in places[p] : \A q \in PlaceNames \ {p} : line \notin places[q]

\* From the oldest backup to the file, and on into the buffer and the channel.
Ages == 0..(MaxBackups + 3)
LinesOfAge(k) ==
  IF k = MaxBackups + 3 THEN logQueue
  ELSE IF k = MaxBackups + 2 THEN logFile.buffer ELSE files[MaxBackups + 1 - k].lines

InLogOrder ==
  /\ \A k \in Ages : \A m \in DOMAIN LinesOfAge(k), l \in Ages : \A n \in DOMAIN LinesOfAge(l) :
       k < l \/ (k = l /\ m < n) => LinesOfAge(k)[m] < LinesOfAge(l)[n]
  /\ \A old \in lost["rotated"], k \in Ages : \A m \in DOMAIN LinesOfAge(k) : old < LinesOfAge(k)[m]

\* Every line logged is in exactly one place: the channel, the file, its backups,
\* stderr, or the lines lost for a known reason (refused by the channel, dropped at
\* the deadline, gone with a failed handle, rotated away).  The fallback to stderr, a
\* rotation and the shutdown neither duplicate a line nor make one vanish.  The lines
\* kept are in the order in which they were logged, and rotate_log_file only ever
\* gives up the oldest, also when it stopped half-way through its renames.  When the
\* service has ended no accepted line is left behind in the channel: it is closed
\* before it is drained.
LinesAccounted ==
  /\ InOnePlace
  /\ InLogOrder
  /\ logger.pc = "done" => logQueue = <<>>
================================================================================
