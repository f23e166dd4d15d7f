------------------------------- MODULE FileLogger -------------------------------
(***************************************************************************)
(* The file-logger plugin (plugins/file_logger.rs) across a hot reload.    *)
(* Each instance has a bounded queue and a writer thread of its own; all   *)
(* append to the same path.  A request pins the instance of its snapshot,  *)
(* collects body chunks, logs one line and lets go; whoever lets go last   *)
(* runs the destructor and joins the writer.  A body is the number of its  *)
(* bytes: what is kept is a prefix.                                        *)
(***************************************************************************)
EXTENDS Integers, FiniteSets, SequencesExt

CONSTANTS
  LogRequests,         \* requests
  ReloadedInstances,   \* instances are 1 .. ReloadedInstances
  LogQueueCapacity,    \* LOG_QUEUE_CAPACITY
  DrainBudget,         \* SHUTDOWN_DRAIN_BUDGET
  MaxBodyBytes,        \* max_req_body_bytes
  ChunkSizes,          \* sizes of a body chunk
  MaxSent              \* bound on the bytes of a body

ASSUME FileLoggerAssumption ==
  /\ {ReloadedInstances, LogQueueCapacity, DrainBudget, MaxBodyBytes} \subseteq Nat \ {0}
  /\ ChunkSizes \subseteq Nat
  /\ MaxSent \in Nat

VARIABLES
  current,       \* the instance of the published snapshot
  logging,       \* request -> [step, instance, sent, buffer]
  writers,       \* instance -> its FileLogWriter and thread
  logged,        \* the file: lines in the order of the writes
  fileLost       \* lines that were given up, by reason

fileLogVars == <<current, logging, writers, logged, fileLost>>

Instances == 1 .. ReloadedInstances
LossReasons == {"full", "failed", "abandoned"}

EmptyBuffer == [bytes |-> 0, exceeded |-> FALSE]
NotStarted == [step |-> "new", instance |-> 1, sent |-> 0, buffer |-> EmptyBuffer]

\* FileLogWriter::start.
StartedWriter ==
  [queue |-> <<>>, closing |-> FALSE, connected |-> TRUE, pc |-> "recv",
   hand |-> <<>>, closingSeen |-> FALSE, drained |-> 0, writesAfterClose |-> 0]

FileLogInit ==
  /\ current = 1
  /\ logging = [r \in LogRequests |-> NotStarted]
  /\ writers = [i \in Instances |-> StartedWriter]
  /\ logged = <<>>
  /\ fileLost = [reason \in LossReasons |-> {}]

Holders(i) == {r \in LogRequests : /\ logging[r].instance = i
                                   /\ logging[r].step \in {"body", "end"}}

----------------------------------------------------------------------------------
(* Requests *)

LogRequestStarts(r) ==
  /\ logging[r].step = "new"
  /\ logging' = [logging EXCEPT ![r] = [@ EXCEPT !.step = "body", !.instance = current]]
  /\ UNCHANGED <<current, writers, logged, fileLost>>

\* BodyBuffer::append.
BodyAppend(buffer, size) ==
  LET accepted == IF MaxBodyBytes - buffer.bytes < size THEN MaxBodyBytes - buffer.bytes ELSE size
  IN IF buffer.exceeded THEN buffer
     ELSE [bytes |-> buffer.bytes + accepted, exceeded |-> accepted < size]

LogBodyChunk(r, size) ==
  /\ logging[r].step = "body"
  /\ logging[r].sent + size <= MaxSent
  /\ logging' = [logging EXCEPT ![r].sent = @ + size, ![r].buffer = BodyAppend(@, size)]
  /\ UNCHANGED <<current, writers, logged, fileLost>>

\* The line render_json_entry makes of a request.
LineOf(r) ==
  [request |-> r, instance |-> logging[r].instance, body |-> logging[r].buffer.bytes,
   truncated |-> logging[r].buffer.exceeded]

\* logging, with write_line: never waits for the disk.
LogRequest(r) ==
  LET i == logging[r].instance IN
  /\ logging[r].step = "body"
  /\ logging' = [logging EXCEPT ![r].step = "end"]
  /\ \/ /\ Len(writers[i].queue) < LogQueueCapacity
        /\ writers' = [writers EXCEPT ![i].queue = Append(@, LineOf(r))]
        /\ UNCHANGED fileLost
     \/ /\ Len(writers[i].queue) >= LogQueueCapacity
        /\ fileLost' = [fileLost EXCEPT !["full"] = @ \cup {LineOf(r)}]
        /\ UNCHANGED writers
  /\ UNCHANGED <<current, logged>>

\* The context of a request is dropped.  The last holder of a replaced instance runs
\* Drop for FileLogWriter: the flag, then the sender, then the join.
Release(r) ==
  LET i == logging[r].instance
      last == i # current /\ Holders(i) = {r}
  IN /\ logging[r].step = "end"
     /\ logging' = [logging EXCEPT ![r].step = IF last THEN "drop" ELSE "done"]
     /\ writers' = IF last THEN [writers EXCEPT ![i].closing = TRUE] ELSE writers
     /\ UNCHANGED <<current, logged, fileLost>>

DropSender(r) ==
  /\ logging[r].step = "drop"
  /\ logging' = [logging EXCEPT ![r].step = "join"]
  /\ writers' = [writers EXCEPT ![logging[r].instance].connected = FALSE]
  /\ UNCHANGED <<current, logged, fileLost>>

JoinWriter(r) ==
  /\ logging[r].step = "join"
  /\ writers[logging[r].instance].pc = "done"
  /\ logging' = [logging EXCEPT ![r].step = "done"]
  /\ UNCHANGED <<current, writers, logged, fileLost>>

\* A reload publishes a snapshot with a new instance; without a request the old one
\* is dropped by the publisher itself.
Reload ==
  /\ current < ReloadedInstances
  /\ current' = current + 1
  /\ writers' = IF Holders(current) = {}
                THEN [writers EXCEPT ![current].closing = TRUE, ![current].connected = FALSE]
                ELSE writers
  /\ UNCHANGED <<logging, logged, fileLost>>

----------------------------------------------------------------------------------
(* run_writer *)

WriterReceives(i) ==
  LET w == writers[i] IN
  /\ w.pc = "recv" /\ w.queue # <<>>
  /\ writers' = [writers EXCEPT ![i] = [w EXCEPT !.queue = Tail(@), !.hand = <<Head(w.queue)>>,
                                                 !.pc = "write"]]
  /\ UNCHANGED <<current, logging, logged, fileLost>>

\* write_all on a file opened for appending; an error is reported and the line gone.
WriterWrites(i) ==
  LET w == writers[i] IN
  /\ w.pc = "write"
  /\ writers' = [writers EXCEPT ![i] = [w EXCEPT !.hand = <<>>, !.pc = "check",
                                          !.writesAfterClose = IF w.closing THEN @ + 1 ELSE @]]
  /\ \/ logged' = logged \o w.hand /\ UNCHANGED fileLost
     \/ /\ fileLost' = [fileLost EXCEPT !["failed"] = @ \cup ToSet(w.hand)]
        /\ UNCHANGED logged
  /\ UNCHANGED <<current, logging>>

\* Mutant of AfterWrite: the rest of the queue is not taken out.
AfterWriteLeaving(w) ==
  LET seen == w.closingSeen \/ w.closing
      drained == IF seen THEN w.drained + 1 ELSE w.drained
  IN [w EXCEPT !.closingSeen = seen, !.drained = drained,
               !.pc = IF seen /\ drained >= DrainBudget THEN "done" ELSE "recv"]

\* The flag is looked at after each line; past the budget the rest is abandoned.
AfterWrite(w) ==
  LET seen == w.closingSeen \/ w.closing
      drained == IF seen THEN w.drained + 1 ELSE w.drained
      over == seen /\ drained >= DrainBudget
  IN [w EXCEPT !.closingSeen = seen, !.drained = drained,
               !.pc = IF over THEN "done" ELSE "recv",
               !.queue = IF over THEN <<>> ELSE @]

WriterChecks(i) ==
  LET w == writers[i]
      after == AfterWrite(w)
  IN /\ w.pc = "check"
     /\ writers' = [writers EXCEPT ![i] = after]
     /\ fileLost' = [fileLost EXCEPT !["abandoned"] =
                       @ \cup (ToSet(w.queue) \ ToSet(after.queue))]
     /\ UNCHANGED <<current, logging, logged>>

WriterEnds(i) ==
  LET w == writers[i] IN
  /\ w.pc = "recv" /\ w.queue = <<>> /\ ~ w.connected
  /\ writers' = [writers EXCEPT ![i].pc = "done"]
  /\ UNCHANGED <<current, logging, logged, fileLost>>

FileLogNext ==
  \/ \E r \in LogRequests :
       \/ LogRequestStarts(r) \/ LogRequest(r) \/ Release(r) \/ DropSender(r) \/ JoinWriter(r)
       \/ \E size \in ChunkSizes : LogBodyChunk(r, size)
  \/ Reload
  \/ \E i \in Instances :
       WriterReceives(i) \/ WriterWrites(i) \/ WriterChecks(i) \/ WriterEnds(i)

FileLogSpec == FileLogInit /\ [][FileLogNext]_fileLogVars

----------------------------------------------------------------------------------
(* Properties *)

FilePlaces ==
  [queues |-> UNION {ToSet(writers[i].queue) : i \in Instances},
   hands |-> UNION {ToSet(writers[i].hand) : i \in Instances},
   file |-> ToSet(logged),
   full |-> fileLost["full"], failed |-> fileLost["failed"], abandoned |-> fileLost["abandoned"]]

\* A request that has logged has exactly one line, in one place: on its way, in the
\* file, or given up for a known reason; also when the instance is replaced under
\* it.  The line holds the first max_req_body_bytes of the body whatever its chunks
\* were, and is marked truncated exactly when there was more.  The destructor waits
\* for DrainBudget writes at most, gives lines up only after that many, and leaves
\* none behind in the queue when its join returns.
FileLogAccounted ==
  /\ \A r \in LogRequests : logging[r].step \notin {"new", "body"} =>
       /\ Cardinality({p \in DOMAIN FilePlaces : LineOf(r) \in FilePlaces[p]}) = 1
       /\ Cardinality({k \in DOMAIN logged : logged[k].request = r}) <= 1
       /\ LineOf(r).body = IF logging[r].sent < MaxBodyBytes THEN logging[r].sent ELSE MaxBodyBytes
       /\ LineOf(r).truncated = (logging[r].sent > MaxBodyBytes)
  /\ \A i \in Instances :
       /\ writers[i].writesAfterClose <= DrainBudget
       /\ (\E line \in fileLost["abandoned"] : line.instance = i)
            => writers[i].drained = DrainBudget
       /\ writers[i].pc = "done" => writers[i].queue = <<>>
================================================================================
