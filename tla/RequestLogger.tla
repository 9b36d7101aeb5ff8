--------------------------- MODULE RequestLogger ---------------------------
(***************************************************************************)
(* src/src/logging/request-log.ts: entries queue up and are flushed to the *)
(* store in batches, by a timer, by the entry that fills the queue and by  *)
(* close().  A flush takes the queue and writes it entry by entry, with an *)
(* await each, so flushes overlap with each other and with new entries.    *)
(***************************************************************************)
EXTENDS Integers, SequencesExt

CONSTANTS
  Entry,        \* requests to log
  QueueLimit    \* entries that make logRequest flush (100 in the code)

ASSUME LoggerAssumption ==
  /\ IsFiniteSet(Entry)
  /\ QueueLimit \in Nat \ {0}

VARIABLES
  asyncWrite,   \* whether entries are queued
  writeQueue,
  flights,      \* what each flush, or direct write, has still to write
  written,      \* what the store was given, in order
  failed,       \* entries of a batch given up
  interval      \* whether the timer runs

loggerVars == <<asyncWrite, writeQueue, flights, written, failed, interval>>

InFlight == UNION {ToSet(flights[i]) : i \in DOMAIN flights}
Logged == ToSet(writeQueue) \cup InFlight \cup ToSet(written) \cup failed

LoggerInit ==
  /\ asyncWrite \in BOOLEAN
  /\ interval = asyncWrite
  /\ writeQueue = <<>> /\ flights = <<>> /\ written = <<>> /\ failed = {}

(* splice(0): the flush takes all there is and leaves the queue empty.     *)
FlushKeepsQueue(queue) ==
  /\ writeQueue' = queue
  /\ flights' = IF queue = <<>> THEN flights ELSE Append(flights, queue)

Flush(queue) ==
  /\ writeQueue' = <<>>
  /\ flights' = IF queue = <<>> THEN flights ELSE Append(flights, queue)

LogRequest(e) ==
  /\ e \notin Logged
  /\ IF ~asyncWrite
     THEN /\ flights' = Append(flights, <<e>>)
          /\ UNCHANGED writeQueue
     ELSE IF Len(writeQueue) + 1 >= QueueLimit
     THEN Flush(Append(writeQueue, e))
     ELSE /\ writeQueue' = Append(writeQueue, e)
          /\ UNCHANGED flights
  /\ UNCHANGED <<asyncWrite, written, failed, interval>>

FlushTick ==
  /\ interval
  /\ Flush(writeQueue)
  /\ UNCHANGED <<asyncWrite, written, failed, interval>>

(* writeEntry: a flush goes on to its next entry; a flush whose store      *)
(* fails gives up on the rest.                                             *)
GivesUp(i) ==
  /\ failed' = failed \cup ToSet(flights[i])
  /\ flights' = RemoveAt(flights, i)

WriteEntry(i) ==
  /\ i \in DOMAIN flights
  /\ \/ /\ written' = Append(written, Head(flights[i]))
        /\ flights' = IF Len(flights[i]) = 1 THEN RemoveAt(flights, i)
                      ELSE [flights EXCEPT ![i] = Tail(@)]
        /\ UNCHANGED failed
     \/ /\ GivesUp(i)
        /\ UNCHANGED written
  /\ UNCHANGED <<asyncWrite, writeQueue, interval>>

CloseWithoutFlush ==
  /\ interval' = FALSE
  /\ UNCHANGED <<asyncWrite, writeQueue, flights, written, failed>>

CloseLogger ==
  /\ interval' = FALSE
  /\ Flush(writeQueue)
  /\ UNCHANGED <<asyncWrite, written, failed>>

LoggerNext ==
  \/ \E e \in Entry : LogRequest(e)
  \/ FlushTick
  \/ \E i \in 1 .. Cardinality(Entry) : WriteEntry(i)
  \/ CloseLogger

(* The timer goes off until it is cleared, and the store answers.          *)
LoggerFairness ==
  /\ WF_loggerVars(FlushTick)
  /\ \A i \in 1 .. Cardinality(Entry) : WF_loggerVars(WriteEntry(i))

LoggerSpec == LoggerInit /\ [][LoggerNext]_loggerVars

(***************************************************************************)
(* Properties.                                                             *)
(***************************************************************************)

(* However flushes overlap, an entry is in one place: queued, on its way,  *)
(* written or given up, and never there twice (request-log.ts:65 to 74).   *)
EachEntryOnce ==
  /\ IsInjective(writeQueue) /\ IsInjective(written)
  /\ \A i \in DOMAIN flights : IsInjective(flights[i])
  /\ \A i, j \in DOMAIN flights :
       i # j => ToSet(flights[i]) \cap ToSet(flights[j]) = {}
  /\ ToSet(writeQueue) \cap (InFlight \cup ToSet(written) \cup failed) = {}
  /\ InFlight \cap (ToSet(written) \cup failed) = {}
  /\ ToSet(written) \cap failed = {}

(* An entry queued while the timer runs, or on its way, is written or given*)
(* up in the end: a close in between flushes it (request-log.ts:126).      *)
EntriesSettle ==
  \A e \in Entry :
    (interval /\ e \in ToSet(writeQueue)) \/ e \in InFlight
      ~> e \in ToSet(written) \cup failed
=============================================================================
