--------------------------- MODULE ConfigWatcher ---------------------------
(***************************************************************************)
(* src/src/config/hot-reload.ts: a change of the file arms a timer, the    *)
(* timer starts a handler, the handler reads the file, waits, and applies  *)
(* what may change at run time.  Handlers may overlap.  The file, its      *)
(* writer and the events of the file system are outside.                   *)
(***************************************************************************)
EXTENDS Integers, Sequences, SequencesExt

CONSTANTS
  Setting,     \* values of a part of the configuration
  MaxEdits     \* changes of the file

ASSUME WatcherAssumption == MaxEdits \in Nat

VARIABLES
  parser,      \* whether the caller gave a parseConfig, or the loader is used
  file,        \* the file: what may change, what needs a restart, well-formed
  config,      \* the running configuration
  edits,
  event,       \* a change the watcher has not been told of
  timer,       \* the debounce timer
  handlers,    \* the handlers running: the content each has read, if any
  overlapped,  \* whether two ever ran at once
  watching

watcherVars == <<parser, file, config, edits, event, timer, handlers, overlapped, watching>>

File == [safe : Setting, fixed : Setting, valid : BOOLEAN]
Unread == [safe |-> "unread", fixed |-> "unread", valid |-> FALSE]

WatcherInit ==
  /\ parser \in BOOLEAN
  /\ file \in {f \in File : f.valid /\ f.safe = f.fixed}
  /\ config = [safe |-> file.safe, fixed |-> file.fixed]
  /\ edits = 0 /\ event = FALSE /\ timer = FALSE /\ handlers = <<>>
  /\ overlapped = FALSE /\ watching = TRUE

Edit(f) ==
  /\ edits < MaxEdits /\ f # file
  /\ file' = f /\ edits' = edits + 1 /\ event' = TRUE
  /\ UNCHANGED <<parser, config, timer, handlers, overlapped, watching>>

(* The watcher's callback: the timer starts again.                         *)
NoticeUnlessBusy ==
  /\ event /\ watching
  /\ event' = FALSE /\ timer' = (handlers = <<>>)
  /\ UNCHANGED <<parser, file, config, edits, handlers, overlapped, watching>>

Notice ==
  /\ event /\ watching
  /\ event' = FALSE /\ timer' = TRUE
  /\ UNCHANGED <<parser, file, config, edits, handlers, overlapped, watching>>

HandleChange ==
  /\ timer
  /\ timer' = FALSE
  /\ handlers' = Append(handlers, Unread)
  /\ overlapped' = (overlapped \/ handlers # <<>>)
  /\ UNCHANGED <<parser, file, config, edits, event, watching>>

(* readFile takes the content at some moment.                              *)
Read(i) ==
  /\ i \in DOMAIN handlers /\ handlers[i] = Unread
  /\ handlers' = [handlers EXCEPT ![i] = file]
  /\ UNCHANGED <<parser, file, config, edits, event, timer, overlapped, watching>>

(* diffConfig and the merge: of what differs, the safe fields.             *)
Merged(new) == [config EXCEPT !.safe = new.safe]

(* The handler goes on with what it read, or, with the loader, with what   *)
(* the file holds by now; a file it cannot use changes nothing.            *)
Apply(i) ==
  /\ i \in DOMAIN handlers /\ handlers[i] # Unread
  /\ LET new == IF parser THEN handlers[i] ELSE file
     IN  config' = IF handlers[i].valid /\ new.valid THEN Merged(new) ELSE config
  /\ handlers' = RemoveAt(handlers, i)
  /\ UNCHANGED <<parser, file, edits, event, timer, overlapped, watching>>

StopWatching ==
  /\ watching
  /\ watching' = FALSE /\ timer' = FALSE
  /\ UNCHANGED <<parser, file, config, edits, event, handlers, overlapped>>

WatcherNext ==
  \/ \E f \in File : Edit(f)
  \/ Notice
  \/ HandleChange
  \/ \E i \in 1 .. MaxEdits : Read(i) \/ Apply(i)
  \/ StopWatching

(* Events are delivered, timers fire, files can be read.                   *)
WatcherFairness ==
  /\ WF_watcherVars(Notice)
  /\ WF_watcherVars(HandleChange)
  /\ \A i \in 1 .. MaxEdits : WF_watcherVars(Read(i) \/ Apply(i))

(***************************************************************************)
(* Properties.                                                             *)
(***************************************************************************)

(* Once the file is left alone, valid and watched, the running             *)
(* configuration has its settings: an edit during a read or between a      *)
(* handler's awaits is not lost.  With a parseConfig this needs handlers   *)
(* that do not overlap: the later one may have read first                  *)
(* (hot-reload.ts:85 to 130).                                              *)
SettlesOnFile ==
  <>[](watching /\ file.valid /\ (parser => ~overlapped) => config.safe = file.safe)
=============================================================================
