---------------------------------- MODULE Log ----------------------------------
(***************************************************************************)
(* public/log.c: the threads of a program trace lines into one file, which *)
(* is renamed to a name with the second of the day and begun anew when it  *)
(* has too many lines.  The handle and the counter are also read outside   *)
(* the lock.                                                               *)
(***************************************************************************)
EXTENDS Integers, FiniteSets, SequencesExt

CONSTANTS
  Writers,       \* threads that trace
  MaxFileLines,  \* MAX_FILE_LINES
  MaxLines,      \* bound: lines traced in all
  Seconds,       \* bound: 0 .. Seconds is the time
  MaxLogFaults   \* bound: failing rename and fopen

NobodyLogs == "none"

ASSUME LogAssumption ==
  /\ IsFiniteSet(Writers) /\ NobodyLogs \notin Writers
  /\ {MaxFileLines, MaxLines, Seconds, MaxLogFaults} \subseteq Nat

VARIABLES log

\* The log of the running program, its file and the renamed ones by their second.
\* traced counts the lines, which are their numbers; doubled is for the property.
NewLog ==
  [hnd |-> TRUE, total_lines |-> 0, lock |-> NobodyLogs, up |-> TRUE,
   at |-> [w \in Writers |-> "idle"], cur |-> <<>>, bak |-> [s \in 0 .. Seconds |-> <<>>],
   renamed |-> {}, now |-> 0, traced |-> 0, doubled |-> FALSE, faults |-> 0]

Step(w, at) == [log EXCEPT !.at[w] = at]

\* log_trace: a line is dropped when the file is not open, also while another
\* thread renames it; disk_hnd is read before the lock is taken.
TraceCall(w) ==
  /\ log.up /\ log.at[w] = "idle" /\ log.hnd /\ log.traced < MaxLines
  /\ log' = Step(w, "append")

\* Under the lock the line is written and counted, if the file is still open.
AppendLine(w) ==
  /\ log.at[w] = "append" /\ log.lock = NobodyLogs
  /\ log' = IF log.hnd
            THEN [Step(w, "check") EXCEPT !.cur = Append(@, log.traced + 1),
                    !.total_lines = @ + 1, !.traced = @ + 1]
            ELSE Step(w, "check")

\* Bug: the file is renamed only by the writer of the one line that is too many.
CheckLinesEqual(w) ==
  /\ log.at[w] = "check"
  /\ log' = Step(w, IF log.total_lines = MaxFileLines + 1 THEN "backup" ELSE "idle")

\* total_lines is read after the unlock.
CheckLines(w) ==
  /\ log.at[w] = "check"
  /\ log' = Step(w, IF log.total_lines > MaxFileLines THEN "backup" ELSE "idle")

\* unlink the file of that name, rename: l is the log, ok says whether rename works.
RenameFile(l, ok) ==
  [l EXCEPT !.bak[l.now] = IF ok THEN l.cur ELSE <<>>,
            !.cur = IF ok THEN <<>> ELSE @,
            !.renamed = @ \cup {l.now}, !.doubled = @ \/ l.now \in l.renamed,
            !.faults = IF ok THEN @ ELSE @ + 1]

\* Bug: the file is renamed after the new one was opened under its name.
BackupLate(w) ==
  /\ log.at[w] = "backup" /\ log.lock = NobodyLogs
  /\ log' = [RenameFile([Step(w, "reopen") EXCEPT !.cur = <<>>], TRUE) EXCEPT
               !.lock = w, !.hnd = FALSE]

\* backup_log up to the rename, under the lock.  It does not look at
\* total_lines again: another writer may just have renamed the file.
Backup(w) ==
  /\ log.at[w] = "backup" /\ log.lock = NobodyLogs
  /\ \E ok \in BOOLEAN :
       /\ ok \/ log.faults < MaxLogFaults
       /\ log' = [RenameFile(Step(w, "reopen"), ok) EXCEPT !.lock = w, !.hnd = FALSE]

\* open_log empties what is there; without it nothing is traced any more.
Reopen(w) ==
  /\ log.at[w] = "reopen"
  /\ \E ok \in BOOLEAN :
       /\ ok \/ log.faults < MaxLogFaults
       /\ log' = [Step(w, "idle") EXCEPT !.hnd = ok, !.cur = IF ok THEN <<>> ELSE @,
                    !.total_lines = 0, !.lock = NobodyLogs,
                    !.faults = IF ok THEN @ ELSE @ + 1]

\* LOG_SYSTEM_EXIT, when no thread traces.
log_close ==
  /\ log.up /\ \A w \in Writers : log.at[w] = "idle"
  /\ log' = [log EXCEPT !.hnd = FALSE, !.up = FALSE]

\* LOG_SYSTEM_INIT: the file of the run before is renamed as well.  When the new
\* one cannot be opened there is no log, and another program may try again.
log_open ==
  /\ ~log.up
  /\ \E renamed, opened \in BOOLEAN :
       /\ (renamed /\ opened) \/ log.faults < MaxLogFaults
       /\ log' = [RenameFile(log, renamed) EXCEPT
                    !.hnd = opened, !.up = opened, !.total_lines = 0,
                    !.cur = IF opened THEN <<>> ELSE @,
                    !.faults = IF opened THEN @ ELSE @ + 1]

Tick == log.now < Seconds /\ log' = [log EXCEPT !.now = @ + 1]

LogInit == log = NewLog

LogNext ==
  \/ \E w \in Writers :
       TraceCall(w) \/ AppendLine(w) \/ CheckLines(w) \/ Backup(w) \/ Reopen(w)
  \/ log_close \/ log_open \/ Tick
-------------------------------------------------------------------------------
\* All files in the order of their names, the open one last.
FileNames == 0 .. Seconds + 1

File(f) == IF f = Seconds + 1 THEN log.cur ELSE log.bak[f]

\* No line gets lost or out of order when writers rename the file while others
\* wait to write: unless two renames fall into one second (the second one
\* deletes the file of the first) or the rename itself fails.
LinesKept ==
  ~log.doubled /\ log.faults = 0 =>
    /\ \A n \in 1 .. log.traced : \E f \in FileNames : n \in ToSet(File(f))
    /\ \A f, g \in FileNames : \A i \in DOMAIN File(f), j \in DOMAIN File(g) :
         f < g \/ (f = g /\ i < j) => File(f)[i] < File(g)[j]

\* The file grows over its limit only by the lines of writers that are about to
\* look at the counter or to rename it: total_lines is never past a check that
\* no writer makes any more.
LogBounded ==
  log.hnd => /\ log.total_lines = Len(log.cur)
             /\ log.total_lines <= MaxFileLines
                  + Cardinality({w \in Writers : log.at[w] \in {"check", "backup"}})
================================================================================
