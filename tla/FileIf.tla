-------------------------------- MODULE FileIf --------------------------------
(***************************************************************************)
(* public/file_if.c: one file that several threads read and write at       *)
(* positions of their own, through one stdio stream and one lock.  The C   *)
(* library keeps written data in memory until it is flushed; a position    *)
(* holds one cell, the unit the callers write.                             *)
(***************************************************************************)
EXTENDS Integers, Sequences

CONSTANTS
  FileProcs,      \* threads
  FileOffs,       \* positions
  FileVals,       \* cells they write
  MaxFileFaults   \* bound: failing calls of the operating system

NoOne == "none"

ASSUME FileAssumption ==
  NoOne \notin FileProcs /\ FileOffs \subseteq Nat /\ MaxFileFaults \in Nat

VARIABLES file, replied

TornCell == 99                       \* a cell of which a part was written
Idle == [at |-> "idle", op |-> "none", off |-> 0, val |-> 0]

\* The stream: data of the file, pending writes, position, lock, threads.
NewFile ==
  [disk |-> <<>>, pend |-> <<>>, pos |-> 0, open |-> TRUE, lock |-> NoOne,
   th |-> [p \in FileProcs |-> Idle], faults |-> 0]

\* A write to the file behind the stream, with a hole where nothing was written.
Put(d, w) ==
  [i \in 1 .. IF Len(d) > w.off THEN Len(d) ELSE w.off + 1 |->
     IF i = w.off + 1 THEN w.val ELSE IF i <= Len(d) THEN d[i] ELSE 0]

Flushed(f) ==
  LET upto[i \in 0 .. Len(f.pend)] ==
        IF i = 0 THEN f.disk ELSE Put(upto[i - 1], f.pend[i])
  IN  upto[Len(f.pend)]

Go(f, p, at) == [f EXCEPT !.th[p].at = at]

\* What the last call returned, with the cell or size for its caller.
Answer(p, r, v) ==
  replied' = [call |-> <<file.th[p].op, file.th[p].off>>, ret |-> r, val |-> v]

Quiet == [call |-> <<"none", 0>>, ret |-> "none", val |-> 0]

\* os_file_pwrite, os_file_pread, os_file_get_size: rwlock is taken for writing,
\* also by a reader, as it moves the position.
Call(p, op, off, val) ==
  /\ file.open /\ file.th[p] = Idle /\ file.lock = NoOne
  /\ file' = [file EXCEPT !.lock = p,
                !.th[p] = [at |-> "seek", op |-> op, off |-> off, val |-> val]]
  /\ UNCHANGED replied

SeekTo(p) == IF file.th[p].op = "size" THEN Len(Flushed(file)) ELSE file.th[p].off

\* Bug: a stream that stands at the position already is not moved.
SeekLazy(p) ==
  /\ file.th[p].at = "seek"
  /\ file' = [Go(file, p, "io") EXCEPT
                !.disk = IF file.pos = SeekTo(p) THEN @ ELSE Flushed(file),
                !.pend = IF file.pos = SeekTo(p) THEN @ ELSE <<>>, !.pos = SeekTo(p)]
  /\ UNCHANGED replied

\* os_file_seek: fseeko flushes what is pending before it moves.
Seek(p) ==
  /\ file.th[p].at = "seek"
  /\ file' = [Go(file, p, "io") EXCEPT
                !.disk = Flushed(file), !.pend = <<>>, !.pos = SeekTo(p)]
  /\ UNCHANGED replied

\* The flush fails: -FILE_IO_ERR_SEEK for this caller, whoever wrote the data
\* that is kept in memory or dropped.
SeekFails(p) ==
  /\ file.th[p].at = "seek" /\ file.faults < MaxFileFaults
  /\ \E rest \in {file.pend, <<>>} :
       file' = [Go(file, p, "unlock") EXCEPT !.pend = rest, !.faults = @ + 1]
  /\ Answer(p, "error", 0)

\* os_file_write: fwrite leaves the data in memory (no fflush).
WriteHere(p, val) ==
  [Go(file, p, "unlock") EXCEPT
     !.pend = Append(@, [off |-> file.pos, val |-> val]), !.pos = @ + 1]

Write(p) ==
  /\ file.th[p].at = "io" /\ file.th[p].op = "write"
  /\ file' = WriteHere(p, file.th[p].val)
  /\ Answer(p, "ok", 0)

\* A short count: the cell was taken in part, or wholly and not written.
WriteFails(p) ==
  /\ file.th[p].at = "io" /\ file.th[p].op = "write" /\ file.faults < MaxFileFaults
  /\ \E v \in {file.th[p].val, TornCell} :
       file' = [WriteHere(p, v) EXCEPT !.faults = @ + 1]
  /\ Answer(p, "error", 0)

Read(p) ==
  /\ file.th[p].at = "io" /\ file.th[p].op = "read"
  /\ IF file.pos < Len(file.disk)
     THEN /\ Answer(p, "ok", file.disk[file.pos + 1])
          /\ file' = [Go(file, p, "unlock") EXCEPT !.pos = @ + 1]
     ELSE Answer(p, "eof", 0) /\ file' = Go(file, p, "unlock")

\* ftell at the end of the file.
Tell(p) ==
  /\ file.th[p].at = "io" /\ file.th[p].op = "size"
  /\ file' = Go(file, p, "unlock")
  /\ Answer(p, "ok", file.pos)

Unlock(p) ==
  /\ file.th[p].at = "unlock"
  /\ file' = [file EXCEPT !.th[p] = Idle, !.lock = NoOne]
  /\ UNCHANGED replied

\* The C library writes pending data whenever its buffer is full: all of it,
\* or first the part that fills the buffer.
LibraryFlush ==
  /\ file.pend # <<>>
  /\ \/ file' = [file EXCEPT !.disk = Flushed(file), !.pend = <<>>]
     \/ file' = [file EXCEPT !.disk = Put(@, [Head(file.pend) EXCEPT !.val = TornCell])]
  /\ UNCHANGED replied

Closed(f, disk) == [f EXCEPT !.disk = disk, !.pend = <<>>, !.pos = 0, !.open = FALSE]

\* os_file_close: a failing fclose is ignored.
CloseFile ==
  /\ file.open /\ file.th = [p \in FileProcs |-> Idle]
  /\ \/ file' = Closed([file EXCEPT !.faults = @ + 1], file.disk) /\ file.faults < MaxFileFaults
     \/ file' = Closed(file, Flushed(file)) /\ file.pend = <<>>
  /\ replied' = Quiet

\* The process is killed: what was pending is lost.
Crash ==
  /\ file.open
  /\ file' = [Closed(file, file.disk) EXCEPT
                !.lock = NoOne, !.th = [p \in FileProcs |-> Idle]]
  /\ replied' = Quiet

\* os_file_open.
OpenFile == ~file.open /\ file' = [file EXCEPT !.open = TRUE] /\ replied' = Quiet

FileInit == file = NewFile /\ replied = Quiet

FileNext ==
  \/ \E p \in FileProcs :
       \/ Call(p, "size", 0, 0)
       \/ \E o \in FileOffs : Call(p, "read", o, 0) \/ \E v \in FileVals : Call(p, "write", o, v)
       \/ Seek(p) \/ SeekFails(p)
       \/ Write(p) \/ WriteFails(p) \/ Read(p) \/ Tell(p) \/ Unlock(p)
  \/ LibraryFlush \/ CloseFile \/ Crash \/ OpenFile
-------------------------------------------------------------------------------
Positioned == INSTANCE PositionedFile
  WITH Offs <- FileOffs, Vals <- FileVals, Torn <- TornCell,
       content <- Flushed(file), safe <- file.disk, answer <- replied,
       risk <- {file.pend[i].off : i \in DOMAIN file.pend}

\* os_file_pread and os_file_pwrite of several threads share one stream position
\* and one buffer that nobody flushes: each call still works at its own
\* position, and a crash or a failing flush undoes at most the last write.
ImplementsFile == Positioned!Spec
===============================================================================
