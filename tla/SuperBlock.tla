----------------------------- MODULE SuperBlock -----------------------------
(***************************************************************************)
(* The super block (ofs_block_rw.c).  The block at SUPER_BLOCK_VBN holds   *)
(* block_size / alloc_size slots; update number seq_no goes to the slot    *)
(* seq_no % slots, and an open looks for the newest slot that is whole.    *)
(* A slot is whole when its last two bytes repeat the seq_no of its head.  *)
(*                                                                         *)
(* The content of the super block is a version number; a slot written in   *)
(* part holds Torn.  A slot is smaller than the buffer of the stdio stream *)
(* and os_file_write does not flush: a slot written stays in memory until  *)
(* the stream is moved again (every pread and pwrite of the container file *)
(* starts with a seek) or closed.  Killed processes, failed and short      *)
(* writes are explicit.                                                    *)
(***************************************************************************)
EXTENDS Integers

CONSTANTS
  Cnt,          \* slots in the block (8)
  SeqMod,       \* modulus of seq_no (2^16)
  MaxVersion,   \* bound: updates of the super block
  MaxFaults     \* bound: calls of the operating system that fail

\* With one slot a write cut off would lose everything: a block of the code
\* holds 8 (a super block of another size is not initialised).
ASSUME SuperBlockAssumption ==
  /\ Cnt \in Nat /\ Cnt > 1
  /\ SeqMod \in Nat
  /\ SeqMod % Cnt = 0
  /\ SeqMod > Cnt
  /\ MaxVersion \in Nat
  /\ MaxFaults \in Nat

VARIABLES
  slots,     \* the block on disk
  pend,      \* the slot in the buffer of the stream, Blank when there is none
  sb,        \* ct->sb in memory: next seq_no and version; Closed when not open
  \* Observation only:
  acked,     \* the newest version a caller was told of
  settled,   \* the newest before a seek or close that succeeded, or read from disk
  round,     \* successful updates in a row on disk since a fault, at most Cnt
  faults     \* calls of the operating system that failed so far

vars == <<slots, pend, sb, acked, settled, round, faults>>

Torn == -1
Blank == [blk_id |-> FALSE, seq_no |-> 0, foot |-> 0, data |-> Torn]
Closed == [seq_no |-> 0, data |-> -2]

Index == 0 .. Cnt - 1

\* fixup_block: blk->seq_no++
NextSeq(n) == (n + 1) % SeqMod

\* assemble_block: the foot repeats seq_no.
Assembled(n, v) == [blk_id |-> TRUE, seq_no |-> n, foot |-> n, data |-> v]

\* What may be in a slot after a write of new over old was cut off: the file
\* is written front to back, the end of the slot is still the old one.
FrontOnly(old, new) == [new EXCEPT !.foot = old.foot, !.data = Torn]

Slot(n) == n % Cnt

written == \E i \in Index : slots[i].blk_id
-----------------------------------------------------------------------------
(***************************************************************************)
(* get_last_correct_block: from slot 0 on, the last slot of the run of     *)
(* consecutive numbers (prev_seq_no + 1 is an int: it does not wrap); from *)
(* there backwards, around the block, the first slot that is whole.        *)
(***************************************************************************)
InRun(i) ==
  \A j \in 0 .. i : /\ slots[j].blk_id
                    /\ j # 0 => slots[j].seq_no = slots[j - 1].seq_no + 1

\* Bug: the last written slot is taken for the newest one.
RunEndWritten ==
  CHOOSE i \in Index : \A j \in Index : slots[j].blk_id => j <= i

RunEnd ==
  LET run == {i \in Index : InRun(i)}
  IN  IF run = {} THEN 0 ELSE CHOOSE i \in run : \A j \in run : j <= i

\* Bug: the foot is not compared.
WholeHead(s) == s.blk_id

\* verify_block and fixup_block
Whole(s) == s.blk_id /\ s.foot = s.seq_no

\* The slots in the order of the second loop.
Back(end, d) == (end - d + Cnt) % Cnt

Correct ==
  LET end == RunEnd
  IN  {d \in Index : /\ Whole(slots[Back(end, d)])
                     /\ \A e \in 0 .. d - 1 : /\ ~Whole(slots[Back(end, e)])
                                              /\ slots[Back(end, e)].blk_id}

\* The slot an open uses: none, or one.
LastCorrect == {slots[Back(RunEnd, d)] : d \in Correct}

readback ==
  LET found == LastCorrect
  IN  IF found = {} THEN Torn ELSE (CHOOSE s \in found : TRUE).data
-----------------------------------------------------------------------------
(***************************************************************************)
(* The stream.                                                             *)
(***************************************************************************)

\* The block with what is in the buffer, and those with a part of it at most.
Flushed ==
  IF pend.blk_id THEN [slots EXCEPT ![Slot(pend.seq_no)] = pend] ELSE slots

Interrupted ==
  {slots} \cup
  {[slots EXCEPT ![Slot(p.seq_no)] = FrontOnly(slots[Slot(p.seq_no)], p)] :
     p \in {q \in {pend} : q.blk_id}}

\* The slot in the buffer is the last update, which succeeded.
Counts == pend.blk_id /\ pend.data = acked /\ acked = sb.data

\* fseeko and fclose write the buffer to the file.
flush ==
  /\ slots' = Flushed
  /\ settled' = acked
  /\ round' = IF Counts /\ round < Cnt THEN round + 1 ELSE round
  /\ UNCHANGED faults

\* Or they fail: a part of the slot may be in the file, and the rest is
\* dropped or still in memory.
flush_fails ==
  /\ faults < MaxFaults
  /\ faults' = faults + 1
  /\ round' = 0
  /\ slots' \in Interrupted
  /\ pend' \in {pend, Blank}
  /\ UNCHANGED <<acked, settled>>
-----------------------------------------------------------------------------
Init ==
  /\ slots = [i \in Index |-> Blank]
  /\ pend = Blank
  /\ sb = Closed
  /\ acked = Torn
  /\ settled = Torn
  /\ round = Cnt
  /\ faults = 0

\* ofs_update_block_pingpong_init: the first super block of a new container,
\* all other slots are zero.  create_system_objects moves the stream before
\* anyone is told of it; a crash before that leaves no container.
ofs_init_super_block ==
  /\ ~written
  /\ slots' = [i \in Index |-> IF i = Slot(0) THEN Assembled(0, 0) ELSE Blank]
  /\ sb' = [seq_no |-> NextSeq(0), data |-> 0]
  /\ acked' = 0
  /\ settled' = 0
  /\ UNCHANGED <<pend, round, faults>>

\* ofs_update_block_pingpong writes the changed super block; seq_no advances
\* whether the write succeeds or not.
Position == Slot(sb.seq_no)

New == Assembled(sb.seq_no, sb.data + 1)

advance ==
  /\ sb # Closed
  /\ sb.data < MaxVersion
  /\ sb' = [seq_no |-> NextSeq(sb.seq_no), data |-> New.data]

\* The seek flushes what was written before, fwrite keeps the new slot.
ofs_update_super_block ==
  /\ advance
  /\ flush
  /\ pend' = New
  /\ acked' = New.data

\* The seek fails and nothing is written; or fwrite returns a short count, and
\* the slot is in the buffer wholly, in part or not at all.
ofs_update_super_block_fails ==
  /\ advance
  /\ \/ flush_fails
     \/ /\ faults < MaxFaults
        /\ faults' = faults + 1
        /\ round' = 0
        /\ slots' = Flushed
        /\ settled' = acked
        /\ pend' \in {New, FrontOnly(Flushed[Position], New), Blank}
        /\ UNCHANGED acked

\* Any other read or write of the container file moves the stream.
other_io ==
  /\ sb # Closed
  /\ \/ flush /\ pend' = Blank /\ UNCHANGED acked
     \/ flush_fails
  /\ UNCHANGED sb

\* os_file_close ignores a failing fclose; what it did not write is lost.
close_container ==
  /\ sb # Closed
  /\ (flush /\ UNCHANGED acked) \/ flush_fails
  /\ pend' = Blank
  /\ sb' = Closed

\* The process is killed, between two calls or in one: the buffer is lost, or
\* a flush in progress has written it in part or wholly.  An update it is
\* killed in leaves what it leaves before or after that update.
crash ==
  /\ sb # Closed
  /\ slots' \in Interrupted \cup {Flushed}
  /\ pend' = Blank
  /\ sb' = Closed
  /\ UNCHANGED <<acked, settled, round, faults>>

\* get_last_correct_block returns the block after fixup_block.
ReadIn(s) == [seq_no |-> NextSeq(s.seq_no), data |-> s.data]

ofs_read_super_block ==
  /\ sb = Closed
  /\ \E s \in LastCorrect :
       /\ sb' = ReadIn(s)
       /\ acked' = s.data
       /\ settled' = s.data
  /\ round' = IF round < Cnt THEN 0 ELSE Cnt
  /\ UNCHANGED <<slots, pend, faults>>

Next ==
  \/ ofs_init_super_block
  \/ ofs_update_super_block
  \/ ofs_update_super_block_fails
  \/ other_io
  \/ close_container
  \/ crash
  \/ ofs_read_super_block

Spec == Init /\ [][Next]_vars
-----------------------------------------------------------------------------
(***************************************************************************)
(* Properties.                                                             *)
(***************************************************************************)

\* Once a super block was written an open finds one.
Readable == written => LastCorrect # {}

\* An open finds the newest super block that was written and flushed, or a
\* newer one: killing the process costs the last update that returned at most.
\* A failed write may hide the updates after it, but only until every slot was
\* written once more without a failure.
Healed == round = Cnt => (written => readback >= settled)

\* Killed processes do not break the promise of one value replaced as a whole:
\* an open returns the version of the last update that returned or of the one
\* before it, which any access to the file after it makes certain, and never an
\* older one later.  A failed write suspends the promise until every slot was
\* written again.
Cell == INSTANCE DurableCell
  WITH value <- readback, told <- acked, open <- sb # Closed, sound <- round = Cnt

ImplementsCell == Cell!Spec
=============================================================================
