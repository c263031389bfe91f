---------------------------- MODULE PositionedFile ----------------------------
(***************************************************************************)
(* What a file promises to the threads that read and write it at positions *)
(* of their own: every call takes effect at its own position, and at most  *)
(* the last write is still unsafe when the program dies.                   *)
(***************************************************************************)
EXTENDS Integers, Sequences

CONSTANTS Offs, Vals, Torn

VARIABLES
  content,    \* what a reader gets
  safe,       \* what is left if the program dies now
  risk,       \* the positions where the two may differ
  answer      \* result of the last call

Hole == 0     \* a cell that was skipped reads as zeros

\* f after a write at position o, filled up with holes.
WriteAt(f, o, v) ==
  [i \in 1 .. IF Len(f) > o THEN Len(f) ELSE o + 1 |->
     IF i = o + 1 THEN v ELSE IF i <= Len(f) THEN f[i] ELSE Hole]

\* The call, its result and the cell or size it returned.
Ret(c, r, v) == [call |-> c, ret |-> r, val |-> v]

Quiet == Ret(<<"none", 0>>, "none", 0)

ReadAt(f, o) == IF o < Len(f) THEN Ret(<<"read", o>>, "ok", f[o + 1])
                ELSE Ret(<<"read", o>>, "eof", 0)

Init == content = <<>> /\ safe = <<>> /\ risk = {} /\ answer = Quiet

\* What was written before is safe; the new write is not yet.
Write(o, v) ==
  /\ safe' = content /\ content' = WriteAt(content, o, v) /\ risk' = {o}
  /\ answer' = Ret(<<"write", o>>, "ok", 0)

\* The write reached the file in part, or is only kept in memory.
WriteFails(o, v) ==
  /\ \E w \in {v, Torn} : content' = WriteAt(content, o, w)
  /\ safe' = content /\ risk' = {o} /\ answer' = Ret(<<"write", o>>, "error", 0)

Read(o) == answer' = ReadAt(content, o) /\ UNCHANGED <<content, safe, risk>>

Size == answer' = Ret(<<"size", 0>>, "ok", Len(content)) /\ UNCHANGED <<content, safe, risk>>

\* The last write reaches the operating system, all of it or the first part.
Sync ==
  /\ \/ safe' = content /\ risk' = {}
     \/ \E o \in risk : safe' = WriteAt(safe, o, Torn) /\ UNCHANGED risk
  /\ UNCHANGED <<content, answer>>

Calls == ({"read", "write"} \X Offs) \cup {<<"size", 0>>}

Failed == {Ret(c, "error", 0) : c \in Calls}

\* The last write is lost, although it was acknowledged: to another caller
\* than the one that is told, or to nobody.
Lose ==
  /\ content' = safe /\ risk' = {} /\ UNCHANGED safe
  /\ answer' \in Failed \cup {Quiet}

Fail == answer' \in Failed /\ UNCHANGED <<content, safe, risk>>

\* The file is closed or opened again.
Forget == answer' = Quiet /\ UNCHANGED <<content, safe, risk>>

Next ==
  \/ \E o \in Offs : Read(o) \/ \E v \in Vals : Write(o, v) \/ WriteFails(o, v)
  \/ Size \/ Sync \/ Lose \/ Fail \/ Forget

Spec == Init /\ [][Next]_<<content, safe, risk, answer>>
===============================================================================
