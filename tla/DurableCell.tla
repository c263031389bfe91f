---------------------------- MODULE DurableCell ----------------------------
(***************************************************************************)
(* What the rotating super block promises: one value on disk, replaced as  *)
(* a whole.  An update that returns puts the one before it on disk and is  *)
(* itself on disk after any later access to the file, or a close; a killed *)
(* process may lose it, as a whole, but none before it, and whatever an    *)
(* open has returned is never lost again.  A write that fails while the    *)
(* process runs on suspends the promise until enough updates in a row are  *)
(* on disk.  SuperBlock implements it.                                     *)
(***************************************************************************)
EXTENDS Integers

VARIABLES
  value,   \* what a read of the disk returns, -1 before the first write
  told,    \* the newest value known to a caller, -1 before the first write
  open,    \* a process works on the value
  sound    \* FALSE from a failed write until the disk has healed

vars == <<value, told, open, sound>>

Init == value = -1 /\ told = -1 /\ ~open /\ sound = TRUE

\* The first value.
Create ==
  /\ ~open /\ open' /\ value = -1
  /\ value' >= 0 /\ told' = value'
  /\ UNCHANGED sound

\* What the callers were told is on disk.
Settle ==
  /\ open
  /\ sound'
  /\ value' = told
  /\ sound => value' >= value

\* An update returns: the last one is on disk, the new one may still be lost.
Update ==
  /\ open'
  /\ told' > told
  /\ Settle

\* Another access to the file, or a close.
Flush ==
  /\ UNCHANGED told
  /\ Settle

\* The process is killed: the last update is on disk or it is not.
Crash ==
  /\ open /\ ~open'
  /\ sound
  /\ value' \in {value, told}
  /\ UNCHANGED <<told, sound>>

\* The value is read from disk: what was lost is forgotten.
Open ==
  /\ ~open /\ open'
  /\ sound => value >= 0
  /\ told' = value
  /\ UNCHANGED <<value, sound>>

\* A write fails, or others follow it before the disk has healed: anything
\* that was once written may be what a read returns.
Unsound ==
  /\ ~sound'
  /\ open
  /\ told' >= told

Next == Unsound \/ Create \/ Open \/ Crash \/ Update \/ Flush

Spec == Init /\ [][Next]_vars
=============================================================================
