----------------------------- MODULE BlockPool -----------------------------
(***************************************************************************)
(* What a space manager promises its callers, without extents, cursors or  *)
(* counters: a pool of blocks from which a request is served by one        *)
(* contiguous run of free blocks, no longer than the largest request, and  *)
(* to which runs are given back.  SpaceManager implements it.              *)
(*                                                                         *)
(* A tree operation that fails half way may drop blocks: they leave the    *)
(* pool for good, they never reach two owners.                             *)
(***************************************************************************)
EXTENDS Integers

CONSTANTS
  Pool,           \* the blocks the pool was given
  MaxCnt          \* the largest request

VARIABLES
  free,           \* blocks that may be handed out
  used,           \* blocks owned by callers
  lost            \* blocks neither free nor owned any more

vars == <<free, used, lost>>

Init ==
  /\ lost = {}
  /\ \/ free = Pool /\ used = {}
     \/ free = {} /\ used = Pool

\* One contiguous run of free blocks, never more than was asked for.
Alloc ==
  \E s, t \in free :
    /\ s <= t
    /\ t - s < MaxCnt
    /\ s .. t \subseteq free
    /\ free' = free \ (s .. t)
    /\ used' = used \cup (s .. t)
    /\ UNCHANGED lost

\* One contiguous run of owned blocks comes back.
Release ==
  \E s, t \in used :
    /\ s <= t
    /\ s .. t \subseteq used
    /\ free' = free \cup (s .. t)
    /\ used' = used \ (s .. t)
    /\ UNCHANGED lost

\* A failed operation: free blocks drop out, and blocks that were given back
\* drop out or become free; nobody is handed a block.
Drop ==
  /\ used' \subseteq used
  /\ free' \subseteq free \cup (used \ used')
  /\ lost' = lost \cup ((free \cup used) \ (free' \cup used'))

Next == Alloc \/ Release \/ Drop

Spec == Init /\ [][Next]_vars
=============================================================================
