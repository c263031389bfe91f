---------------------------- MODULE SpaceManager ----------------------------
(***************************************************************************)
(* One space manager (space_manager_t): the free extents kept in the       *)
(* extent B-tree of a space object, the rotating cursor first_free_block   *)
(* and the counter total_free_blocks.  Every operation runs under sm->lock *)
(* and is one action.                                                      *)
(*                                                                         *)
(* The B-tree is the set of extents it holds.  What its shape decides is   *)
(* in height: 1 when the tree is only its root node, 2 when it may have    *)
(* children.  The tree operations used by alloc_space and free_space may   *)
(* fail after they changed the cached tree; MaxFaults bounds how often.    *)
(***************************************************************************)
EXTENDS Integers, FiniteSets

CONSTANTS
  FirstBlk, BlkCnt,  \* the extent given to ofs_init_free_space
  MaxCnt,            \* the largest blk_cnt a caller passes
  LenMod,            \* modulus of the uint32_t lengths (2^32 in the code)
  MaxFaults          \* bound: tree operations that fail

ASSUME SpaceAssumption ==
  /\ FirstBlk \in Nat
  /\ BlkCnt \in Nat \ {0}
  /\ MaxCnt \in Nat \ {0}
  /\ LenMod \in Nat \ {0}
  /\ MaxFaults \in Nat

VARIABLES
  extents,            \* the entries of the extent tree
  height,             \* its levels: one node, or more
  first_free_block,   \* sm->first_free_block
  total_free_blocks,  \* sm->total_free_blocks
  \* Observation only:
  used,               \* blocks the callers own
  lost,               \* blocks dropped by a tree operation that failed
  drift,              \* the counter was knowingly made wrong
  faults              \* failed tree operations so far

vars == <<extents, height, first_free_block, total_free_blocks,
          used, lost, drift, faults>>

Extent == [addr : Nat, len : Nat \ {0}]

Run(s, c) == s .. (s + c - 1)

Blocks(e) == Run(e.addr, e.len)

Pool == Run(FirstBlk, BlkCnt)

Cover(X) == UNION {Blocks(e) : e \in X}

FreeBlocks == Cover(extents)

\* A uint64_t length stored in a uint32_t variable.
U32(n) == IF n < LenMod THEN n ELSE n % LenMod
-----------------------------------------------------------------------------
(***************************************************************************)
(* Searching.  os_collate_extent calls two extents equal when they         *)
(* overlap, so a search for (start_blk, blk_cnt) finds an overlapping      *)
(* entry: the lowest one in a one-node tree, any of them in a deeper one,  *)
(* where an entry of an inner node is met before its left children.        *)
(***************************************************************************)
Overlaps(e, s, c) == e.addr < s + c /\ s < e.addr + e.len

Overlapping(s, c) == {e \in extents : Overlaps(e, s, c)}

Lowest(S) == {e \in S : \A f \in S : e.addr <= f.addr}

Found(s, c) == IF height = 1 THEN Lowest(Overlapping(s, c)) ELSE Overlapping(s, c)

\* get_to_near_key: the next larger entry; past the last one, the first one.
Near(s, c) ==
  LET larger == {e \in extents : e.addr >= s + c}
  IN  IF larger # {} THEN Lowest(larger) ELSE Lowest(extents)

Candidates(s, c) == IF Overlapping(s, c) # {} THEN Found(s, c) ELSE Near(s, c)
-----------------------------------------------------------------------------
(***************************************************************************)
(* alloc_space: entry e is removed, the blocks before the start and after  *)
(* the end of the allocation are inserted again.                           *)
(***************************************************************************)
End(e) == e.addr + U32(e.len)

\* Bug: the cursor is kept although the entry does not contain it.
StartKept(e, s, c) == IF s > e.addr THEN s ELSE e.addr

Start(e, s, c) == IF Overlaps(e, s, c) /\ s > e.addr THEN s ELSE e.addr

\* Bug: the allocation is not cut at the end of the entry.
CountUncut(e, s, c) == c

Count(e, s, c) ==
  IF Start(e, s, c) + c < End(e) THEN c ELSE End(e) - Start(e, s, c)

\* Bug: an empty rest is inserted too.
AfterEmpty(e, s, c) ==
  IF Start(e, s, c) + c <= End(e)
  THEN {[addr |-> Start(e, s, c) + c, len |-> End(e) - (Start(e, s, c) + c)]}
  ELSE {}

\* Bug: the blocks before the allocation keep the length of the entry.
BeforeUncut(e, s, c) ==
  IF Start(e, s, c) > e.addr THEN {[addr |-> e.addr, len |-> e.len]} ELSE {}

Before(e, s, c) ==
  IF Start(e, s, c) > e.addr
  THEN {[addr |-> e.addr, len |-> Start(e, s, c) - e.addr]}
  ELSE {}

After(e, s, c) ==
  IF Start(e, s, c) + c < End(e)
  THEN {[addr |-> Start(e, s, c) + c, len |-> End(e) - (Start(e, s, c) + c)]}
  ELSE {}

Taken(e, s, c) == Run(Start(e, s, c), Count(e, s, c))

\* The two assertions of alloc_space about the entry it takes.
AllocAsserts(e, s, c) == U32(e.len) # 0 /\ Start(e, s, c) < End(e)

alloc_space(e, c) ==
  LET s == first_free_block
      kept == Before(e, s, c) \cup After(e, s, c)
      gone == Blocks(e) \ (Cover(kept) \cup Taken(e, s, c))
  IN  /\ AllocAsserts(e, s, c)
      /\ extents' = (extents \ {e}) \cup kept
      /\ used' = used \cup Taken(e, s, c)
      /\ lost' = lost \cup gone

(***************************************************************************)
(* sm_alloc_space, one action per way it ends.                             *)
(***************************************************************************)
sm_alloc_space(c) ==
  /\ total_free_blocks # 0
  /\ \E e \in Candidates(first_free_block, c) :
       LET n == Count(e, first_free_block, c)
       IN  /\ alloc_space(e, c)
           /\ first_free_block' = Start(e, first_free_block, c) + n
           /\ total_free_blocks' = IF total_free_blocks < n
                                   THEN total_free_blocks
                                   ELSE total_free_blocks - n
           /\ drift' = (drift \/ total_free_blocks < n \/ lost' # lost)
  /\ UNCHANGED faults

\* The counter says there are free blocks, the tree is empty: both are reset.
sm_alloc_space_none(c) ==
  /\ total_free_blocks # 0
  /\ extents = {}
  /\ first_free_block' = 0
  /\ total_free_blocks' = 0
  /\ drift' = FALSE
  /\ UNCHANGED <<extents, used, lost, faults>>

(***************************************************************************)
(* tree_insert_ie and remove_leaf change the cached node before            *)
(* set_ib_dirty may fail, so an operation that returns an error may have   *)
(* done its work, half of it or nothing.  Of the entries it was not about, *)
(* it leaves all in a tree of one node.  In a deeper one the entry of an   *)
(* inner node, a split node or an emptied branch is taken out before it is *)
(* inserted again, with what hangs below it: any of them may go.           *)
(* Not modelled: a child that its parent still reaches through its old     *)
(* block, because freeing that block failed after the child had moved.     *)
(***************************************************************************)
Left(X) == IF height = 1 THEN {X} ELSE SUBSET X

\* The trees a failing allocation from e may leave: e untouched, removed,
\* its head back in the tree, or its tail too although an error is returned.
AllocLeaves(e, s, c) ==
  UNION {{l \cup k : l \in Left(extents \ {e})} :
         k \in {{e}, {}, Before(e, s, c), Before(e, s, c) \cup After(e, s, c)}}

\* An error of the block allocation below the tree (no block left in bsm) has
\* the code that sm_alloc_space takes for its own exhaustion.
sm_alloc_space_fails(c) ==
  /\ total_free_blocks # 0
  /\ faults < MaxFaults
  /\ faults' = faults + 1
  /\ \E e \in Candidates(first_free_block, c) :
       /\ AllocAsserts(e, first_free_block, c)
       /\ extents' \in AllocLeaves(e, first_free_block, c)
  /\ lost' = lost \cup (FreeBlocks \ Cover(extents'))
  /\ \/ /\ first_free_block' = 0
        /\ total_free_blocks' = 0
     \/ UNCHANGED <<first_free_block, total_free_blocks>>
  /\ drift' = (drift \/ extents' # extents \/ total_free_blocks' # total_free_blocks)
  /\ UNCHANGED used
-----------------------------------------------------------------------------
(***************************************************************************)
(* free_space: the freed range is merged with the entry that starts where  *)
(* it ends, then with the entry that ends where it starts.  When removing  *)
(* the first one emptied a leaf of a deeper tree, the cursor is left on    *)
(* the second one and walk_tree(INDEX_GET_PREV) steps over it.             *)
(***************************************************************************)
NextOf(s, c) == {e \in extents : e.addr = s + c}

PrevOf(s) == {e \in extents : e.addr + e.len = s}

\* Bug: the entry before the freed range is never merged.
MergedNoPrev(s, c) == {{}}

MergedPrev(s, c) ==
  {PrevOf(s)} \cup (IF NextOf(s, c) # {} /\ height # 1 THEN {{}} ELSE {})

Only(S) == CHOOSE e \in S : TRUE

\* Bug: the length of the following entry is not added.
MergedNoNext(s, c, P) ==
  [addr |-> IF P = {} THEN s ELSE Only(P).addr,
   len  |-> U32(c + (IF P = {} THEN 0 ELSE Only(P).len))]

Merged(s, c, P) ==
  [addr |-> IF P = {} THEN s ELSE Only(P).addr,
   len  |-> U32(c + (IF NextOf(s, c) = {} THEN 0 ELSE U32(Only(NextOf(s, c)).len))
                  + (IF P = {} THEN 0 ELSE U32(Only(P).len)))]

free_space(s, c) ==
  \E P \in MergedPrev(s, c) :
    LET merged == Cover(NextOf(s, c) \cup P) \cup Run(s, c)
    IN  /\ extents' = (extents \ (NextOf(s, c) \cup P)) \cup {Merged(s, c, P)}
        /\ used' = used \ Run(s, c)
        /\ lost' = lost \cup (merged \ Blocks(Merged(s, c, P)))

\* Bug: the counter is credited with the length of the merged extent.
sm_free_space_merged(s, c) ==
  /\ Overlapping(s, c) = {}
  /\ free_space(s, c)
  /\ total_free_blocks' = total_free_blocks + c
                          + (IF PrevOf(s) = {} THEN 0 ELSE Only(PrevOf(s)).len)
  /\ drift' = drift
  /\ UNCHANGED <<first_free_block, faults>>

sm_free_space(s, c) ==
  /\ Overlapping(s, c) = {}
  /\ free_space(s, c)
  /\ total_free_blocks' = total_free_blocks + c
  /\ drift' = (drift \/ lost' # lost)
  /\ UNCHANGED <<first_free_block, faults>>

\* An entry overlaps the range: nothing is inserted, but free_space returns
\* the 0 of the search and sm_free_space credits the counter.
sm_free_space_overlap(s, c) ==
  /\ Overlapping(s, c) # {}
  /\ total_free_blocks' = total_free_blocks + c
  /\ drift' = TRUE
  /\ UNCHANGED <<extents, first_free_block, used, lost, faults>>

\* The trees a failing free may leave: the neighbours untouched, the next one
\* removed, both removed, or the merged extent in the tree with an error.
FreeLeaves(s, c) ==
  LET both == NextOf(s, c) \cup PrevOf(s)
      with(P) == (PrevOf(s) \ P) \cup {Merged(s, c, P)}
  IN  UNION {{l \cup k : l \in Left(extents \ both)} :
             k \in {both, PrevOf(s), {}} \cup {with(P) : P \in MergedPrev(s, c)}}

\* The callers forget the range, and the counter is not credited with it.
sm_free_space_fails(s, c) ==
  /\ Overlapping(s, c) = {}
  /\ faults < MaxFaults
  /\ faults' = faults + 1
  /\ extents' \in FreeLeaves(s, c)
  /\ lost' = lost \cup ((FreeBlocks \cup Run(s, c)) \ Cover(extents'))
  /\ used' = used \ Run(s, c)
  /\ drift' = (drift \/ extents' # extents)
  /\ UNCHANGED <<first_free_block, total_free_blocks>>
-----------------------------------------------------------------------------
\* sm: ofs_init_sm and ofs_init_free_space with all blocks.  bsm: ofs_init_sm
\* with nothing; its blocks come from its callers.
Init ==
  /\ used \in {{}, Pool}
  /\ height \in {1, 2}
  /\ extents = IF used = {} THEN {[addr |-> FirstBlk, len |-> BlkCnt]} ELSE {}
  /\ first_free_block = IF used = {} THEN FirstBlk ELSE 0
  /\ total_free_blocks = IF used = {} THEN BlkCnt ELSE 0
  /\ lost = {}
  /\ drift = FALSE
  /\ faults = 0

AllocStep ==
  /\ \E c \in 1 .. MaxCnt :
       \/ sm_alloc_space(c)
       \/ sm_alloc_space_none(c)
       \/ sm_alloc_space_fails(c)
  /\ UNCHANGED height

\* Callers give back a run of blocks they own.
FreeStep ==
  /\ \E s \in used, c \in 1 .. MaxCnt :
       /\ Run(s, c) \subseteq used
       /\ sm_free_space(s, c) \/ sm_free_space_fails(s, c)
  /\ UNCHANGED height

Next == AllocStep \/ FreeStep

Spec == Init /\ [][Next]_vars

\* Callers may also free a range that is, wholly or in part, free already.
OverlapStep ==
  /\ \E s \in Pool, c \in 1 .. MaxCnt :
       /\ s + c - 1 \in Pool
       /\ total_free_blocks <= BlkCnt
       /\ sm_free_space_overlap(s, c)
  /\ UNCHANGED height

AnyNext == Next \/ OverlapStep

AnySpec == Init /\ [][AnyNext]_vars
-----------------------------------------------------------------------------
(***************************************************************************)
(* Properties.                                                             *)
(***************************************************************************)

\* Every variable has the type the code gives it, and no extent of length
\* zero or outside the managed range is ever inserted in the extent tree.
TypeOK ==
  /\ height \in {1, 2}
  /\ extents \subseteq [addr : Pool, len : 1 .. BlkCnt]
  /\ \A e \in extents : e.addr + e.len <= FirstBlk + BlkCnt
  /\ first_free_block \in 0 .. (FirstBlk + BlkCnt)
  /\ total_free_blocks \in Nat
  /\ used \subseteq Pool
  /\ lost \subseteq Pool
  /\ drift \in BOOLEAN
  /\ faults \in 0 .. MaxFaults

\* No two entries of the extent tree overlap, so a block is on the free list
\* at most once, after any mix of splits by alloc_space and merges by
\* free_space, failed tree operations included.
ExtentsDisjoint ==
  \A e, f \in extents : e # f => Blocks(e) \cap Blocks(f) = {}

\* A block is free, owned by a caller or dropped by a failed operation, and
\* only one of these: no block is handed out while another caller owns it,
\* none is free while owned.  Without a failed tree operation none is dropped.
Conservation ==
  /\ FreeBlocks \cup used \cup lost = Pool
  /\ FreeBlocks \cap used = {}
  /\ FreeBlocks \cap lost = {}
  /\ used \cap lost = {}
  /\ faults = 0 => lost = {}

\* total_free_blocks, on which sm_alloc_space decides that nothing is free and
\* reserve_base_space how much to fetch, is the number of free blocks, unless
\* a free of free blocks or a failed tree operation made it drift.
TotalExact == ~drift => total_free_blocks = Cardinality(FreeBlocks)

\* free_space merges with both neighbours: in a tree of one node no two
\* entries of the extent tree are adjacent, whatever was freed in what order.
Coalesced ==
  height = 1 => \A e, f \in extents : e.addr + e.len # f.addr

\* An extent manager implements a pool of blocks: each operation hands out one
\* contiguous run of at most MaxCnt free blocks, takes one back, or drops some.
Abstract == INSTANCE BlockPool WITH free <- FreeBlocks

ImplementsPool == Abstract!Spec

\* The assertions ASSERT(len != 0) and ASSERT(start_blk < end) of alloc_space
\* hold for the entry that the next allocation takes.
AllocAssertsHold ==
  total_free_blocks # 0 =>
    \A c \in 1 .. MaxCnt : \A e \in Candidates(first_free_block, c) :
      AllocAsserts(e, first_free_block, c)
=============================================================================
