----------------------------- MODULE BaseSpace ------------------------------
(***************************************************************************)
(* How the two space managers of a container feed each other.  Blocks come *)
(* from sm, whose extent tree takes its own blocks from bsm, whose extent  *)
(* tree takes its root from the single block base_blk.  Before it touches  *)
(* sm every request for a user object runs reserve_base_space, which       *)
(* refills base_blk and bsm from sm - and takes no lock.                   *)
(*                                                                         *)
(* sm and bsm are pools (BlockPool, which SpaceManager implements); their  *)
(* trees appear as the blocks they occupy: the root, copied to a new block *)
(* at its first change after an open (set_ib_dirty), and in sm the nodes   *)
(* that splits add.  bsm holds too few extents to need a second node.      *)
(* One step per lock operation or access to an unlocked variable.          *)
(***************************************************************************)
EXTENDS Integers, FiniteSets

CONSTANTS
  Threads,
  None,           \* nobody holds the lock
  Total,          \* sb->total_blocks
  MAX_BLK_NUM,    \* bsm is refilled up to this (10)
  MIN_BLK_NUM,    \* when it is down to this (3)
  LenMod,         \* modulus of uint32_t
  MaxOps,         \* bound: requests of users, all threads together
  MaxSessions,    \* bound: the container is closed and opened again
  MaxSplits       \* bound: nodes added to or removed from the tree of sm

ASSUME BaseSpaceAssumption ==
  /\ None \notin Threads
  /\ Total \in Nat /\ Total > 3
  /\ MIN_BLK_NUM \in Nat /\ MAX_BLK_NUM \in Nat /\ MIN_BLK_NUM < MAX_BLK_NUM
  /\ LenMod \in Nat /\ LenMod > MAX_BLK_NUM
  /\ MaxOps \in Nat /\ MaxSessions \in Nat /\ MaxSplits \in Nat

VARIABLES
  sm_free, bsm_free,     \* the blocks in the two extent trees
  base_blk,              \* ct->base_blk, 0 when there is none
  sm_root, bsm_root,     \* root_cache.vbn of $SPACE and $BASE
  sm_dirty, bsm_dirty,   \* CACHE_DIRTY of the two root caches
  sm_nodes,              \* blocks of the other nodes of the tree of sm
  sm_clean,              \* those of them that are not CACHE_DIRTY
  user,                  \* blocks that user objects own
  sm_lock, bsm_lock,     \* the two rwlocks, write side
  th,                    \* per thread: where it is and its local variables
  phase,                 \* "new", "creating", "open", "unusable", "aborted", "dry"
  overlap,               \* history: two requests have run at the same time
  leaked,                \* history: blocks whose free has failed
  spent,                 \* history: blocks that splits took since bsm was last full enough
  ops, sessions, splits  \* counters for the bounds

locks == <<sm_lock, bsm_lock>>
bounds == <<ops, sessions, splits>>
counters == <<overlap, leaked, spent, ops, sessions, splits>>
pools == <<sm_free, bsm_free, sm_nodes, sm_clean, user>>
roots == <<sm_root, bsm_root, sm_dirty, bsm_dirty>>
vars == <<pools, roots, base_blk, locks, th, phase, counters>>

Block == 1 .. Total - 1

U32(n) == n % LenMod

Calls == {"alloc", "free", "none"}

\* pc and call are the step and the request to sm that runs, back the step
\* after it, bcall and bback the same for bsm; run and brun are the blocks
\* that the requests take or give, node is a node that moves, old is the root
\* that bsm left.
Idle == [pc |-> "idle", job |-> "none", blk |-> 0,
         call |-> "none", cnt |-> 0, run |-> {}, back |-> "idle", old |-> 0,
         bcall |-> "none", brun |-> {}, bback |-> "idle", node |-> 0]

At(t, label) == phase \notin {"aborted", "dry"} /\ th[t].pc = label

Goto(t, label) == th' = [th EXCEPT ![t].pc = label]

Finish(t) == th' = [th EXCEPT ![t] = Idle]

CallSm(t, call, cnt, run, back) ==
  th' = [th EXCEPT ![t].pc = "sm", ![t].call = call, ![t].cnt = cnt,
                   ![t].run = run, ![t].back = back]

CallBsm(t, call, run, back, node) ==
  th' = [th EXCEPT ![t].pc = "bsm", ![t].bcall = call,
                   ![t].brun = run, ![t].bback = back, ![t].node = node]
-----------------------------------------------------------------------------
(***************************************************************************)
(* Requests of the callers.                                                *)
(***************************************************************************)
\* create_system_objects: create_object allocates the inode of $OBJID.
create_system_objects(t) ==
  /\ phase = "new"
  /\ phase' = "creating"
  /\ th' = [th EXCEPT ![t].pc = "reserve", ![t].job = "create"]
  /\ UNCHANGED <<pools, roots, base_blk, locks, counters>>

Begin(t) ==
  /\ phase = "open" /\ th[t].pc = "idle" /\ ops < MaxOps
  /\ ops' = ops + 1
  /\ overlap' = (overlap \/ \E u \in Threads : th[u].pc # "idle")
  /\ UNCHANGED <<leaked, spent, sessions, splits>>

ofs_alloc_space(t) ==
  /\ Begin(t)
  /\ th' = [th EXCEPT ![t].pc = "reserve", ![t].job = "alloc"]
  /\ UNCHANGED <<pools, roots, base_blk, locks, phase>>

ofs_free_space(t) ==
  /\ Begin(t)
  /\ \E b \in user :
       /\ user' = user \ {b}
       /\ th' = [th EXCEPT ![t].pc = "reserve", ![t].job = "free", ![t].blk = b]
  /\ UNCHANGED <<sm_free, bsm_free, sm_nodes, sm_clean, roots, base_blk, locks, phase>>

\* close_container commits and ofs_open_nolock reads everything again: no
\* block of a tree is dirty any more.
reopen ==
  /\ phase = "open" /\ sessions < MaxSessions
  /\ \A t \in Threads : th[t].pc = "idle"
  /\ sessions' = sessions + 1
  /\ sm_dirty' = FALSE /\ bsm_dirty' = FALSE
  /\ sm_clean' = sm_nodes
  /\ UNCHANGED <<sm_free, bsm_free, sm_nodes, user, sm_root, bsm_root, base_blk,
                 locks, th, phase, overlap, leaked, spent, ops, splits>>
-----------------------------------------------------------------------------
(***************************************************************************)
(* reserve_base_space, and what its callers do when it fails.              *)
(***************************************************************************)
\* Bug: only bsm is refilled.
reserve_no_base(t) ==
  /\ At(t, "reserve")
  /\ Goto(t, "check")
  /\ UNCHANGED <<pools, roots, base_blk, locks, phase, counters>>

reserve_base(t) ==
  /\ At(t, "reserve")
  /\ IF base_blk = 0
     THEN CallSm(t, "alloc", 1, {}, "set_base")
     ELSE Goto(t, "check")
  /\ UNCHANGED <<pools, roots, base_blk, locks, phase, counters>>

\* No block was left: the request fails.  A block to be freed is lost: its
\* node has moved (set_ib_dirty) or gone before, and no caller keeps it.
fail(t) ==
  /\ leaked' = IF th[t].job = "free" THEN leaked \cup {th[t].blk} ELSE leaked
  /\ phase' = IF th[t].job = "create" THEN "unusable" ELSE phase
  /\ Finish(t)

no_space(t) ==
  /\ \/ At(t, "set_base")
     \/ At(t, "give")
     \/ At(t, "done") /\ th[t].call = "alloc"
  /\ th[t].run = {}
  /\ fail(t)
  /\ UNCHANGED <<pools, roots, base_blk, locks, overlap, spent, bounds>>

set_base(t) ==
  /\ At(t, "set_base") /\ th[t].run # {}
  /\ base_blk' \in th[t].run
  /\ th' = [th EXCEPT ![t].pc = "check", ![t].run = {}]
  /\ UNCHANGED <<pools, roots, locks, phase, counters>>

\* The test of the while loop; after the loop the request itself.
check(t) ==
  /\ At(t, "check")
  /\ IF Cardinality(bsm_free) <= MIN_BLK_NUM
     THEN Goto(t, "count") /\ UNCHANGED spent
     ELSE /\ spent' = 0
          /\ IF th[t].job = "free"
             THEN CallSm(t, "free", 1, {th[t].blk}, "done")
             ELSE CallSm(t, "alloc", 1, {}, "done")
  /\ UNCHANGED <<pools, roots, base_blk, locks, phase, overlap, leaked, bounds>>

\* blk_cnt = MAX_BLK_NUM - total_free_blocks: the counter is read again.
Missing == U32(MAX_BLK_NUM - Cardinality(bsm_free))

\* alloc_space: ASSERT(blk_cnt != 0)
count(t) ==
  /\ At(t, "count")
  /\ IF Missing = 0
     THEN phase' = "aborted" /\ UNCHANGED th
     ELSE CallSm(t, "alloc", Missing, {}, "give") /\ UNCHANGED phase
  /\ UNCHANGED <<pools, roots, base_blk, locks, counters>>

give(t) ==
  /\ At(t, "give") /\ th[t].run # {}
  /\ th' = [th EXCEPT ![t].pc = "bsm", ![t].bcall = "free", ![t].brun = th[t].run,
                      ![t].run = {}, ![t].bback = "check"]
  /\ UNCHANGED <<pools, roots, base_blk, locks, phase, counters>>

done(t) ==
  /\ At(t, "done")
  /\ th[t].call = "alloc" => th[t].run # {}
  /\ user' = user \cup th[t].run
  /\ phase' = IF th[t].job = "create" THEN "open" ELSE phase
  /\ Finish(t)
  /\ UNCHANGED <<sm_free, bsm_free, sm_nodes, sm_clean, roots, base_blk, locks, counters>>
-----------------------------------------------------------------------------
(***************************************************************************)
(* sm_alloc_space and sm_free_space of sm, under sm->lock.                 *)
(***************************************************************************)
\* Bug: the early return keeps the lock.
sm_empty_locked(t) ==
  /\ At(t, "sm") /\ sm_lock = None
  /\ th[t].call = "alloc" /\ sm_free = {}
  /\ th' = [th EXCEPT ![t].pc = th[t].back, ![t].run = {}]
  /\ sm_lock' = t
  /\ UNCHANGED <<pools, roots, base_blk, bsm_lock, phase, counters>>

\* total_free_blocks == 0
sm_empty(t) ==
  /\ At(t, "sm") /\ sm_lock = None
  /\ th[t].call = "alloc" /\ sm_free = {}
  /\ th' = [th EXCEPT ![t].pc = th[t].back, ![t].run = {}]
  /\ UNCHANGED <<pools, roots, base_blk, locks, phase, counters>>

sm_enter(t) ==
  /\ At(t, "sm") /\ sm_lock = None
  /\ th[t].call = "alloc" => sm_free # {}
  /\ sm_lock' = t
  /\ Goto(t, "sm_tree")
  /\ UNCHANGED <<pools, roots, base_blk, bsm_lock, phase, counters>>

\* set_ib_dirty of $SPACE walks from the node that changes to the root: each
\* block that is not dirty moves to a new one and the old one is freed.
sm_dirty_path(t) ==
  /\ At(t, "sm_tree")
  /\ \/ \E b \in sm_clean : CallBsm(t, "alloc", {}, "sm_copy", b)
     \/ ~sm_dirty /\ CallBsm(t, "alloc", {}, "sm_cow", 0)
  /\ UNCHANGED <<pools, roots, base_blk, locks, phase, counters>>

sm_copy(t) ==
  /\ At(t, "sm_copy")
  /\ sm_nodes' = (sm_nodes \ {th[t].node}) \cup th[t].brun
  /\ sm_clean' = sm_clean \ {th[t].node}
  /\ CallBsm(t, "free", {th[t].node}, "sm_tree", 0)
  /\ UNCHANGED <<sm_free, bsm_free, user, roots, base_blk, locks, phase, counters>>

\* Bug: the old block is not freed.
sm_cow_keeps(t) ==
  /\ At(t, "sm_cow")
  /\ sm_root' \in th[t].brun
  /\ sm_dirty' = TRUE
  /\ th' = [th EXCEPT ![t].pc = "sm_tree", ![t].brun = {}]
  /\ UNCHANGED <<pools, bsm_root, bsm_dirty, base_blk, locks, phase, counters>>

sm_cow(t) ==
  /\ At(t, "sm_cow")
  /\ sm_root' \in th[t].brun
  /\ sm_dirty' = TRUE
  /\ CallBsm(t, "free", {sm_root}, "sm_tree", 0)
  /\ UNCHANGED <<pools, bsm_root, bsm_dirty, base_blk, locks, phase, counters>>

\* reparent_root or split_ib: the tree needs one more block.  Nothing in the
\* code limits the splits of a request; MaxSplits does, as a bound.
sm_grow(t) ==
  /\ At(t, "sm_tree") /\ phase = "open" /\ splits < MaxSplits
  /\ splits' = splits + 1
  /\ CallBsm(t, "alloc", {}, "sm_node", 0)
  /\ UNCHANGED <<pools, roots, base_blk, locks, phase, overlap, leaked, spent,
                 ops, sessions>>

sm_node(t) ==
  /\ At(t, "sm_node")
  /\ sm_nodes' = sm_nodes \cup th[t].brun
  /\ th' = [th EXCEPT ![t].pc = "sm_tree", ![t].brun = {}]
  /\ UNCHANGED <<sm_free, bsm_free, sm_clean, user, roots, base_blk, locks, phase,
                 counters>>

\* check_removed_ib: a node that was emptied, and so is dirty, is freed.
sm_shrink(t) ==
  /\ At(t, "sm_tree") /\ phase = "open" /\ splits < MaxSplits
  /\ splits' = splits + 1
  /\ \E b \in sm_nodes \ sm_clean :
       /\ sm_nodes' = sm_nodes \ {b}
       /\ CallBsm(t, "free", {b}, "sm_tree", 0)
  /\ UNCHANGED <<sm_free, bsm_free, sm_clean, user, roots, base_blk, locks, phase,
                 overlap, leaked, spent, ops, sessions>>

\* A request gets at most c blocks, fewer when the extent it finds is short.
\* Which ones makes no difference here: the lowest stand for any others.
RunsOf(free, c) ==
  {S \in SUBSET free :
     /\ Cardinality(S) \in 1 .. c
     /\ \A s \in S, b \in free : b < s => b \in S}

sm_do(t) ==
  /\ At(t, "sm_tree") /\ sm_dirty
  /\ \/ /\ th[t].call = "alloc"
        /\ \E run \in RunsOf(sm_free, th[t].cnt) :
             /\ sm_free' = sm_free \ run
             /\ th' = [th EXCEPT ![t].pc = th[t].back, ![t].run = run]
     \/ /\ th[t].call = "free"
        /\ sm_free' = sm_free \cup th[t].run
        /\ th' = [th EXCEPT ![t].pc = th[t].back, ![t].run = {}]
  /\ sm_lock' = None
  /\ UNCHANGED <<bsm_free, sm_nodes, sm_clean, user, roots, base_blk, bsm_lock,
                 phase, counters>>
-----------------------------------------------------------------------------
(***************************************************************************)
(* sm_alloc_space and sm_free_space of bsm, under bsm->lock.               *)
(***************************************************************************)
\* total_free_blocks == 0: the change of the tree of sm breaks off half-way.
\* What it leaves behind is the subject of SpaceManager, the model stops here.
bsm_empty(t) ==
  /\ At(t, "bsm") /\ bsm_lock = None
  /\ th[t].bcall = "alloc" /\ bsm_free = {}
  /\ phase' = "dry"
  /\ UNCHANGED <<pools, roots, base_blk, locks, th, counters>>

bsm_enter(t) ==
  /\ At(t, "bsm") /\ bsm_lock = None
  /\ th[t].bcall = "alloc" => bsm_free # {}
  /\ bsm_lock' = t
  /\ Goto(t, IF bsm_dirty THEN "bsm_tree" ELSE "bsm_cow")
  /\ UNCHANGED <<pools, roots, base_blk, sm_lock, phase, counters>>

\* Bug: base_blk is cleared before the root takes it.
bsm_cow_zero(t) ==
  /\ At(t, "bsm_cow") /\ base_blk # 0
  /\ th' = [th EXCEPT ![t].pc = "bsm_old", ![t].old = bsm_root]
  /\ base_blk' = 0
  /\ bsm_root' = base_blk'
  /\ bsm_dirty' = TRUE
  /\ UNCHANGED <<pools, sm_root, sm_dirty, locks, phase, counters>>

\* Bug: base_blk is not cleared.
bsm_cow_kept(t) ==
  /\ At(t, "bsm_cow") /\ base_blk # 0
  /\ th' = [th EXCEPT ![t].pc = "bsm_tree"]
  /\ bsm_root' = base_blk
  /\ bsm_dirty' = TRUE
  /\ UNCHANGED <<pools, sm_root, sm_dirty, base_blk, locks, phase, counters>>

\* set_ib_dirty of $BASE; ofs_alloc_space gives base_blk, which the assertion
\* ASSERT(ct->base_blk != 0) requires.
bsm_cow(t) ==
  /\ At(t, "bsm_cow") /\ base_blk # 0
  /\ th' = [th EXCEPT ![t].pc = "bsm_old", ![t].old = bsm_root]
  /\ base_blk' = 0
  /\ bsm_root' = base_blk
  /\ bsm_dirty' = TRUE
  /\ UNCHANGED <<pools, sm_root, sm_dirty, locks, phase, counters>>

\* ofs_free_space for $BASE, ASSERT(ct->base_blk == 0).
bsm_old(t) ==
  /\ At(t, "bsm_old") /\ base_blk = 0
  /\ base_blk' = th[t].old
  /\ th' = [th EXCEPT ![t].pc = "bsm_tree", ![t].old = 0]
  /\ UNCHANGED <<pools, roots, locks, phase, counters>>

base_assert(t) ==
  \/ At(t, "bsm_cow") /\ base_blk = 0
  \/ At(t, "bsm_old") /\ base_blk # 0

bsm_do(t) ==
  /\ At(t, "bsm_tree")
  /\ \/ /\ th[t].bcall = "alloc"
        /\ \E run \in RunsOf(bsm_free, 1) :
             /\ bsm_free' = bsm_free \ run
             /\ th' = [th EXCEPT ![t].pc = th[t].bback, ![t].brun = run]
        /\ spent' = IF th[t].bback = "sm_node" THEN spent + 1 ELSE spent
     \/ /\ th[t].bcall = "free"
        /\ bsm_free' = bsm_free \cup th[t].brun
        /\ th' = [th EXCEPT ![t].pc = th[t].bback, ![t].brun = {}]
        /\ UNCHANGED spent
  /\ bsm_lock' = None
  /\ UNCHANGED <<sm_free, sm_nodes, sm_clean, user, roots, base_blk, sm_lock,
                 phase, overlap, leaked, bounds>>
-----------------------------------------------------------------------------
\* init_super_block and the first half of create_system_objects: the inodes
\* of $BASE and $SPACE follow the super block, their roots are dirty, all
\* other blocks are given to sm.
Init ==
  /\ sm_free = 3 .. Total - 1 /\ bsm_free = {}
  /\ base_blk = 0
  /\ bsm_root = 1 /\ sm_root = 2
  /\ sm_dirty = TRUE /\ bsm_dirty = TRUE
  /\ sm_nodes = {} /\ sm_clean = {} /\ user = {}
  /\ sm_lock = None /\ bsm_lock = None
  /\ th = [t \in Threads |-> Idle]
  /\ phase = "new"
  /\ overlap = FALSE /\ leaked = {} /\ spent = 0
  /\ ops = 0 /\ sessions = 0 /\ splits = 0

Start(t) == create_system_objects(t) \/ ofs_alloc_space(t) \/ ofs_free_space(t)

Step(t) ==
  \/ reserve_base(t) \/ set_base(t) \/ no_space(t)
  \/ check(t) \/ count(t) \/ give(t) \/ done(t)
  \/ sm_empty(t) \/ sm_enter(t) \/ sm_dirty_path(t) \/ sm_copy(t) \/ sm_cow(t)
  \/ sm_grow(t) \/ sm_node(t) \/ sm_shrink(t) \/ sm_do(t)
  \/ bsm_empty(t) \/ bsm_enter(t) \/ bsm_cow(t) \/ bsm_old(t) \/ bsm_do(t)

Next == reopen \/ \E t \in Threads : Start(t) \/ Step(t)

\* The scheduler runs every thread; a lock that is free is granted in the end.
Fairness == \A t \in Threads : WF_vars(Step(t))

Spec == Init /\ [][Next]_vars /\ Fairness
-----------------------------------------------------------------------------
(***************************************************************************)
(* Properties.                                                             *)
(***************************************************************************)

\* Every variable has its type.
TypeOK ==
  /\ sm_free \subseteq Block /\ bsm_free \subseteq Block
  /\ sm_nodes \subseteq Block /\ sm_clean \subseteq sm_nodes
  /\ user \subseteq Block /\ leaked \subseteq Block
  /\ base_blk \in {0} \cup Block
  /\ sm_root \in Block /\ bsm_root \in Block
  /\ sm_dirty \in BOOLEAN /\ bsm_dirty \in BOOLEAN
  /\ sm_lock \in Threads \cup {None} /\ bsm_lock \in Threads \cup {None}
  /\ phase \in {"new", "creating", "open", "unusable", "aborted", "dry"}
  /\ \A t \in Threads :
       /\ th[t].call \in Calls /\ th[t].bcall \in Calls
       /\ th[t].run \subseteq Block /\ th[t].brun \subseteq Block
       /\ th[t].cnt \in 0 .. LenMod - 1

\* The places a block can be in, as indexed sets.
Places ==
  <<sm_free, bsm_free, sm_nodes, user, {sm_root}, {bsm_root}, {base_blk} \ {0}>>

InPlaces == UNION {Places[i] : i \in 1 .. 7}

\* Threads that refill bsm, copy roots and split nodes at the same time never
\* put a block into two places: no block is free twice, free and in use, or
\* the root of two trees.
OneOwner ==
  \A i, j \in 1 .. 7 : i # j => Places[i] \cap Places[j] = {}

\* As long as requests come one after the other, the blocks that are neither
\* free nor in use when none runs are exactly those whose free has failed in a
\* full container: no failed allocation, refill, root copy or reopen loses
\* another one, and none of these is ever found again.
NothingLost ==
  (~overlap /\ phase = "open" /\ \A t \in Threads : th[t].pc = "idle")
    => Block \ InPlaces = leaked

\* ASSERT(ct->base_blk != 0) and ASSERT(ct->base_blk == 0) hold whenever the
\* root of bsm is copied; and bsm, which reserve_base_space keeps filled, runs
\* dry only if splits took more than MIN_BLK_NUM blocks since a request last
\* found it full enough.  Copied nodes give back what they take.
ReserveEnough ==
  /\ \A t \in Threads : ~base_assert(t)
  /\ phase = "dry" => spent > MIN_BLK_NUM

\* ASSERT(blk_cnt != 0): a refill never asks for nothing.
RefillAsserts == phase # "aborted"

\* The locks are taken in the order sm, bsm: every request ends.
RequestsEnd ==
  \A t \in Threads :
    th[t].pc # "idle" ~> (th[t].pc = "idle" \/ phase \in {"aborted", "dry"})
=============================================================================
