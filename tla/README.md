# Verification of the index file system

TLA+ models of the object system in `src/object_system`: a store of
containers, each a file of blocks that holds objects, each object a B-tree of
keys and values. The models say what the code does, TLC checks them on small
instances, and TLAPS proves theorems about them for every value of the
constants. Source lines are given as `file:line` below `src/`.

## 1. The system

### 1.1 How the parts fit together

```
   tools / tests            ofs_* calls of concurrent threads
        |
   container manager  ----- list of containers, ct_lock, create/open/close/commit
        |        \
   object manager  \        objects of a container, handles, $OBJID: objid -> inode block
        |           \
   B-tree  ------- metadata cache    copy-on-write index blocks, dirty/clean entries
        |               |
   space managers       |            sm: extents in $SPACE, bsm: extents in $BASE
        |               |
   block reads/writes: fixup, super block ring ---- one file through stdio
```

A container has three objects of its own: `$BASE` (id 0), `$SPACE` (id 1) and
`$OBJID` (id 2). User objects have ids from 128. The inode of an object is a
block that also holds the root of its table. The interactions that make the
system hard:

* The B-tree needs blocks from the space manager, whose free list is itself a
  B-tree, which needs blocks from a second space manager, whose free list is a
  B-tree, too. The recursion ends at one block kept aside, `base_blk`.
* A node moves to a new block at its first change after a commit
  (`set_ib_dirty`); the parent must then point to the new block, up to the root,
  and for the root of an object `$OBJID`, for the roots of the system objects
  the super block.
* Nothing but the super block of a new container is written before a commit or
  close, which writes the dirty cache entries in the order of their blocks, then
  the super block.
* `reserve_base_space` runs before a request takes any lock.

### 1.2 Inventory

**Space manager** (`ofs_space_manager.c`). State: extents in the tree of a space
object, `first_free_block` (a rotating cursor), `total_free_blocks`, a rwlock.
Operations: `ofs_init_sm`, `ofs_init_free_space`, `sm_alloc_space` /
`alloc_space`, `sm_free_space` / `free_space`, called by `ofs_alloc_space`,
`ofs_free_space` and `reserve_base_space`. Hard: the cursor may be anywhere
relative to the extents; overlapping keys compare equal; the neighbours of a
freed range are merged while the tree cursor moves; a tree operation in the
middle may fail; the unlocked refill. Correct when: extents are disjoint, a
block has one owner, the counter is the number of free blocks, the reserve is
there whenever a tree needs it, requests end.

**Block reads and writes, super block** (`ofs_block_rw.c`). State: the slots of
the super block, `seq_no`, and below it the last slot written, which waits in the
buffer of the stdio stream. Operations: `ofs_update_super_block` (next slot of
the ring), `ofs_read_super_block` (`get_last_correct_block`), for other blocks
`ofs_update_block_fixup` and `ofs_read_block_fixup`. Hard: a process killed with
a slot in the buffer or inside a write, failed writes, wrap-around of the slot and of the
number. Correct when: an open finds the newest super block that was acknowledged,
or the one before it if nothing has moved the stream since.

**Container manager** (`ofs_container_manager.c`). State: list of open
containers with `ref_cnt`, per container `ct_lock`, the super block in memory,
`base_blk`, the list of open objects, the cache. Operations:
`ofs_create_container`, `ofs_open_container`, `ofs_close_container`,
`commit_container_modification`. Hard: order of writes against crashes, ignored
results of a flush, error paths that release half of what was made. Correct
when: what a commit or close acknowledged is found again.

**Object manager** (`ofs_object_manager.c`). State: per open object its root
cache, `ref_cnt`, handles. Operations: `ofs_create_object`, `ofs_open_object`,
`ofs_close_object`, `validate_obj_inode`, `recover_obj_inode`,
`ofs_get_object_info`. Hard: the inode outlives the object in the container's
cache; `$OBJID` must follow every move; last block of a container. Correct
when: no two objects share an inode block and `$OBJID` never points to a free
block.

**Metadata cache** (`ofs_metadata_cache.c`). State: entries by block (EMPTY,
CLEAN, DIRTY, FLUSH) in a tree of the object and one of the container.
Operations: read, change of the block of an entry, release of an object's
entries, flush, commit. Hard: stale entries after a block was given away, failed
reads, flush that ends at the first error. Correct when: a free block has no
entry, every dirty entry is written by the next successful commit.

**B-tree** (`ofs_btree.c`). State: index blocks in caches, a cursor stack of up
to `TREE_MAX_DEPTH` (16) levels. Operations: search, insert (`tree_insert_ie`,
`split_ib`, `reparent_root`), remove (`tree_remove_ie`, `check_removed_ib`),
walks, `index_update_value`, `set_ib_dirty`. Hard: multi-level splits and
removals, a cursor that stays valid over a removal, path copies that fail half
way. Correct when: the tree is the ordered map its callers believe it to be,
and every block on the path of a dirty block is dirty.

**Collation and keys** (`ofs_collate.c`). Pure: comparison rules and the
conversion of integers to and from byte strings. Correct when: the order is
total (for extents: on disjoint ones) and the conversion is inverse.

**AVL tree** (`avl.c`). State: nodes with child, parent and which-child links
and a balance. Used by the caches and the lists of objects and containers.
Hard: rotations keep three kinds of links right; callbacks of a walk remove the
node they are given. Correct when: it stays a balanced search tree and walks
visit ascending keys.

**File access** (`file_if.c`). State: one stdio stream and a rwlock per file.
Operations: positioned read and write, size, open, close. Hard: threads share
the position of the stream; the C library keeps written data back, so a write
that returned may be lost in a crash, or fail in a later call. Correct when:
each call works at its own position.

**Log** (`log.c`). State: the open file, its line counter, a rwlock. Hard: the
counter and the handle are read outside the lock while another thread renames
the file. Correct when: no line is lost.

**Containers of `public/`** (`ring_buffer.h`, `queue.h`, `stack.h`, `dlist.h`,
`hashtab.c`). State: indices or links. Correct when: they return what was put
in, in their order, over any number of calls.

**Tools** (`src/tools`). Commands that are sequences of calls of the object
system, and `perf`, which starts threads that work on one object. State: the
handles they keep, a thread counter. Hard: every failure must give back what was
taken; the counter is read without its lock. Correct when: the reference
counts are the handles out, and every command ends.

**Not part of the core**: server and client, command line and utilities,
libraries that the Makefile does not link (`radix_tree.c`, `ini.c`, `mml`,
`cmm`), code switched off with `#if 0` (`ofs_extent_map.c`) and the empty
adapter directories.

`PROJECT.json` lists each component with what is modelled, and under "hazards"
each thing that a test would hardly reach, with its line and the properties that
catch it.

## 2. The modules

| module | models | composed with |
|---|---|---|
| `BlockPool` | abstract: what a space manager promises | implemented by `SpaceManager`, used as a pool by `BaseSpace` and `Container` |
| `SpaceManager` | one `space_manager_t` over its extents | refines `BlockPool` |
| `SpaceManagerProofs` | theorems about `SpaceManager` | extends it |
| `BaseSpace` | sm, bsm, `base_blk` and concurrent threads | two pools |
| `BaseSpaceProofs` | theorems about `BaseSpace` | extends it |
| `DurableCell` | abstract: one value replaced atomically on disk | implemented by `SuperBlock`, used by `Container` |
| `SuperBlock` | the ring of super block slots | refines `DurableCell` |
| `SuperBlockProofs` | theorems about `SuperBlock` | extends it |
| `Container` | container, objects, `$OBJID`, cache, commit, crash | a pool and a durable cell |
| `ContainerProofs` | theorems about `Container` | extends it |
| `OrderedMap` | abstract: a map changed by one call at a time | implemented by `BTree` |
| `BTree` | one index object with its cached nodes | refines `OrderedMap` |
| `BTreeMC` | entry lengths for the runs of `BTree` | extends it |
| `Avl` | the AVL tree | part of `Libraries` |
| `AvlProofs` | theorems about `Avl` | extends it |
| `Collate` | the rules of comparison and the encodings | part of `Libraries` |
| `BoundedContainer` | abstract: a container with a limit and an order | implemented by `Buffers` |
| `Buffers` | ring buffer, queue, stack, list, hash table | refines `BoundedContainer`, part of `Libraries` |
| `PositionedFile` | abstract: cells read and written at positions | implemented by `FileIf` |
| `FileIf` | threads, stream, C library buffer, crash | refines `PositionedFile`, part of `Libraries` |
| `FileProofs` | theorems about `FileIf` and `Log` | extends both |
| `LibraryProofs` | theorems about `Collate` and `Buffers` | extends both |
| `Log` | tracing threads, renaming | part of `Libraries` |
| `Libraries` | the five parts side by side, one of them in each behaviour | |
| `Tools` | commands, perf threads, reference counts, locks | |
| `ToolsProofs` | theorems about `Tools` | extends it |

The components are layered by their promises and not by one product of state
spaces: `SpaceManager` is shown to implement the pool that the layers above it
use, `SuperBlock` the atomic value, `BTree` the map that `SpaceManager` and
`$OBJID` are sets of entries of. The configurations (`*.cfg`) instantiate the
modules directly where their constants are numbers, small sets and model values;
`BTreeMC` defines the functions `BTree` needs.

Definitions whose comment begins with "Bug:" are not part of any
specification. Each is a plausible mistake in a definition of the code, used to
confirm that the property it is meant for would notice.

### 2.1 SpaceManager

`extents` is the set of entries of the extent tree, `first_free_block` and
`total_free_blocks` are the fields of the same name. `used`, `lost` and `drift`
observe: blocks that callers own, blocks dropped by a failed tree operation,
whether the counter was knowingly made wrong. Each public operation runs under
`sm->lock` and is one action per way it ends:

| action | code |
|---|---|
| `sm_alloc_space` | search near the cursor, `alloc_space` cuts the entry in up to three, the cursor moves on, the counter goes down |
| `sm_alloc_space_none` | the tree is empty although the counter is not 0: both are reset |
| `sm_alloc_space_fails` | a tree operation returned an error: `AllocLeaves` are the trees it may leave; when the error of the level below is `-INDEX_ERR_NO_FREE_BLOCKS` cursor and counter are reset, too |
| `sm_free_space` | merge with next and previous entry, insert, credit |
| `sm_free_space_overlap` | the range overlaps an entry: nothing is inserted, success is returned, the counter is credited |
| `sm_free_space_fails` | a tree operation returned an error: `FreeLeaves` are the trees it may leave |

What the shape of the tree decides is the variable `height`, chosen at the
start. In a tree of one node a search for overlapping entries finds the lowest
and a walk to the previous entry always works; in a deeper one an entry of an
inner node may be met first, and the removal of the next entry may leave the
cursor on the previous one, which the walk then steps over. An operation that fails has done nothing, half of its work or
all of it, because `tree_insert_ie` and `remove_leaf` change the cached node before
`set_ib_dirty` may fail (`ofs_btree.c:949`, `:1039`): the range may be in the tree
although the call returned an error. In a deeper tree entries it was not about may go, too
(`Left`): those that an unfinished split, demotion or successor has taken out. `U32` cuts lengths
to the `uint32_t` variables of `alloc_space` and `free_space`.

### 2.2 BaseSpace

One step per lock operation or access to an unlocked variable. A thread has a
program counter and the arguments of the request to sm and of the nested
request to bsm. `reserve_base`, `set_base`, `check`, `count` and `give` are the
unlocked steps of `reserve_base_space`; `count` is the second read of
`total_free_blocks`. `sm_dirty_path`, `sm_copy`, `sm_cow`, `sm_grow`,
`sm_shrink` are what the tree of `$SPACE` asks of bsm while sm is locked;
`bsm_cow` and `bsm_old` the copy of the root of `$BASE` through `base_blk`,
with the two assertions of `ofs_alloc_space` and `ofs_free_space` as guards
and `base_assert` as the state in which one fails. A request that finds no block
ends with `fail`; when it was to free a block, nobody keeps that block any more,
since `set_ib_dirty` has given the node its new one before (`ofs_btree.c:73-104`):
`leaked` collects these blocks (observation). `spent` (observation) counts the blocks that
splits took since a check of the refill loop last found bsm full enough. When bsm is empty in
the middle of a change of the tree of sm, the phase becomes `"dry"` and the
behaviour ends; what the change leaves is what `SpaceManager` allows a failed
operation to leave. Creation of the container and close/open
(`reopen`, after which no root is dirty) are actions. `overlap` records whether
two requests ever ran at the same time. Which blocks of the pool a request gets
makes no difference here, so it gets the lowest ones; that it may get fewer
than it asked for stands for fragmentation.

### 2.3 SuperBlock

`slots` is the block in the file: `blk_id`, `seq_no`, the repetition of `seq_no`
at the foot, the content (a version number). `os_file_write` does not flush, so
`ofs_update_super_block` puts its slot (number `seq_no % slots`) into `pend`, the
buffer of the stream, and returns; the slot before it gets into the file with the seek
that precedes the write. `other_io` is any other access to the container file,
which moves the stream, too; `close_container` ends with `fclose`, whose result is ignored. A
seek, write or close that fails (`_fails`, `flush_fails`) leaves the slot in the
file wholly, in part or not at all, and what is in the buffer may be gone or be
written later; `seq_no` advances all the same. `crash` is a process that is
killed: the buffer is lost, or was being written. A write in part leaves the
old foot (`FrontOnly`): the code writes through one file front to back.
`LastCorrect` is `get_last_correct_block`: forwards over consecutive numbers,
then backwards to a whole slot. `ofs_init_super_block` is one step up to the first
access after it, because no container exists for anybody before. Observations:
`acked` is the version of the last update that returned, `settled` the one that is in the
file for certain, `round` the updates in a row that are in the file since the
last failure.

`DurableCell`, which it implements, promises no more than this allows: a killed
process loses the last update that returned as a whole or not at all, and none before
it; any later access to the file, or a close, makes it certain; what an open has
returned is not lost later.

### 2.4 Container

An object is one inode block, its content the number of its last change.
`info` is the list of open objects (handles, block of the root, whether the root
has moved since the last commit), `cache` the entries of the container and its
objects by block. `disk` and `disk_sb` are what the process reads back, `file` is
what a crash leaves: both without the writes still in the buffer of the
stream. `WriteRoot` is a change of a root: cached content first, then
`set_ib_dirty`, which moves it to a new block and frees the old one at once.
`commit_container_modification` is `validate_one_user_object` for each object,
`validate_system_objects`, which sets `flag_dirty` (`FLAG_DIRTY`) if a root has
moved, then one `flush_block` per dirty entry in ascending order and `update_super_block`.
The code writes the super block only with `FLAG_DIRTY`, and it clears the flag and
cleans the roots whether the write succeeded or not: `flush_super_block` is the end
in which all went well, `flush_super_block_fails` the one in which the super block was not
written, `flush_fails` the one in which a block was not, whose result the code
ignores. `AfterError` says what a failing access leaves: a seek that fails loses
what was in the buffer, which an earlier call had counted as written. `crash` keeps what the
file has, or, when the process exits, the buffer, too. History: `value` is the last acknowledged
change of each object, `safe` its value at the last commit or close that met no
error, `reopened` the objects that were opened while their inode waited to be written, `missing`
the kinds of writes (`"block"`, `"super"`) that were counted as done and that the
file does not have. The container ends in state `"lost"` if it is closed while one
is missing.

### 2.5 BTree

A node is the sequence of its entries with the END entry last; the root is part
of the inode and has less room than other nodes. An entry has the length it
takes in a leaf, and one unit more where it has a child. Every call of the
interface runs under `attr_lock` and is one action; inside, each function of
`ofs_btree.c` is an operator of the same name on a record that holds the tree,
the cursor stack and the return code. Where the code steps through a node by
offsets, the model steps through positions, 0 being the BEGIN entry. `dirty` is
the set of DIRTY cache entries; `unsaved` (observation) the blocks whose buffer
was changed since it was written, `called` (observation) what the calls that
returned 0 should have left. `Commit` is the part of a commit that concerns one
table. A call that needs a block when none is left returns in the state it has
reached, as the code does (`BTreeFull.cfg`). Two things are assumed. Three entries with
child pointers fit into a block (`BTreeAssumption`): callers keep to this with keys and
values of at most `KEY_MAX_SIZE` and `VALUE_MAX_SIZE` in blocks of `BYTES_PER_BLOCK`,
`index_insert_key_nolock` itself does not look. And the free of an old block does not fail: where it does, `set_ib_dirty` ends before
the parent is told (`ofs_btree.c:99-104`, likewise `:993-998`); the tree is not
followed from there, `BaseSpace` counts the blocks lost.

### 2.6 Avl, Collate, Buffers, FileIf, Log in Libraries

`Avl` keeps the fields of each node and changes them in the order of
`avl_insert`, `avl_remove` and `avl_rotation`, the placeholder of `avl_remove`
included. Walks and `avl_destroy_nodes` are operators that the properties
evaluate in every tree reached. `Collate` has the six rules as functions; its
state is one triple of entries to compare, taken from all short strings, or from
extents with and without a length. `Buffers` holds one container of five kinds
and the result of the last call. `FileIf` has a step for each library call under
the lock of the file; a cell is what one call transfers. `LibraryFlush`,
`Crash` and the failing steps are the environment. `Log` has a step for each
access outside the lock and for each side of the rename; a line is its
number; `log_open` may fail to rename or to open the file. `BoundedContainer` allows refusals by
their reason, with two exceptions where the reason is the argument of the call,
which is not part of the state: a hash table may say "exist" whenever it
holds some key, a list "no node" at any time. None of the parts calls another but the log its file, so
`Libraries` puts them side by side and every behaviour belongs to one of them.

### 2.7 Tools

A command or thread is a sequence of calls, each of which runs under the lock of
the container list or the container and is one step. What the calls do below is
left to the other modules; here they count references (`ct.ref`, `ct.objs`) and
may fail wherever the code handles a failure. `ct.leaked` is the read lock that
`ofs_get_object_info` never releases: every later call that takes `ct_lock` for
writing waits for ever. `Spawn`, `CountUp`, `CountDown`, `Wait` and `Join` are the
steps of `test_performance` and its threads.

## 3. What is checked

All runs use breadth-first search to the end of the state space.

| run | module | bounds | states | shows |
|---|---|---|---|---|
| `sm_any` | SpaceManager | 6 blocks, requests of 1 to 3, one failed tree operation, both tree shapes, frees of free blocks | 144,034 | `TypeOK`, `ExtentsDisjoint`, `Conservation`, `TotalExact`, `Coalesced`, `AllocAssertsHold`, refinement `ImplementsPool` |
| `sb_faults` | SuperBlock | 4 slots, `seq_no` modulo 16, 20 updates, 2 failed seeks, writes or closes | 157,839 | `Healed`, refinement `ImplementsCell` |
| `bs_threads` | BaseSpace | 2 threads, 9 blocks, refill from 1 to 3, 3 requests, 1 close and open, 2 splits or removals | 272,028 | `TypeOK`, `OneOwner`, `NothingLost`, `ReserveEnough`, liveness `RequestsEnd` |
| `ct` | Container | 2 objects, 3 blocks, 2 handles, 3 changes, 2 opens, 1 failed access, symmetry over objects | 1,791,851 | `TypeOK`, `DurableUnlessReopened`, `InodesOwned`, `FreeUncached` |
| `bt` | BTreeMC | 9 keys, two entries in the root, three in a block, 14 blocks; states that differ in block numbers only count once | 10,383 | `TypeOK`, `Balanced`, `BlocksOwnedOnce`, `WalksInOrder`, `SearchExact`, `CleanIsOnDisk`, refinement `ImplementsMap` |
| `lib` | Libraries | 11 AVL keys; bytes of 4 values, numbers of 2 bytes; 4 items, limit 3, 2 buckets; 2 threads, 2 positions, 2 faults; 2 writers, 5 lines, 1 line per file, 3 seconds, 1 fault | 196,587 | `AvlBalanced`, `AvlWalksAll`, `AvlNearestExact`, `AvlDestroysOnce`, `CollateOrders`, `CollateMeans`, `EncodingsExact`, `ListWalksAll`, `LinesKept`, `LogBounded`, refinements `ImplementsContainer`, `ImplementsFile` |
| `tools` | Tools | 2 objects, 3 threads, 2 kept handles | 161,060 | `RefsExact`, `ThreadsOver`, liveness `CommandEnds` |

Runs that find a disagreement between the code and what a comment, an
assertion or the documentation says:

| run | what happens |
|---|---|
| `sb_unreadable` | A failed write leaves a blank slot; `seq_no` advanced all the same. A crash in the next write of slot 0 then stops both searches of `get_last_correct_block` (`ofs_block_rw.c:310`): no super block is found and the container cannot be opened. |
| `bs_abort` | Two threads refill bsm: the first reads `total_free_blocks` again (`ofs_space_manager.c:376`) after the second has filled it, asks for 0 blocks, and `ASSERT(blk_cnt != 0)` ends the program. |
| `ct_reopen` | An object is closed with changes and opened again: `recover_obj_inode` marks its cached inode clean (`ofs_object_manager.c:181`) although it was never written, and the next commit or close skips it. |
| `ct_crash` | A moved node's old block is free at once (`ofs_btree.c:99`), is given to another object and overwritten by a flush; a crash before the super block leaves a committed object without its inode. `README.md:5` promises consistent data at any time. |
| `bt_variable` | With entries of two lengths: `remove_node` (`ofs_btree.c:1104`) replaces an entry of an inner node by its successor; when that one is longer and the node has to split, the cursor ends elsewhere and the next entry removed is not the successor. One key is lost, another is in the tree twice. `README.md:10` promises variant lengths. |

Three more configurations belong to passing runs: each shows that an exception which a
property of that run makes is needed, because TLC finds the property without it
violated.

| configuration | property | what happens |
|---|---|---|
| `ContainerSuper` | `DurableOnceCommitted` | A commit cannot write the super block: the code logs it, clears `FLAG_DIRTY` (`ofs_metadata_cache.c:277-283`) and returns 0. The close that follows writes all its blocks and not the super block, so nothing that was acknowledged is found. |
| `BTreeFull` | `CleanIsOnDisk` | An object with three blocks: a removal finds none for the copy of the node. `remove_leaf` (`ofs_btree.c:1039`) has taken the entry out of the cached node before, the call returns an error, and the node stays `CLEAN`, which `ofs_metadata_cache.h:52` explains with "data in buffer is the same to data on disk". |
| `ToolsLock` | `CommandsAlwaysEnd` | `ofs_get_object_info` locks `ct_lock` for reading twice (`ofs_object_manager.c:606`, `:608`): after a list with an object, a command that opens or closes an object waits for ever. |

### 3.1 Why the bounds are enough

* `sm_any`: six blocks hold up to three separate extents, one before, at and
  behind the cursor, and requests shorter than, equal to and longer than an
  extent. All initial states (all blocks: sm; none: bsm; both shapes) are in
  the run. The theorems of section 4 remove these bounds.
* `sb_faults`: 20 updates go five times round the ring of four slots (the code
  has eight) and wrap `seq_no` once, so that the faults may hit every position
  of two rounds, before and after the wrap. A process may be killed between any two calls
  and in the middle of each, any number of times. The content of a slot is only
  compared, so larger numbers add nothing.
* `bs_threads`: the constants 10 and 3 of the code are 3 and 1, so that both sides
  of `ReserveEnough` happen: a request that takes a root copy and one split out of the
  reserve before it is refilled, and two splits in one request, after which bsm runs
  dry. The container gets full within the run, so refills and frees that
  fail are included. Three threads are outside the bound.
* `ct`: three blocks are the root of `$OBJID` and two inodes, or one inode and
  a place to move to: every change competes for the last block. Two objects can
  take each other's blocks. A change, a move, a commit with a failed write of a block or of
  the super block, a second commit that makes it good and two reopens all fit into
  one behaviour. In `ct` the crash
  comes when everything is written, because a crash at any time loses data,
  which `ct_crash` shows; `CrashDirty` is the switch.

* `bt`: entries have the largest size, so nodes have the fewest entries the
  code can meet and the tree gets deep soonest: nine keys give three levels, so
  splits, demotions and successors that cross two levels are included.
  14 blocks are never used up; larger successors are left to `bt_variable`, calls that
  find no block to `BTreeFull.cfg`.
* `lib`: eleven AVL keys give trees of height four, in which a removal goes on
  above its first rotation; a removal that rotates at two levels needs twelve,
  which the bounds leave out for time. Two byte positions with four values,
  among them 0, both cases of a letter and one that is negative as a `char`, tell all
  rules apart. The indices of the ring wrap within four calls. In `FileIf` one
  thread can stand between seek and transfer while the other waits, with
  pending data of both. Two log writers and one line per file make both rename
  at once; three seconds allow renames in the same second and in different ones.
* `tools`: with three threads one can be counted down before it is counted up
  while another runs and a third is not created. `CntMod` is any number above
  the threads.

### 3.2 Fairness

`BaseSpace` and `Tools` state it. In `BaseSpace`: weak fairness of each
thread's steps. The threads
are operating system threads, and no step waits for anything but the two
rwlocks, which are free again after finitely many steps of their owner; weak
fairness is enough because two threads do not compete for a lock for ever with a
bounded number of requests. No fairness is assumed of new requests or
of `reopen`. In `Tools`: weak fairness of the steps of a command that was given
and of each thread; nobody need give a command. A call is one step and waits only
for a lock that others hold during one step of theirs, or for the lock that is
never released, which `CommandEnds` excepts.

### 3.3 What the runs do not claim

* `bt`: a call that fails for want of a block may leave the tree wrong: nodes
  moved whose parents point to the old blocks, an entry removed whose
  replacement was not inserted. 14 blocks are enough for every call, so the properties of
  this run say nothing of such trees; `BTreeFull.cfg` shows the first step into one. Deeper
  trees than `TREE_MAX_DEPTH`, walks that change flags of blocks and failed reads
  are left out.
* `LinesKept` leaves out two renames in one second: the second one deletes
  what the first one renamed (`log.c:186`). A line traced while another thread
  renames the file is dropped (`log.c:294`) and counts as never traced.
* `ImplementsFile` promises what the code can: after a crash of the process, or
  a flush that fails, data whose write had returned may be missing. Nothing
  calls `fflush` or `fsync`.
* `CommandEnds` leaves out the commands that wait for the lock which
  `ofs_get_object_info` keeps; `ToolsLock.cfg` shows that they do wait.
* `sm_any`: a free of a range that overlaps a free extent returns 0 and
  credits the counter (`ofs_space_manager.c:175`); `TotalExact` says the counter
  is exact until then.
* `ImplementsContainer` would not notice a hash table that refuses a key it does not
  hold, as long as it holds another, nor a list that denies a position it has.

`NothingLost` names the blocks that are lost: those whose free failed because the
container was full. It holds for requests that do not overlap: with two at the same time
`base_blk` may be read as 0 while another thread copies the root of bsm, and the
block put there is then overwritten (`ofs_space_manager.c:362`, listed as a
hazard). `ReserveEnough` does not say that bsm never runs dry: nothing in the
code limits the splits between two refills. `Healed` says that failed writes hide
updates only until the next full round, and that the last update before a
kill may be missing. `DurableUnlessReopened` leaves out the objects of `ct_reopen`, and a
container that is closed while a write is missing that was counted as done
(`"lost"`; in `ContainerSuper.cfg` the close itself meets no error). `ofs_create_object` in a container with one free
block and a clean root of `$OBJID` ends the program in `avl_add`; the run
reaches that state (`ct = "aborted"`) and `FreeUncached` leaves it out.

## 4. What is proved

TLAPS proves the following for every value of the constants: any number of
blocks, threads, objects, handles, slots, lines and failures. Each component
has its proofs in a module of its own, which begins with the inductive
invariant `IInv` and ends with the theorems.

| module | theorem | says |
|---|---|---|
| `SpaceManagerProofs` | `AnySpecIInv` | the inductive invariant holds in every state |
| | `AnySpecTypeOK` | extents are not empty and inside the managed range |
| | `AnySpecExtentsDisjoint` | no two extents overlap |
| | `AnySpecConservation` | a block is free, owned or lost, and only one of them |
| | `AnySpecAllocAssertsHold` | the assertions of `alloc_space` never fail |
| | `AnySpecTotalExact` | the counter is the number of free blocks unless it drifted |
| | `AnySpecCoalesced` | in a tree of one node no two extents touch |
| | `AnySpecImplementsPool` | the specification implements `BlockPool` |
| `SuperBlockProofs` | `SpecIInv`, `SpecHealed` | once every slot was written again, an open finds the newest super block that was flushed, or a newer one |
| | `SpecImplementsCell` | the specification implements `DurableCell` |
| `BaseSpaceProofs` | `SpecIInv`, `SpecTypeOK` | types, and who has which block |
| | `SpecOneOwner` | no block is in two places, however requests interleave |
| | `SpecNothingLost` | without overlapping requests the blocks that disappear are those whose free failed |
| | `SpecRInv` | the inductive invariant of the reserve: `base_blk` and the blocks of bsm |
| | `SpecBaseAsserts` | `ASSERT(ct->base_blk != 0)` and `ASSERT(ct->base_blk == 0)` never fail |
| | `SpecReserveEnough` | bsm runs dry only after more than `MIN_BLK_NUM` splits that no passed check of the refill loop came between |
| `ContainerProofs` | `SpecIInv`, `SpecTypeOK` | types, and where each inode is and what it holds |
| | `SpecInodesOwned` | no two objects share an inode block, none of them is free |
| | `SpecFreeUncached` | a free block has no cache entry |
| | `SpecDurable` | what was committed is found again unless a write counted as done is missing (`DurableUnlessReopened`) |
| `ToolsProofs` | `SpecIInv`, `SpecRefsExact` | the reference counts are the handles out |
| | `SpecThreadsOver` | no thread works any more when the threads are joined |
| `FileProofs` | `LogSpecBounded` | the file stays near its limit |
| | `LogSpecLinesKept` | no line is lost or out of order |
| | `FileSpecIInv` | one thread at a time, at its own position, at most one pending write |
| | `FileSpecImplementsFile` | the specification implements `PositionedFile` |
| `LibraryProofs` | `CollateSpecOrders` | each of the six rules orders the entries a tree may hold together |
| | `CollateSpecMeans` | a range finds the extents it overlaps; binary keys compare as numbers |
| | `CollateSpecExact` | numbers and extents come back from their stored form, the shortest |
| | `BufSpecImplements` | the containers of `public/` implement `BoundedContainer` |
| | `BufSpecWalksAll` | a walk whose callback removes nodes meets each node once, in order |
| `AvlProofs` | `AvlInductive` | the links, balances and the count are those of one balanced search tree |
| | `AvlStaysBalanced` | each balance is the difference of the heights, at most one |
| | `AvlFindsNearest` | searches find the key or its neighbours |
| | `AvlWalkShowsAll` | a walk whose callback removes nodes shows each node once, in order |
| | `AvlDestroysEachOnce` | `avl_destroy_nodes` returns each node once, children first |

The theorems about `Log`, `FileIf`, `Collate`, `Buffers` and `Avl` are about
`LogInit /\ [][LogNext]_log`, `FileInit /\ [][FileNext]_<<file, replied>>` and
so on, the behaviours that `Libraries` puts side by side.

### 4.1 Assumptions

Each module that declares constants names its assumption (`SpaceAssumption`,
`SuperBlockAssumption`, ...); TLC evaluates them in every run. Most say no more
than that bounds are natural numbers and that a value like "no thread" is not a
thread. The others:

* `Fits` (a hypothesis of the theorems about `SpaceManager`): the pool has fewer
  blocks than the modulus of `uint32_t`. `alloc_space` keeps the length of an
  entry in a `uint32_t`; an extent of 2^32 blocks would have length 0 and fail
  `ASSERT(len != 0)`.
* `SuperBlockAssumption`: there are at least two slots, and their number divides
  the modulus of `seq_no`, which is greater. The code has 4096 / 512 = 8
  slots (`ofs_globals.h:60`, `ofs_layout.h:47`) and a modulus of 2^16. With one
  slot a write that a crash cuts off would leave nothing to find.
* `BaseSpaceAssumption`: a container has more than three blocks (two roots and
  the reserve) and a refill asks for fewer than `LenMod` blocks.
* `~CrashDirty` (a hypothesis of the theorems about `Container`): a crash comes
  only when nothing waits to be written. Without it `DurableUnlessReopened` is
  false, which the run `ct_crash` shows. Failed reads and writes of blocks and of the super
  block, a failed close and a buffer that a failed seek or a kill loses remain in. `BlankAssumption` says that an unwritten block is
  told from an inode.
* `LogAssumption`: finitely many threads, for the counting in `LogBounded`.
  `ToolsAssumption`: fewer threads than the modulus of `threads_cnt`.
* `CollateAssumption`: an even base greater than 3 (256 in the code), and the
  last block of every extent fits into a number (the code computes it in a
  `uint64_t`).
* `AvlAssumption`: the keys are finitely many natural numbers; the model's loops
  have as many turns as there are keys, and one more, and the proofs show that
  this is enough for every loop to end as the code's does.
* `BuffersAssumption`: the places and buckets are positive numbers, and the
  members that exist are finitely many natural numbers: a walk over a list ends
  because its nodes are finitely many.

### 4.2 The arguments

**Space manager.** `IInv == TypeOK /\ ExtentsDisjoint /\ Conservation`.
Disjointness is not inductive alone: that the merged entry of `free_space`
touches no other entry follows from the freed range being owned and thus not
free (`Conservation`); and `Conservation` needs disjointness, because removing
an entry must remove its blocks from nothing else. The lemmas go from
arithmetic of ranges (`InRun`, `U32Id`, `ExtentFacts`) over replacing entries
of a disjoint set (`Replace`) to what one operation does (`AllocSplit`,
`AllocEffect`, `MergedFacts`, `FreeEffect`), then to one lemma per action.
`NextTotal` counts with the same effects. `NextCoalesced` needs that the next and
the previous entry which `free_space` looks up are all that can touch the freed
range (`ReplaceApart`, `MergedApart`). `NextPool` maps each step to a step of
the pool.

**Super block.** `Healed` speaks of what an open would find, so the invariant
says which updates are in the slots on disk: `Fresh(n, r, d)`, the last r updates are in
the r slots before that of number n (in the first turn slots may still be blank,
and the write of number n may have been cut off), the newest with content d.
While the super block is open this holds with the number of the first update that is
not on disk, `DiskNext` (the one in the buffer of the stream if it is the last
update, else the next), with the count `round` of updates since the last failure, and
with `settled` as the newest content (`OpenInv`); a seek moves `DiskNext` on by the slot
it flushes (`FlushFresh`). After a close or a crash only the
slots are left, and some number is fresh in all of them (`ClosedInv`), which for
a write that was cut off is the one before. That `LastCorrect` then finds the
newest slot is the longest part: the forward search stops at the end of the
newest run, across the end of the ring and of the numbers, and a torn slot makes
the backward search take its predecessor. It rests on division by the number of
slots (`Division`, `OneRemainder`).

**Base space.** `OneOwner` names only the places; a block in the hands of a
running request is in none, and the proof must know that it is not in one, too.
`IInv` therefore makes every request an owner: what it got from the pool
(`run`), what its nested request got (`brun`), the old root it has copied
(`old`) and the block it is to free (`blk`), next to the seven places; owners
are disjoint, and without overlap they cover, with `leaked`, all blocks. Each action moves
blocks from one owner to another. A thread in the tree of sm has the lock of sm,
so the node that it moves stays in the tree meanwhile.
`ReserveEnough` needs another invariant, `RInv`. For `base_blk`: the root of bsm is
copied under the lock of bsm and `base_blk` is empty only while it is (`BaseInv`);
the root of sm is dirty only when that of bsm has been copied before (`Copied`),
so a request for `base_blk`, which is made during the creation only or while
another thread copies the root, never overwrites an expected 0. For the blocks of bsm
the request that has the lock of sm is charged what it owes (`Backed`): a node
that moves takes a block and gives one back before the next one moves (`Short`),
only a split keeps its block, which `spent` counts, so the blocks left and `spent`
together always exceed `MIN_BLK_NUM`, however many splits there are, and an empty
bsm means that `spent` alone does. The start of this chain is the creation, in
which nothing is taken from bsm and which ends with bsm filled (`EarlyInv`).

**Container.** `Core` says where each inode is: in the map of `$OBJID`, or for
an open object that has moved in `info`; these places are different allocated
blocks (`Apart`), each cache entry is the inode of an object and waits for the
flush if that object is closed (`Cached`), and the map is right for every object
that has not moved (`Mapped`). It takes these parts as arguments, because
`close_object` and `commit_container_modification` change them in two steps.
`InodesOwned` alone is not inductive: an inode moves to a free block, so free
blocks must have no entries, so all entries must be inodes. The super block on
disk is right as long as the root of `$OBJID` has not moved and no write of it is
missing (`SuperInv`); what the blocks hold is said while no block write is missing, and
nothing is said of a container without handles once one is (`Alive`, `Excluded`). That is how the invariant
survives a super block that fails and one that a later commit writes: `missing` leaves out
what a successful write of the super block has made good. A block is free
for `$OBJID` to move to whenever another object has moved (`RoomInv`), so that
an update of `$OBJID` for that object never fails. For
`DurableUnlessReopened` the invariant says what each inode block holds in memory
and on disk (`Kept`), also in the middle of a flush.

**Tools.** The references are sums over threads; the lemmas count what changes
when one actor takes a step. `threads_cnt` is the number of threads that have not
counted down, less the one that was created and not counted yet, modulo
`CntMod`: it wraps when that thread counts down first, and `Wait` cannot end
then.

**Log.** Only a writer that renames the file holds the lock from one step to
the next, and the file is not open meanwhile. The writers that have written and
not yet looked at the counter are counted against what exceeds the limit. For
`LinesKept` the files, the open one last, hold ascending line numbers that
together are all lines (`Ordered`); files named after a second to come, or one at
which nothing was renamed, are empty, so a rename puts its file behind all others.

**File.** Only the owner of the lock works; a thread between seek and transfer
finds nothing pending and the stream at its own position (`OwnerInv`), so at
most one write is ever pending (`PendInv`). With that the view of
`PositionedFile` (data with the pending write, data without it, positions where
they differ) changes like the abstract one: `Seek` and `LibraryFlush` are
`Sync`, a failing seek is `Fail` or `Lose`, `CloseFile` and `Crash` are `Lose`.

**Collation.** The library's induction theorems cannot be instantiated here, so
induction and recursion over the naturals are proved from the existence of a
smallest element of a set of numbers (`Smallest`, `Induct`, `Recursion`).
Strings differ at a first place, or one starts with the other; a rule that
compares place by place is an order because the first difference of x and z is
the smaller of those of x, y and of y, z. Binary keys are read from the last
byte to the first: two readings of one length differ as their highest different
digits do, and a longer key without leading zeros is the larger number. The
encodings are inverted by quotient and remainder, digit by digit; that they are the
shortest follows because the last digit written is not 0.

**Containers.** `BufInv` says which sequence a container stands for. Ring
buffer and queue: place i of the content is place head + i - 1 of the array,
less `Limit` when that passes its end (`RingIs`, `Wraps`). List: `Chain(l, s)`,
following the links from the head one meets s, following them backwards its
reverse, and nodes outside are unlinked; additions and removals change the links
of three nodes, which differ because a node is in the chain only once
(`ChainAdd`, `ChainDel`). A walk keeps the subsequence of the nodes not taken
out and always stands on a node that is still linked (`WalkIs`); that
backward walks are right follows from the mirrored list (`ChainMirror`). Hash
table: chains ascend, so the loops stop at the key or where it belongs (`StopIs`), and
an insertion into a chain is one into all chains in a row (`ChainsInsert`).

**AVL tree.** `AvlIInv` says that some set H of keys, sets `sub[x]` (what is
below x, with x) and levels `ht[x]` make `avl` a tree: child, parent and
which-child links agree (`Linked`), smaller keys are below on the left and greater
ones on the right (`Ordered`), each balance is the difference of the levels of the
children (`Levels`), and `num` is the size of H. `sub` is what makes this provable without
induction over trees: its sizes fall along the links (`Masses`), so loops down
or up the links end in the turns they are given, and what holds at the root and
passes to children, or at leaves and passes to parents, holds everywhere
(`FromRoot`, `FromLeaves`). In the middle of an insertion or a removal the levels are wrong by one
at one place (`Pending`); each turn of the way up moves this place to the parent or
ends it (`GrowStep`, `ShrinkStep`), and a rotation, single or double, is one or two
changes of six links (`Turned`, `TurnShape`) after which the levels are right
below (`OnceRises`, `TwiceRises`). The order is that of ranks, not of keys: `avl_remove` is a renaming of nodes
(x to its neighbour, the neighbour to the placeholder, `SwapRenames`) followed
by cutting out a node with at most one child (`CutAt`), and a node whose key has
changed has the rank of its old key until `avl_update` has looked at both
neighbours (`InOrder`) or has reinserted it. A walk is right because going to
the innermost node below, or up to the first ancestor on the other side, gives
the nearest rank (`WalkIs`). In a destruction the nodes above the leaf returned
last are no longer balanced, all others are, and where the leaf is on the right of a node the
left side of that node is gone (`Unlinking`); that is why the leftmost node of what is left has at most a
leaf below it (`LeftmostIs`), which `check_right_side` asserts.

Each invariant was checked with TLC on the bounds of the runs before it was
proved.

### 4.3 Only model-checked

* Liveness (`RequestsEnd`, `CommandEnds`): the prover cannot express fairness.
* `BTree` with its refinement: it uses recursive operators, about which nothing
  can be proved here. Its invariants also need that no call runs out of blocks
  half-way, which the bounds of the run ensure and the code does not (`BTreeFull.cfg`).
* The properties of the runs that find a disagreement are false.

## 5. What is not modelled, and the plan

Not modelled because it is pure I/O, wording or outside the build: see 1.2.
Left out of the modules above, to be added in this order:

1. **Proofs**: `BTree` with recursive functions in place of recursive operators.
2. **Abstract object store** that `Container` implements, for behaviours
   without the two disagreements of `ct_reopen` and `ct_crash`.
3. **Failed calls of the B-tree**: what a reader finds after a call ran out of
   blocks or a free failed, and reads that fail (EMPTY entries, `ofs_metadata_cache.c:415`).
4. **Container list**: several containers, concurrent open and close by name,
   error paths of create and open; `ofs_update_block_fixup` of index blocks.

Simplifications in the present modules: names of containers and objects and
failing memory allocation are left out; failed reads are left out everywhere
but in `Tools` and for inodes in `Container`; `Container` has one block per object, so a failing
`index_update` of a `$OBJID` of several levels is not reached; nodes of the tree
of bsm other than its root are left out because its few extents fit into one
node. Noticed and not modelled: the creation of a container with the
smallest accepted size (`MIN_BLOCKS_NUM`, 10 blocks) fails in its first refill
(`ofs_container_manager.c:304`); a container whose creation returned is complete
on disk only after its first commit (`ofs_container_manager.c:429`); the first
super block has `seq_no` 0, so a first write that was cut off is taken for
whole (`ofs_container_manager.c:313`); `collate_key` passes byte lengths to the
comparison of unicode strings, which counts characters (`ofs_collate.c:430`), a
rule that no object of the code uses; `g_printMutex` of `mml_kernel.c`, outside
the build, is locked at line 150 and never unlocked.

## 6. Running it

```
tlc -config SpaceManagerAny.cfg SpaceManager
tlc -config BaseSpace.cfg BaseSpace
tlc -config SuperBlock.cfg SuperBlock
tlc -config Container.cfg Container
tlc -config BTree.cfg BTreeMC
tlc -config Libraries.cfg Libraries
tlc -config Tools.cfg Tools
tlc -config ContainerSuper.cfg Container     # and the others that find a violation
for m in SpaceManager SuperBlock BaseSpace Container Tools File Library Avl
do tlapm ${m}Proofs.tla; done
```
