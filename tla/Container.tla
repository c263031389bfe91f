------------------------------ MODULE Container -----------------------------
(***************************************************************************)
(* The life of a container: user objects are created, opened, changed and  *)
(* closed; their inodes live in the metadata cache until a commit writes   *)
(* them; the index object $OBJID maps each objid to its inode block; the   *)
(* super block points to the inode of $OBJID.  The process may crash and   *)
(* writes may fail.                                                        *)
(*                                                                         *)
(* An object is its inode block, which holds the root of its table; the    *)
(* content of a user object is the number of its last change.  Space is    *)
(* a pool (BaseSpace says how $SPACE and $BASE provide it) whose content   *)
(* on disk is committed with the super block, and the super block is one   *)
(* value (SuperBlock models its ring of slots).  Every call holds ct_lock  *)
(* or the lock of the one object it changes, so it is one step; a commit   *)
(* is one step per block that is written.                                  *)
(*                                                                         *)
(* A write leaves its data in the buffer of the stdio stream, the next     *)
(* seek or the close brings it to the file (FileIf models that): disk and  *)
(* disk_sb are what the process reads back, file what a crash leaves, and  *)
(* missing says of which kind are the writes that returned success and     *)
(* that the file will not get.                                             *)
(***************************************************************************)
EXTENDS Integers, FiniteSets, TLC

CONSTANTS
  Objects,       \* ids of the user objects
  ID,            \* OBJID_OBJ_ID
  Blocks,        \* the blocks that are left beside $BASE and $SPACE
  Blank,         \* a block that was never written
  CrashDirty,    \* crashes happen at any time, not only when all is written
  MaxRef,        \* bound: handles of an object
  MaxChanges,    \* bound: changes of all objects together
  MaxOpens,      \* bound: times the container is opened
  MaxFaults      \* bound: accesses to the disk that fail

ASSUME ContainerAssumption ==
  /\ ID \notin Objects
  /\ Blocks \subseteq Nat \ {0} /\ IsFiniteSet(Blocks)
  /\ CrashDirty \in BOOLEAN
  /\ {MaxRef, MaxChanges, MaxOpens, MaxFaults} \subseteq Nat /\ MaxRef > 0

VARIABLES
  disk,          \* blocks on disk
  disk_sb,       \* super block on disk: inode of $OBJID, free blocks
  file,          \* both, without what waits in the buffer of the stream
  missing,       \* history: kinds of writes counted as done and lost
  sb_id,         \* ct->sb.objid_inode_no
  flag_dirty,    \* FLAG_DIRTY of ct->flags: the super block is to be written
  free,          \* free blocks of the open container
  info,          \* ct->obj_info_list: handles, root_cache.vbn, root_cache dirty
  cache,         \* ct->metadata_cache: state, FLUSH and content by block
  ct,            \* what the container is doing
  value,         \* history: the last change of each object that returned 0
  safe,          \* history: value at the last commit or close
  reopened,      \* history: objects opened while their inode waited to be written
  changes, opens, faults

stored == <<disk, disk_sb>>
disks == <<disk, disk_sb, file, missing>>
super == <<sb_id, flag_dirty>>
memory == <<sb_id, flag_dirty, free, info, cache>>
history == <<value, safe, reopened>>
counters == <<changes, opens, faults>>
vars == <<disks, memory, ct, history, counters>>

All == Objects \cup {ID}

Inode(o, n) == [obj |-> o, val |-> n]
Index(map) == [obj |-> ID, val |-> map]
NoObjects == [o \in Objects |-> 0]

Content ==
  [obj : Objects, val : 0 .. MaxChanges]
    \cup [obj : {ID}, val : [Objects -> {0} \cup Blocks]]

\* What a block holds before its first write is no inode block.
ASSUME BlankAssumption == Blank \notin Content

Entry(state, data) == [state |-> state, flush |-> FALSE, data |-> data]

Users == DOMAIN info \ {ID}

\* The inode block of each object according to the cached root of $OBJID.
Map == cache[info[ID].vbn].data.val

\* A function that maps x to e and everything else as f does; and one without x.
With(f, x, e) == [y \in DOMAIN f \cup {x} |-> IF y = x THEN e ELSE f[y]]
Without(f, x) == [y \in DOMAIN f \ {x} |-> f[y]]
-----------------------------------------------------------------------------
(***************************************************************************)
(* Parts of the operations: each says what becomes of info, cache, free.   *)
(***************************************************************************)
\* Bug: the entry is found at its old block, too.
MovedTwice(c, old, new) == With(c, new, c[old])

\* change_obj_cache_vbn
Moved(c, old, new) == With(Without(c, old), new, c[old])

\* A change of the root of object x that leaves it with content data:
\* tree_insert_ie or remove_leaf changes the cached block first, then
\* set_ib_dirty moves it to a new block, unless it has moved since the last
\* commit.  Without a free block it does not move and the call fails, but
\* the cached block has changed.  Two entries for a block end the program
\* (avl_add), otherwise the container goes on as next.
WriteRoot(x, data, inf, ca, fr, next) ==
  LET old == inf[x].vbn
      changed == [ca EXCEPT ![old].data = data]
  IN  \/ /\ inf[x].dirty \/ fr = {}
         /\ info' = inf /\ cache' = changed /\ free' = fr
         /\ ct' = next
      \/ /\ ~inf[x].dirty
         /\ \E b \in fr :
              /\ info' = [inf EXCEPT ![x].vbn = b, ![x].dirty = TRUE]
              /\ cache' = Moved(changed, old, b)
              /\ free' = (fr \ {b}) \cup {old}
              /\ ct' = IF b \in DOMAIN ca THEN "aborted" ELSE next

\* Bug: clean blocks stay, too.
ReleasedKept(c, b) == [c EXCEPT ![b].flush = TRUE]

\* release_obj_cache: a block with changes stays for the next commit.
Released(c, b) ==
  IF c[b].state = "dirty" THEN [c EXCEPT ![b].flush = TRUE] ELSE Without(c, b)

\* validate_obj_inode: SET_INODE_DIRTY of an object whose root has changed.
Validated(c, o) ==
  IF info[o].dirty
  THEN [c EXCEPT ![info[o].vbn].state = "dirty", ![info[o].vbn].flush = FALSE]
  ELSE c

\* Bug: an object is closed without recording where its inode has moved.
close_object_unrecorded(o, next) ==
  /\ info' = Without(info, o)
  /\ cache' = Released(Validated(cache, o), info[o].vbn)
  /\ free' = free
  /\ ct' = next

\* close_object: validate_obj_inode and put_object_info.
close_object(o, next) ==
  LET inf == Without(info, o)
      ca == Released(Validated(cache, o), info[o].vbn)
  IN  IF info[o].dirty
      THEN WriteRoot(ID, Index([Map EXCEPT ![o] = info[o].vbn]), inf, ca, free, next)
      ELSE info' = inf /\ cache' = ca /\ free' = free /\ ct' = next
-----------------------------------------------------------------------------
(***************************************************************************)
(* User objects.                                                           *)
(***************************************************************************)
\* create_object and index_insert_key_nolock.
ofs_create_object(o) ==
  /\ ct = "open" /\ changes < MaxChanges
  /\ o \notin DOMAIN info /\ Map[o] = 0
  /\ \E b \in free :
       /\ info[ID].dirty \/ free # {b}
       /\ WriteRoot(ID, Index([Map EXCEPT ![o] = b]),
                    With(info, o, [ref |-> 1, vbn |-> b, dirty |-> TRUE]),
                    With(cache, b, Entry("dirty", Inode(o, changes + 1))),
                    free \ {b}, "open")
  /\ changes' = changes + 1
  /\ value' = [value EXCEPT ![o] = changes + 1]
  /\ UNCHANGED <<disks, super, safe, reopened, opens, faults>>

\* The last block goes to the inode, the insertion into $OBJID finds none.
\* The inode block is freed and close_object updates $OBJID once more: its
\* root moves to that very block, which is still in the cache of the object.
ofs_create_object_full(o) ==
  /\ ct = "open" /\ changes < MaxChanges
  /\ o \notin DOMAIN info /\ Map[o] = 0
  /\ ~info[ID].dirty
  /\ \E b \in Blocks :
       /\ free = {b}
       /\ WriteRoot(ID, Index(Map), info,
                    With(cache, b, [Entry("dirty", Inode(o, 0)) EXCEPT !.flush = TRUE]),
                    {b}, "open")
  /\ UNCHANGED <<disks, super, history, counters>>

\* The object is open already, or open_object reads its inode.  SET_INODE_CLEAN
\* forgets that the inode in the container's cache waits to be written.
ofs_open_object(o) ==
  /\ ct = "open"
  /\ \/ /\ o \in DOMAIN info /\ info[o].ref < MaxRef
        /\ info' = [info EXCEPT ![o].ref = @ + 1]
        /\ UNCHANGED <<cache, reopened, file>>
     \/ /\ o \notin DOMAIN info /\ Map[o] # 0
        /\ info' = With(info, o, [ref |-> 1, vbn |-> Map[o], dirty |-> FALSE])
        /\ \/ /\ Map[o] \in DOMAIN cache
              /\ cache' = [cache EXCEPT ![Map[o]] = Entry("clean", @.data)]
              /\ reopened' = reopened \cup {o}
              /\ UNCHANGED file
           \/ /\ Map[o] \notin DOMAIN cache /\ disk[Map[o]] # Blank
              /\ cache' = With(cache, Map[o], Entry("clean", disk[Map[o]]))
              /\ file' = stored
              /\ UNCHANGED reopened
  /\ UNCHANGED <<disk, disk_sb, missing, super, free, ct, value, safe, counters>>

\* The kinds of writes that the file lacks when the buffer is lost.
Lost == missing \cup (IF file[1] # disk THEN {"block"} ELSE {})
                \cup (IF file[2] # disk_sb THEN {"super"} ELSE {})

\* What a failing access leaves: the seek emptied the buffer and the read or
\* write failed, or the seek failed and the content of the buffer is gone.
AfterError == {<<disk, disk_sb, missing>>, <<file[1], file[2], Lost>>}

\* The inode cannot be read; its empty cache entry goes with the object.
ofs_open_object_fails(o) ==
  /\ ct = "open" /\ faults < MaxFaults
  /\ o \notin DOMAIN info /\ Map[o] # 0 /\ Map[o] \notin DOMAIN cache
  /\ \E at \in AfterError : disk' = at[1] /\ disk_sb' = at[2] /\ missing' = at[3]
  /\ file' = stored'
  /\ faults' = faults + 1
  /\ UNCHANGED <<memory, ct, history, changes, opens>>

\* index_insert_key, index_remove_key or index_update_value with a handle of o.
change_object(o) ==
  /\ ct = "open" /\ changes < MaxChanges
  /\ o \in DOMAIN info
  /\ WriteRoot(o, Inode(o, changes + 1), info, cache, free, "open")
  /\ changes' = changes + 1
  /\ value' = IF info[o].dirty \/ free # {}
              THEN [value EXCEPT ![o] = changes + 1]
              ELSE value
  /\ UNCHANGED <<disks, super, safe, reopened, opens, faults>>

ofs_close_object(o) ==
  /\ ct = "open"
  /\ o \in DOMAIN info
  /\ \/ /\ info[o].ref > 1
        /\ info' = [info EXCEPT ![o].ref = @ - 1]
        /\ UNCHANGED <<cache, free, ct>>
     \/ /\ info[o].ref = 1
        /\ close_object(o, "open")
  /\ UNCHANGED <<disks, super, history, counters>>
-----------------------------------------------------------------------------
(***************************************************************************)
(* Commit and close.                                                       *)
(***************************************************************************)
\* validate_all_objects, users in any order.
commit_container_modification ==
  /\ ct = "open"
  /\ ct' = "validate"
  /\ UNCHANGED <<disks, memory, history, counters>>

Unvalidated == {o \in Users : info[o].dirty /\ Map[o] # info[o].vbn}

validate_one_user_object(o) ==
  /\ ct = "validate" /\ o \in Unvalidated
  /\ WriteRoot(ID, Index([Map EXCEPT ![o] = info[o].vbn]), info,
               Validated(cache, o), free, "validate")
  /\ UNCHANGED <<disks, super, history, counters>>

\* close_one_object
close_one_object(o) ==
  /\ ct = "close" /\ o \in Users
  /\ close_object(o, "close")
  /\ UNCHANGED <<disks, super, history, counters>>

\* Bug: the super block keeps the old inode of $OBJID.
SuperIdKept == sb_id

\* case OBJID_OBJ_ID of validate_obj_inode
SuperId == IF info[ID].dirty THEN info[ID].vbn ELSE sb_id

\* The roots of the other objects that have moved are marked, then $OBJID.
\* FLAG_DIRTY is set when $BASE, $SPACE or $OBJID has moved: $SPACE moves
\* with the first block that is allocated, so with the first root that moves.
validate_system_objects ==
  /\ \/ ct = "validate" /\ Unvalidated = {}
     \/ ct = "close" /\ Users = {}
  /\ sb_id' = SuperId
  /\ flag_dirty' = (flag_dirty \/ \E o \in DOMAIN info : info[o].dirty)
  /\ LET dirty == {info[o].vbn : o \in {u \in DOMAIN info : info[u].dirty}}
         ca == [b \in DOMAIN cache |->
                  IF b \in dirty THEN Entry("dirty", cache[b].data) ELSE cache[b]]
     IN  IF ct = "close"
         THEN /\ cache' = Released(ca, info[ID].vbn)
              /\ info' = Without(info, ID)
              /\ ct' = "flush_close"
         ELSE /\ cache' = ca
              /\ info' = info
              /\ ct' = "flush_commit"
  /\ UNCHANGED <<disks, free, history, counters>>

Flushing == ct \in {"flush_commit", "flush_close"}

Dirty == {b \in DOMAIN cache : cache[b].state = "dirty"}

NextDirty(b) == b \in Dirty /\ \A d \in Dirty : b <= d

\* flush_container_dirty_cache of the next block in the tree.
flush_block(b) ==
  /\ Flushing /\ NextDirty(b)
  /\ disk' = [disk EXCEPT ![b] = cache[b].data]
  /\ file' = stored
  /\ cache' = IF cache[b].flush THEN Without(cache, b)
              ELSE [cache EXCEPT ![b].state = "clean"]
  /\ UNCHANGED <<disk_sb, missing, super, free, info, ct, history, counters>>

\* FLAG_DIRTY decides whether the super block is written.
ToWrite == flag_dirty

\* The end of flush_container_cache and what follows it.  at is what disk,
\* disk_sb and missing are after the walk.  The result of the walk is ignored,
\* and whether ofs_update_super_block succeeds or not, FLAG_DIRTY is cleared.
\* A commit cleans all roots.  After close_container nothing is left, and a
\* file that lacks a write is not looked at again.
update_super_block(at, written) ==
  /\ disk' = at[1]
  /\ disk_sb' = IF ToWrite /\ written THEN [id |-> sb_id, free |-> free] ELSE at[2]
  /\ missing' = IF ~ToWrite THEN at[3]
                ELSE IF written THEN at[3] \ {"super"} ELSE at[3] \cup {"super"}
  /\ flag_dirty' = FALSE
  /\ IF ct = "flush_close"
     THEN /\ ct' = IF Dirty = {} /\ missing' = {} THEN "closed" ELSE "lost"
          /\ cache' = <<>> /\ info' = <<>>
          /\ file' = stored'
     ELSE /\ ct' = "open"
          /\ info' = [o \in DOMAIN info |-> [info[o] EXCEPT !.dirty = FALSE]]
          /\ file' = IF ToWrite \/ Dirty # {} THEN <<at[1], at[2]>> ELSE file
          /\ UNCHANGED cache
  /\ UNCHANGED <<sb_id, free, value, reopened, changes, opens>>

flush_super_block ==
  /\ Flushing /\ Dirty = {}
  /\ update_super_block(<<disk, disk_sb, missing>>, TRUE)
  /\ safe' = value
  /\ UNCHANGED faults

\* The super block cannot be written, or os_disk_close, whose result is
\* ignored, cannot empty the buffer.
flush_super_block_fails ==
  /\ Flushing /\ Dirty = {} /\ faults < MaxFaults
  /\ \E at \in AfterError :
       /\ ToWrite \/ (ct = "flush_close" /\ at # <<disk, disk_sb, missing>>)
       /\ update_super_block(at, FALSE)
  /\ safe' = NoObjects
  /\ faults' = faults + 1

\* The walk ends at the block that could not be written.
flush_fails ==
  /\ Flushing /\ Dirty # {} /\ faults < MaxFaults
  /\ \E at \in AfterError, written \in BOOLEAN : update_super_block(at, written)
  /\ safe' = NoObjects
  /\ faults' = faults + 1

close_container ==
  /\ ct = "open"
  /\ ct' = "close"
  /\ UNCHANGED <<disks, memory, history, counters>>

Settled ==
  /\ ct = "open" /\ Dirty = {} /\ \A o \in DOMAIN info : ~info[o].dirty
  /\ file = stored

\* The process exits, which empties the buffer, or it is killed.
crash ==
  /\ IF CrashDirty THEN ct \notin {"none", "closed", "lost", "aborted"} ELSE Settled
  /\ \E at \in AfterError : disk' = at[1] /\ disk_sb' = at[2] /\ missing' = at[3]
  /\ file' = stored'
  /\ ct' = IF missing' = {} THEN "closed" ELSE "lost"
  /\ info' = <<>> /\ cache' = <<>>
  /\ flag_dirty' = FALSE
  /\ value' = safe
  /\ UNCHANGED <<sb_id, free, safe, reopened, counters>>
-----------------------------------------------------------------------------
(***************************************************************************)
(* Create and open the container.                                          *)
(***************************************************************************)
Init ==
  /\ disk = [b \in Blocks |-> Blank]
  /\ disk_sb = [id |-> 0, free |-> Blocks]
  /\ file = stored /\ missing = {}
  /\ sb_id = 0 /\ flag_dirty = FALSE /\ free = Blocks
  /\ info = <<>> /\ cache = <<>>
  /\ ct = "none"
  /\ value = NoObjects /\ safe = NoObjects /\ reopened = {}
  /\ changes = 0 /\ opens = 0 /\ faults = 0

\* ofs_create_container: the super block is written, the inodes are not.
ofs_create_container ==
  /\ ct = "none"
  /\ ct' = "open"
  /\ \E b \in Blocks :
       /\ info' = [x \in {ID} |-> [ref |-> 1, vbn |-> b, dirty |-> TRUE]]
       /\ cache' = [x \in {b} |-> Entry("dirty", Index(NoObjects))]
       /\ free' = Blocks \ {b}
       /\ sb_id' = b
       /\ disk_sb' = [id |-> b, free |-> free']
  /\ flag_dirty' = TRUE
  /\ UNCHANGED <<disk, file, missing, history, counters>>

\* ofs_open_container: open_system_objects reads the inode of $OBJID.
ofs_open_container ==
  /\ ct = "closed" /\ opens < MaxOpens
  /\ disk[disk_sb.id] # Blank /\ disk[disk_sb.id].obj = ID
  /\ ct' = "open"
  /\ opens' = opens + 1
  /\ sb_id' = disk_sb.id /\ free' = disk_sb.free
  /\ info' = [x \in {ID} |-> [ref |-> 1, vbn |-> disk_sb.id, dirty |-> FALSE]]
  /\ cache' = [b \in {disk_sb.id} |-> Entry("clean", disk[disk_sb.id])]
  /\ UNCHANGED <<disks, flag_dirty, history, changes, faults>>

Next ==
  \/ ofs_create_container \/ ofs_open_container
  \/ \E o \in Objects :
       \/ ofs_create_object(o) \/ ofs_create_object_full(o)
       \/ ofs_open_object(o) \/ ofs_open_object_fails(o)
       \/ change_object(o) \/ ofs_close_object(o)
       \/ validate_one_user_object(o) \/ close_one_object(o)
  \/ commit_container_modification \/ close_container
  \/ validate_system_objects
  \/ \E b \in Blocks : flush_block(b)
  \/ flush_super_block \/ flush_super_block_fails \/ flush_fails
  \/ crash

Spec == Init /\ [][Next]_vars

\* Nothing distinguishes one user object from another.
Symmetry == Permutations(Objects)
-----------------------------------------------------------------------------
(***************************************************************************)
(* Properties.                                                             *)
(***************************************************************************)
\* Every variable has its type; only a block with changes waits for a flush
\* after its object was closed.
TypeOK ==
  /\ disk \in [Blocks -> {Blank} \cup Content]
  /\ disk_sb \in [id : {0} \cup Blocks, free : SUBSET Blocks]
  /\ file \in [Blocks -> {Blank} \cup Content]
                \X [id : {0} \cup Blocks, free : SUBSET Blocks]
  /\ missing \subseteq {"block", "super"}
  /\ sb_id \in {0} \cup Blocks /\ flag_dirty \in BOOLEAN /\ free \subseteq Blocks
  /\ DOMAIN info \subseteq All
  /\ \A o \in DOMAIN info :
       info[o] \in [ref : 1 .. MaxRef, vbn : Blocks, dirty : BOOLEAN]
  /\ DOMAIN cache \subseteq Blocks
  /\ \A b \in DOMAIN cache :
       /\ cache[b] \in [state : {"clean", "dirty"}, flush : BOOLEAN, data : Content]
       /\ cache[b].flush => cache[b].state = "dirty"
  /\ value \in [Objects -> 0 .. MaxChanges] /\ safe \in [Objects -> 0 .. MaxChanges]
  /\ reopened \subseteq Objects

\* What an open of the container and of o finds on disk: the last change, 0
\* when o is not there.
OnDisk(o) ==
  LET root == disk[disk_sb.id]
      inode == disk[root.val[o]]
  IN  IF \/ disk_sb.id = 0 \/ root = Blank \/ root.obj # ID
         \/ root.val[o] = 0 \/ inode = Blank \/ inode.obj # o
      THEN 0 ELSE inode.val

\* Every change that a call acknowledged before the last commit or close is
\* found again when the container is opened.
Durable == ct = "closed" => \A o \in Objects : OnDisk(o) >= safe[o]

\* That holds, also after a crash when all was written, and after a commit that
\* could not write all when a later one does, for every object that was never
\* opened while its inode waited to be written.  ct is "closed" only if no write
\* that was counted as done is missing: a super block that could not be written
\* is no longer missing when a later commit has changes of the roots to write.
DurableUnlessReopened ==
  ct = "closed" => \A o \in Objects \ reopened : OnDisk(o) >= safe[o]

\* A commit or a close that writes all its blocks should make good a super block
\* that an earlier one could not write.  It does not, because FLAG_DIRTY is gone:
\* ContainerSuper.cfg refutes this, hence the exception of DurableUnlessReopened.
DurableOnceCommitted ==
  ct \in {"closed", "lost"} /\ "block" \notin missing =>
    \A o \in Objects \ reopened : OnDisk(o) >= safe[o]

Where(o) == IF o \in DOMAIN info THEN info[o].vbn ELSE Map[o]

Existing == {o \in Objects : o \in DOMAIN info \/ Map[o] # 0} \cup {ID}

\* However objects are opened, moved, closed and reopened, no two share an
\* inode block, and $OBJID never leads to a block that is free.
InodesOwned ==
  ct = "open" =>
    /\ \A o \in Existing : Where(o) \notin free
    /\ \A o, p \in Existing : o # p => Where(o) # Where(p)

\* A free block has no entry in the cache: it can be given to another object
\* without its old content showing up there or overwriting the new one.
FreeUncached == ct # "aborted" => free \cap DOMAIN cache = {}
=============================================================================
