-------------------------------- MODULE BTree --------------------------------
(***************************************************************************)
(* One index object: the B-tree of ofs_btree.c with its metadata cache.    *)
(* The root node lives in the inode block of the object; every other node  *)
(* is a block of its own.  Each API call runs under attr_lock and is one   *)
(* action; the calls it makes are operators on a record t that holds the   *)
(* tree and the cursor of the object handle.                               *)
(*                                                                         *)
(* A node is the sequence of its index entries, closed by the END entry.   *)
(* An entry has a key (0 for END), the length it has in a leaf, and the    *)
(* child before it (NoBlk in a leaf).  A child pointer costs one unit of   *)
(* space, like the END entry.  The header and the BEGIN entry of a block   *)
(* are left out: they have the same size everywhere.  A block that is not  *)
(* in the metadata cache has the node NoNode.                              *)
(***************************************************************************)
EXTENDS Integers, FiniteSets, SequencesExt

CONSTANTS
  Keys,      \* positive integers, in the order of the collation rule
  LensOf,    \* key -> the lengths of the entries callers insert for it
  RootCap,   \* room for entries in the root node, part of the inode
  BlockCap,  \* room for entries in any other node
  Blocks     \* the blocks the object may get

ASSUME BTreeAssumption ==
  /\ Keys \subseteq Nat \ {0} /\ IsFiniteSet(Keys)
  /\ LensOf \in [Keys -> SUBSET (Nat \ {0})]
  /\ Blocks \subseteq Nat \ {0} /\ IsFiniteSet(Blocks) /\ Blocks # {}
  /\ RootCap \in Nat /\ BlockCap \in Nat /\ RootCap <= BlockCap
  \* Assumed of the callers, index_insert_key_nolock does not look: three entries
  \* with child pointers fit in a block, as they do with keys and values of at most
  \* KEY_MAX_SIZE and VALUE_MAX_SIZE in blocks of BYTES_PER_BLOCK.  The middle entry
  \* of a full node is then neither its first nor END.
  /\ \A k \in Keys : \A l \in LensOf[k] : 3 * (l + 1) + 2 <= BlockCap

VARIABLES
  cache,   \* block -> node in the metadata cache
  root,    \* obj_info->root_cache.vbn
  dirty,   \* blocks whose cache is DIRTY; the others are CLEAN
  used,    \* blocks allocated for the object
  \* Observation only:
  unsaved, \* blocks whose buffer was changed since it was written
  called   \* key -> length, as the calls that returned 0 should have left it

vars == <<cache, root, dirty, used, unsaved, called>>

NoBlk == 0

NoNode == <<>>

Entry(k, l) == [key |-> k, len |-> l, child |-> NoBlk]

EndEntry(b) == [key |-> 0, len |-> 1, child |-> b]

IsEnd(e) == e.key = 0

IsNode(e) == e.child # NoBlk

Size(e) == e.len + (IF IsNode(e) THEN 1 ELSE 0)

RealSize(ib) == FoldLeft(LAMBDA n, e : n + Size(e), 0, ib)

LowestOf(S) == CHOOSE x \in S : \A y \in S : x <= y
-----------------------------------------------------------------------------
(***************************************************************************)
(* The record t: the tree (c, root, dirty, used, uns), the stack st of the *)
(* handle (cache_stack and position_stack; the last element is the current *)
(* node and entry, position 0 is the BEGIN entry), the return code and the *)
(* entry being inserted, new.                                              *)
(***************************************************************************)
Handle == [c |-> cache, root |-> root, dirty |-> dirty, used |-> used,
           uns |-> unsaved, st |-> <<>>, ret |-> "ok", new |-> EndEntry(NoBlk)]

Depth(t) == Len(t.st) - 1

Top(t) == Last(t.st)

Ib(t) == t.c[Top(t).blk]

Ie(t) == Ib(t)[Top(t).pos]

AtEntry(t) == Top(t).pos > 0 /\ ~IsEnd(Ie(t))

Return(t, code) == [t EXCEPT !.ret = code]

SetPos(t, p) == [t EXCEPT !.st[Len(t.st)].pos = p]

SetIb(t, ib) == [t EXCEPT !.c[Top(t).blk] = ib, !.uns = @ \cup {Top(t).blk}]

reset_cache_stack(t, last) ==
  [t EXCEPT !.st = <<[blk |-> t.root,
                      pos |-> IF last THEN Len(t.c[t.root]) ELSE 1]>>]

push_cache_stack(t, last) ==
  LET b == Ie(t).child
  IN  [t EXCEPT !.st = Append(@, [blk |-> b,
                                  pos |-> IF last THEN Len(t.c[b]) ELSE 1])]

pop_cache_stack(t) == [t EXCEPT !.st = Front(@)]

PopTo(t, depth) == [t EXCEPT !.st = SubSeq(@, 1, depth + 1)]

get_next_ie(t) == SetPos(t, Top(t).pos + 1)

get_prev_ie(t) == IF Top(t).pos = 0 THEN t ELSE SetPos(t, Top(t).pos - 1)
-----------------------------------------------------------------------------
(***************************************************************************)
(* Walking: get_current_ie goes down to a leaf, then up past the ends of   *)
(* the nodes that are exhausted.                                           *)
(***************************************************************************)
RECURSIVE ToLeaf(_, _)
ToLeaf(t, last) ==
  IF IsNode(Ie(t)) THEN ToLeaf(push_cache_stack(t, last), last) ELSE t

RECURSIVE PastEnds(_)
PastEnds(t) ==
  IF AtEntry(t) THEN t
  ELSE IF Depth(t) = 0 THEN Return(t, "root")
  ELSE PastEnds(pop_cache_stack(t))

RECURSIVE PastBegins(_)
PastBegins(t) ==
  IF AtEntry(t) THEN t
  ELSE IF AtEntry(get_prev_ie(t)) THEN get_prev_ie(t)
  ELSE IF Depth(t) = 0 THEN Return(t, "root")
  ELSE PastBegins(get_prev_ie(pop_cache_stack(t)))

WalkCurrent(t) == PastEnds(ToLeaf(t, FALSE))

WalkFirst(t) == WalkCurrent(reset_cache_stack(t, FALSE))

WalkLast(t) == PastBegins(ToLeaf(reset_cache_stack(t, TRUE), TRUE))

\* get_next_ie refuses to go past END.
WalkNext(t) ==
  IF IsEnd(Ie(t)) THEN Return(t, "next_entry") ELSE WalkCurrent(get_next_ie(t))

\* Bug: the child before an entry of an inner node is not entered.
WalkPrevLevel(t) == PastBegins(get_prev_ie(t))

WalkPrev(t) ==
  IF IsNode(Ie(t)) THEN PastBegins(ToLeaf(t, TRUE))
  ELSE PastBegins(get_prev_ie(t))
-----------------------------------------------------------------------------
(***************************************************************************)
(* Searching.                                                              *)
(***************************************************************************)
\* The first entry that is not smaller than k, or END.
PosOf(ib, k) == LowestOf({i \in DOMAIN ib : IsEnd(ib[i]) \/ ib[i].key >= k})

RECURSIVE Descend(_, _)
Descend(t, k) ==
  LET s == SetPos(t, PosOf(Ib(t), k))
  IN  IF Ie(s).key = k \/ ~IsNode(Ie(s)) THEN s
      ELSE Descend(push_cache_stack(s, FALSE), k)

search_key_internal(t, k) ==
  LET s == Descend(reset_cache_stack(t, FALSE), k)
  IN  Return(s, IF Ie(s).key = k THEN "ok" ELSE "key_not_found")

\* Bug: the cursor stays at the END of a leaf.
StayAtEnd(t) == t

RECURSIVE get_to_near_key(_)
get_to_near_key(t) ==
  IF IsEnd(Ie(t)) /\ Depth(t) > 0 THEN get_to_near_key(pop_cache_stack(t)) ELSE t

index_search_key(t, k) ==
  LET s == search_key_internal(t, k)
  IN  IF s.ret = "ok" THEN s ELSE get_to_near_key(s)
-----------------------------------------------------------------------------
(***************************************************************************)
(* Blocks and the dirty path.                                              *)
(***************************************************************************)
Free(t) == Blocks \ t.used

NewBlk(t) == LowestOf(Free(t))

\* alloc_obj_block_and_cache, filled with the node ib and set dirty.
AddBlock(t, b, ib) ==
  [t EXCEPT !.c[b] = ib, !.dirty = @ \cup {b}, !.used = @ \cup {b},
            !.uns = @ \cup {b}]

\* Bug: the block is not given back.
DropCache(t, b) ==
  [t EXCEPT !.c[b] = NoNode, !.dirty = @ \ {b}, !.uns = @ \ {b}]

\* OFS_FREE_BLOCK, which succeeds here, and free_obj_cache.  (When the space
\* managers have run dry it fails, see BaseSpace: the block is lost to the tree,
\* set_ib_dirty and check_removed_ib end half way with an error, and parents keep
\* pointing to blocks that were left.  The tree is not followed from there.)
DropBlock(t, b) ==
  [t EXCEPT !.c[b] = NoNode, !.dirty = @ \ {b}, !.used = @ \ {b}, !.uns = @ \ {b}]

\* The entry on the path at depth d gets the child, when there is one.
Link(t, d, child) ==
  IF child = NoBlk THEN t
  ELSE [t EXCEPT !.c[t.st[d].blk][t.st[d].pos].child = child,
                 !.uns = @ \cup {t.st[d].blk}]

\* change_obj_cache_vbn of the clean node at depth d to a new block.
MoveBlock(t, d) ==
  LET b == t.st[d].blk
      n == NewBlk(t)
  IN  [AddBlock(DropBlock(t, b), n, t.c[b])
         EXCEPT !.st[d].blk = n, !.root = IF d = 1 THEN n ELSE @]

(***************************************************************************)
(* set_ib_dirty: from the current node up, a node that is clean moves to a *)
(* new block and its old block is freed; the walk ends at the first node   *)
(* that is dirty already, whose child pointer is still changed.  Callers   *)
(* have changed the current node before: without a free block it stays     *)
(* where it is, clean, with the change.                                    *)
(***************************************************************************)
RECURSIVE DirtyPath(_, _, _)
DirtyPath(t, d, child) ==
  IF t.st[d].blk \in t.dirty THEN Link(t, d, child)
  ELSE IF Free(t) = {} THEN Return(t, "no_block")
  ELSE LET moved == Link(MoveBlock(t, d), d, child)
       IN  IF d = 1 THEN moved ELSE DirtyPath(moved, d - 1, moved.st[d].blk)

\* Bug: the root is taken for dirty.
set_ib_dirty_below(t) ==
  IF Depth(t) = 0 THEN t ELSE DirtyPath(t, Len(t.st), NoBlk)

set_ib_dirty(t) == DirtyPath(t, Len(t.st), NoBlk)
-----------------------------------------------------------------------------
(***************************************************************************)
(* Inserting.  get_middle_ie walks while less than half of the node is     *)
(* behind it.                                                              *)
(***************************************************************************)
RECURSIVE MiddleFrom(_, _, _)
MiddleFrom(ib, i, half) ==
  IF IsEnd(ib[i]) \/ half <= Size(ib[i]) THEN i
  ELSE MiddleFrom(ib, i + 1, half - Size(ib[i]))

get_middle_ie(ib) == MiddleFrom(ib, 1, RealSize(ib) \div 2)

copy_ib_tail(ib, m) == SubSeq(ib, m + 1, Len(ib))

\* END takes over the child of the middle entry, which goes to the parent.
cut_ib_tail(ib, m) == Append(SubSeq(ib, 1, m - 1), EndEntry(ib[m].child))

InsertIf(c, ib, p, e) == IF c THEN InsertAt(ib, p, e) ELSE ib

(***************************************************************************)
(* split_ib: the entries after the middle move to a new block, t.new goes  *)
(* to the half it belongs to, and the cursor moves to the parent entry,    *)
(* which now points to the new block.  The middle entry, with the left     *)
(* half as its child, is the next one to insert.                           *)
(***************************************************************************)
split_ib(t) ==
  LET ib == Ib(t)
      m == get_middle_ie(ib)
      p == Top(t).pos
      n == NewBlk(t)
      t1 == set_ib_dirty(
              AddBlock(t, n, InsertIf(p > m, copy_ib_tail(ib, m), p - m, t.new)))
      left == SetIb(t1, InsertIf(p <= m, cut_ib_tail(ib, m), p, t.new))
      up == pop_cache_stack(left)
  IN  IF t1.ret = "no_block" THEN t1
      ELSE [Link(up, Len(up.st), n)
              EXCEPT !.new = [ib[m] EXCEPT !.child = Top(t1).blk]]

\* reparent_root: the entries of the root move to a new block, its only child.
reparent_root(t) ==
  LET n == NewBlk(t)
      t1 == set_ib_dirty(SetIb(AddBlock(t, n, Ib(t)), <<EndEntry(n)>>))
  IN  IF t1.ret = "no_block" THEN t1
      ELSE [t1 EXCEPT !.st = <<[blk |-> t1.root, pos |-> 1],
                               [blk |-> n, pos |-> Top(t).pos]>>]

\* Bug: the root is taken to have the room of a block.
CapacityBlock(t) == BlockCap

Capacity(t) == IF Depth(t) = 0 THEN RootCap ELSE BlockCap

RECURSIVE tree_insert_ie(_)
tree_insert_ie(t) ==
  IF t.ret = "no_block" THEN t
  ELSE IF RealSize(Ib(t)) + Size(t.new) <= Capacity(t)
       THEN set_ib_dirty(SetIb(t, InsertAt(Ib(t), Top(t).pos, t.new)))
  ELSE IF Free(t) = {} THEN Return(t, "no_block")
  ELSE tree_insert_ie(IF Depth(t) = 0 THEN reparent_root(t) ELSE split_ib(t))

Inserting(t, e) == tree_insert_ie([t EXCEPT !.new = e])

index_insert_key_nolock(t, k, l) ==
  LET s == search_key_internal(t, k)
  IN  IF s.ret = "ok" THEN Return(s, "key_exist")
      ELSE Inserting(Return(s, "ok"), Entry(k, l))
-----------------------------------------------------------------------------
(***************************************************************************)
(* Removing.  check_removed_ib drops the node that has no entry left and   *)
(* every ancestor that has none either; without any entry in the whole     *)
(* tree the root becomes a leaf.  Otherwise the cursor ends at the parent  *)
(* entry of the dropped nodes, "demote".                                   *)
(***************************************************************************)
RECURSIVE DropEmpty(_)
DropEmpty(t) ==
  LET up == pop_cache_stack(DropBlock(t, Top(t).blk))
  IN  IF ~IsEnd(Head(Ib(up))) THEN Return(up, "demote")
      ELSE IF Depth(up) = 0 THEN set_ib_dirty(SetIb(up, <<EndEntry(NoBlk)>>))
      ELSE DropEmpty(up)

\* Bug: a leaf that has become empty stays in the tree.
KeepEmpty(t) == t

check_removed_ib(t) ==
  IF ~IsEnd(Head(Ib(t))) \/ Depth(t) = 0 THEN t ELSE DropEmpty(t)

\* The parent node without the entry that is demoted to a leaf: the one before
\* END, whose child END takes over, or the parent entry itself.
Demoted(ib, p) ==
  IF IsEnd(ib[p]) THEN Append(SubSeq(ib, 1, p - 2), EndEntry(ib[p - 1].child))
  ELSE RemoveAt(ib, p)

(***************************************************************************)
(* The demoted entry becomes the last one of the leaf before it, or the    *)
(* first one of the leaf after it.                                         *)
(***************************************************************************)
DemoteEntry(t) ==
  LET ib == Ib(t)
      end == IsEnd(Ie(t))
      q == IF end THEN Top(t).pos - 1 ELSE Top(t).pos
      t1 == set_ib_dirty(SetIb(t, Demoted(ib, Top(t).pos)))
  IN  IF t1.ret = "no_block" THEN t1
      ELSE Inserting(Return(ToLeaf(SetPos(t1, q), end), "ok"),
                     [ib[q] EXCEPT !.child = NoBlk])

remove_leaf(t) ==
  LET t1 == set_ib_dirty(SetIb(t, RemoveAt(Ib(t), Top(t).pos)))
      t2 == check_removed_ib(t1)
  IN  IF t1.ret = "no_block" THEN t1
      ELSE IF t2.ret = "demote" THEN DemoteEntry(t2)
      ELSE t2

(***************************************************************************)
(* remove_node: the successor, which is in a leaf, replaces the entry and  *)
(* is then removed from its leaf: from where the next walk leads.          *)
(***************************************************************************)
remove_node(t) ==
  LET e == Ie(t)
      succ == [Ie(WalkNext(t)) EXCEPT !.child = e.child]
      t1 == set_ib_dirty(SetIb(t, RemoveAt(Ib(t), Top(t).pos)))
      t2 == Inserting(t1, succ)
      t3 == WalkNext(t2)
  IN  IF t2.ret = "no_block" THEN t2
      ELSE IF t3.ret # "ok" THEN t3
      ELSE remove_leaf(t3)

\* Bug: an entry of an inner node is removed like one of a leaf.
tree_remove_ie_leaf(t) == remove_leaf(t)

tree_remove_ie(t) == IF IsNode(Ie(t)) THEN remove_node(t) ELSE remove_leaf(t)

index_remove_key_nolock(t, k) ==
  LET s == search_key_internal(t, k)
  IN  IF s.ret = "ok" THEN tree_remove_ie(s) ELSE s

\* The result of the removal is not looked at.
index_update_value_nolock(t, k, l) ==
  index_insert_key_nolock(Return(index_remove_key_nolock(t, k), "ok"), k, l)
-----------------------------------------------------------------------------
Init ==
  \E b \in Blocks :
    /\ root = b
    /\ cache \in {[c EXCEPT ![b] = <<EndEntry(NoBlk)>>] : c \in [Blocks -> {NoNode}]}
    /\ dirty = {b}
    /\ used = {b}
    /\ unsaved = {b}
    /\ called \in [Keys -> {0}]

\* A call leaves the tree as t, whether it succeeded or not.
Leave(t) ==
  /\ cache' = t.c
  /\ root' = t.root
  /\ dirty' = t.dirty
  /\ used' = t.used
  /\ unsaved' = t.uns

Called(t, k, l) == called' = IF t.ret = "ok" THEN [called EXCEPT ![k] = l] ELSE called

index_insert_key(k, l) ==
  LET t == index_insert_key_nolock(Handle, k, l)
  IN  Leave(t) /\ Called(t, k, l)

index_remove_key(k) ==
  LET t == index_remove_key_nolock(Handle, k)
  IN  Leave(t) /\ Called(t, k, 0)

index_update_value(k, l) ==
  LET t == index_update_value_nolock(Handle, k, l)
  IN  Leave(t) /\ Called(t, k, l)

\* commit_container_modification: the dirty nodes are written and become clean.
Commit ==
  /\ dirty # {}
  /\ unsaved' = unsaved \ dirty
  /\ dirty' = {}
  /\ UNCHANGED <<cache, root, used, called>>

Next ==
  \/ Commit
  \/ \E k \in Keys :
       \/ index_remove_key(k)
       \/ \E l \in LensOf[k] : index_insert_key(k, l) \/ index_update_value(k, l)

Spec == Init /\ [][Next]_vars
-----------------------------------------------------------------------------
(***************************************************************************)
(* What a reader of the tree sees.                                         *)
(***************************************************************************)
Cached == {b \in Blocks : cache[b] # NoNode}

Children(b) == {e.child : e \in ToSet(cache[b])} \ {NoBlk}

RECURSIVE Reach(_)
Reach(b) == {b} \cup UNION {Reach(x) : x \in Children(b)}

Pointers(b) == {p \in Cached \X (1 .. BlockCap) :
                  p[2] \in DOMAIN cache[p[1]] /\ cache[p[1]][p[2]].child = b}

\* index_walk_all, forward or in reverse: the keys it meets.
RECURSIVE KeysFrom(_, _)
KeysFrom(t, reverse) ==
  IF t.ret # "ok" THEN <<>>
  ELSE <<Ie(t).key>> \o KeysFrom(IF reverse THEN WalkPrev(t) ELSE WalkNext(t), reverse)

index_walk_all(reverse) ==
  KeysFrom(IF reverse THEN WalkLast(Handle) ELSE WalkFirst(Handle), reverse)

InTree ==
  {e \in UNION {ToSet(cache[b]) : b \in Reach(root)} : ~IsEnd(e)}

Contents ==
  LET es == InTree
  IN  [k \in {e.key : e \in es} |-> (CHOOSE e \in es : e.key = k).len]

Present == {k \in Keys : called[k] # 0}

RECURSIVE LeafDepths(_, _)
LeafDepths(b, d) ==
  IF Children(b) = {} THEN {d}
  ELSE UNION {LeafDepths(x, d + 1) : x \in Children(b)}

\* The tree with the block numbers left out: the numbers only name the nodes.
RECURSIVE Shape(_)
Shape(b) ==
  <<b \in dirty, b \in unsaved,
    [i \in DOMAIN cache[b] |->
       <<cache[b][i].key, cache[b][i].len,
         IF IsNode(cache[b][i]) THEN Shape(cache[b][i].child) ELSE <<>> >>]>>

View == <<Shape(root), Cardinality(used), called>>
-----------------------------------------------------------------------------
(***************************************************************************)
(* Properties.                                                             *)
(***************************************************************************)
\* Every node ends with its only END entry, keeps within the room of its
\* block although split_ib inserts without checking, and has a child pointer
\* in all of its entries or in none.
TypeOK ==
  /\ root \in Cached
  /\ Cached \cup dirty \cup unsaved \subseteq used
  /\ used \subseteq Blocks
  /\ \A b \in Cached :
       LET ib == cache[b]
       IN  /\ RealSize(ib) <= (IF b = root THEN RootCap ELSE BlockCap)
           /\ \A i \in DOMAIN ib :
                /\ IsEnd(ib[i]) <=> i = Len(ib)
                /\ IsNode(ib[i]) <=> IsNode(Last(ib))
                /\ IsNode(ib[i]) => ib[i].child \in Cached

\* All leaves have the same depth, and only the root is a leaf without
\* entries: the walk up from a leaf relies on it, and the removal of a whole
\* branch that has become empty has to preserve it.
Balanced ==
  /\ Cardinality(LeafDepths(root, 0)) = 1
  /\ \A b \in Cached \ {root} : Len(cache[b]) = 1 => IsNode(Last(cache[b]))

\* The blocks allocated for the object are the nodes of its tree, each the
\* child of exactly one entry: none is leaked by a split, a removal or a move
\* to another block, none is freed while an entry still points to it.
BlocksOwnedOnce ==
  /\ used = Cached
  /\ used = Reach(root)
  /\ \A b \in used : Cardinality(Pointers(b)) = (IF b = root THEN 0 ELSE 1)

\* Both directions of index_walk_all meet every key once, in order.
WalksInOrder ==
  LET keys == index_walk_all(FALSE)
  IN  /\ ToSet(keys) = Present
      /\ \A i \in 2 .. Len(keys) : keys[i - 1] < keys[i]
      /\ index_walk_all(TRUE) = Reverse(keys)

\* A search finds exactly the keys that the calls left in the tree; from a key
\* that is found, the cursor can be moved to both neighbours; without it, the
\* cursor is at the next larger key (END of the root when there is none), from
\* where alloc_space and free_space go on.
SearchExact ==
  \A k \in Keys :
    LET t == index_search_key(Handle, k)
        above == {x \in Present : x > k}
        below == {x \in Present : x < k}
        At(s, S) == IF S = {} THEN s.ret # "ok"
                    ELSE s.ret = "ok" /\ Ie(s).key \in S
    IN  IF k \in Present
        THEN /\ t.ret = "ok"
             /\ At(WalkNext(t), IF above = {} THEN {} ELSE {LowestOf(above)})
             /\ At(WalkPrev(t), {x \in below : \A y \in below : y <= x})
        ELSE /\ t.ret = "key_not_found"
             /\ IF above = {} THEN IsEnd(Ie(t)) /\ Depth(t) = 0
                ELSE Ie(t).key = LowestOf(above)

\* ofs_metadata_cache.h: "CLEAN: data in buffer is the same to data on disk" -
\* the next commit writes only what is dirty, so a changed node that stayed
\* clean is lost when the cache is dropped.
CleanIsOnDisk == unsaved \subseteq dirty

\* README.md: "support kv operations like insert/remove/search" and "support
\* variant length key or value" - whatever the lengths, the tree holds what the
\* calls that returned 0 put in and did not take out.
HoldsVariantLengths == Contents = [k \in Present |-> called[k]]

\* The tree implements the map.
Abstract == INSTANCE OrderedMap WITH map <- Contents, Lens <- UNION {LensOf[k] : k \in Keys}

ImplementsMap == Abstract!Spec
=============================================================================
