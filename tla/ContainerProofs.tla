-------------------------- MODULE ContainerProofs --------------------------
(***************************************************************************)
(* Proofs about Container, for any number of objects, blocks, handles and  *)
(* failed reads and writes, while the process does not end with unwritten  *)
(* changes: every variable keeps its type, no two objects share an inode   *)
(* block, a free block has no cache entry, and what was committed is found *)
(* again if the file lacks no write that was counted as done.              *)
(*                                                                         *)
(* The invariant is a statement about places.  Core says where the inode   *)
(* of each object is (Loc) and that cache entries and free blocks respect  *)
(* that; it takes info, cache, free, the map and the root as arguments,    *)
(* because a call like close_object changes them in two steps: the map the *)
(* root will hold is known before the root is written.  Kept says what the *)
(* inode block of one object holds; it speaks of the disk, and holds while *)
(* no block was lost.  What is said of the super block on disk holds while *)
(* no super block was.                                                     *)
(***************************************************************************)
EXTENDS Container, TLAPS

-----------------------------------------------------------------------------
(***************************************************************************)
(* The inductive invariant.                                                *)
(***************************************************************************)
\* The objects of map m and of info, and the block of each one's inode.
Here(inf, m) == {ID} \cup {o \in Objects : o \in DOMAIN inf \/ m[o] # 0}

Loc(inf, m, root, x) ==
  IF x = ID THEN root ELSE IF x \in DOMAIN inf THEN inf[x].vbn ELSE m[x]

InfoType(inf) ==
  /\ DOMAIN inf \subseteq All
  /\ \A o \in DOMAIN inf :
       inf[o] \in [ref : 1 .. MaxRef, vbn : Blocks, dirty : BOOLEAN]

CacheType(ca) ==
  /\ DOMAIN ca \subseteq Blocks
  /\ \A b \in DOMAIN ca :
       /\ ca[b] \in [state : {"clean", "dirty"}, flush : BOOLEAN, data : Content]
       /\ ca[b].flush => ca[b].state = "dirty"

\* Inode blocks are allocated, and no two objects have the same.
Apart(inf, fr, m, root) ==
  /\ \A x \in Here(inf, m) : Loc(inf, m, root, x) \in Blocks \ fr
  /\ \A x, y \in Here(inf, m) :
       x # y => Loc(inf, m, root, x) # Loc(inf, m, root, y)

\* A cache entry is the inode of an object; it waits for a flush unless the
\* object is open.
Cached(inf, ca, m, root) ==
  /\ \A b \in DOMAIN ca :
       \E x \in Here(inf, m) :
         /\ Loc(inf, m, root, x) = b
         /\ x \notin DOMAIN inf => ca[b].state = "dirty" /\ ca[b].flush
  /\ \A x \in DOMAIN inf : inf[x].vbn \in DOMAIN ca /\ ~ca[inf[x].vbn].flush

\* The map is up to date for every object whose inode has not moved.
Mapped(inf, m, root) ==
  /\ m \in [Objects -> {0} \cup Blocks]
  /\ ID \in DOMAIN inf => inf[ID].vbn = root
  /\ \A o \in DOMAIN inf \ {ID} : ~inf[o].dirty => m[o] = inf[o].vbn

Core(inf, ca, fr, m, root) ==
  /\ InfoType(inf)
  /\ CacheType(ca)
  /\ fr \subseteq Blocks
  /\ Apart(inf, fr, m, root)
  /\ Cached(inf, ca, m, root)
  /\ Mapped(inf, m, root)

At(ca, dk, b) == IF b \in DOMAIN ca THEN ca[b].data ELSE dk[b]

\* An inode of o with change n or a later one.
Holds(c, o, n) == c.obj = o /\ c \in [obj : {o}, val : n .. MaxChanges]

\* The inode of o holds change n or a later one; so does the disk if the
\* entry is clean and does not wait for SET_INODE_DIRTY.
Kept(o, n, inf, ca, dk, m, phase) ==
  IF o \in DOMAIN inf
  THEN /\ Holds(ca[inf[o].vbn].data, o, n)
       /\ (phase = "flush_commit" \/ ~inf[o].dirty) =>
            (ca[inf[o].vbn].state = "clean" => Holds(dk[inf[o].vbn], o, n))
  ELSE IF m[o] = 0 THEN n = 0 ELSE Holds(At(ca, dk, m[o]), o, n)

\* So does the disk the root, unless a block was lost (gone are the lost writes).
RootKept(inf, ca, dk, root, phase, gone) ==
  "block" \notin gone /\ ID \in DOMAIN inf /\ (phase = "flush_commit" \/ ~inf[ID].dirty)
    => (ca[root].state = "clean" => dk[root] = ca[root].data)

Working == ct \in {"open", "validate", "close", "flush_commit"}

\* Some handle, or the next open, finds the inodes where they should be: that is
\* so without handles only if no block was lost.
Alive == Working \/ (ct \in {"flush_close", "closed"} /\ "block" \notin missing)

\* The objects whose last change may not be found again.
Excluded == IF "block" \in missing THEN Objects ELSE reopened

\* What the next open, or the container that is open, starts from.
Root == IF Working THEN info[ID].vbn ELSE IF ct = "closed" THEN disk_sb.id ELSE sb_id
M == At(cache, disk, Root).val
Room == IF ct = "closed" THEN disk_sb.free ELSE free

\* The state of the container and what it has in memory.
PhaseInv ==
  /\ ct \in {"none", "open", "validate", "close", "flush_commit", "flush_close",
             "closed", "lost", "aborted"}
  /\ ct = "none" => changes = 0
  /\ Working => ID \in DOMAIN info
  /\ ~Working /\ ct # "aborted" => DOMAIN info = {}
  /\ ct \in {"none", "closed", "lost"} => DOMAIN cache = {}
  /\ ct = "closed" => missing = {}
  /\ ct = "flush_commit" =>
       /\ sb_id = info[ID].vbn
       /\ \A o \in Users : Map[o] = info[o].vbn
       /\ ~flag_dirty => \A o \in DOMAIN info : ~info[o].dirty

\* No two inodes share a block, and the root leads to them.
PlaceInv ==
  Alive => /\ Core(info, cache, Room, M, Root)
           /\ At(cache, disk, Root) = Index(M)

\* While $OBJID has not moved, the super block is right unless a write of it was
\* lost, and so is its record of the free blocks while nothing has moved.
SuperInv ==
  /\ Working /\ ~info[ID].dirty =>
       /\ sb_id = info[ID].vbn
       /\ "super" \notin missing =>
            /\ disk_sb.id = info[ID].vbn
            /\ (\A o \in DOMAIN info : ~info[o].dirty) => disk_sb.free = free
  /\ Alive => RootKept(info, cache, disk, Root, ct, missing)

\* $OBJID can still move when another object has: that one left a block.
RoomInv ==
  Working /\ ct # "flush_commit" /\ ~info[ID].dirty =>
    \A o \in Users : info[o].dirty => free # {}

\* The last flush: an entry is no free block, and the super block that need not
\* be written is right.
EndInv ==
  ct = "flush_close" =>
    /\ free \cap DOMAIN cache = {}
    /\ ~flag_dirty /\ "super" \notin missing => disk_sb = [id |-> sb_id, free |-> free]

KeptInv ==
  /\ \A o \in Objects : safe[o] <= value[o] /\ value[o] <= changes
  /\ Alive => \A o \in Objects \ Excluded :
                Kept(o, value[o], info, cache, disk, M, ct)

IInv ==
  /\ TypeOK
  /\ PhaseInv
  /\ PlaceInv
  /\ SuperInv
  /\ RoomInv
  /\ EndInv
  /\ KeptInv
  /\ changes \in 0 .. MaxChanges
-----------------------------------------------------------------------------
(***************************************************************************)
(* Parts of the operations.                                                *)
(***************************************************************************)

\* The two changes that WriteRoot makes.
ChangedAt(ca, b, data) == [ca EXCEPT ![b].data = data]
MovedTo(inf, x, b) == [inf EXCEPT ![x].vbn = b, ![x].dirty = TRUE]

\* What comes of them: the inode of x is in block b.
AtBlock(inf, ca, x, b, data, inf2, ca2) ==
  /\ DOMAIN inf2 = DOMAIN inf
  /\ inf2[x].vbn = b
  /\ \A y \in DOMAIN inf \ {x} : inf2[y] = inf[y]
  /\ ca2[b].data = data
  /\ ca2[b].state = ca[inf[x].vbn].state
  /\ DOMAIN ca2 = (DOMAIN ca \ {inf[x].vbn}) \cup {b}
  /\ \A c \in DOMAIN ca \ {inf[x].vbn} : ca2[c] = ca[c]

\* change_obj_cache_vbn and what set_ib_dirty does to the root: places.
LEMMA MoveCore ==
  ASSUME NEW inf, NEW ca, NEW fr, NEW m, NEW root, NEW x, NEW b, NEW data \in Content,
         NEW inf2, NEW ca2, NEW fr2, NEW root2,
         ContainerAssumption,
         Core(inf, ca, fr, m, root),
         x \in DOMAIN inf, ~inf[x].dirty, b \in fr,
         inf2 = MovedTo(inf, x, b),
         ca2 = Moved(ChangedAt(ca, inf[x].vbn, data), inf[x].vbn, b),
         fr2 = (fr \ {b}) \cup {inf[x].vbn},
         root2 = IF x = ID THEN b ELSE root
  PROVE  /\ Core(inf2, ca2, fr2, m, root2)
         /\ b \notin DOMAIN ca
         /\ inf2[x].dirty
         /\ AtBlock(inf, ca, x, b, data, inf2, ca2)
<1> DEFINE old == inf[x].vbn
<1>1. /\ DOMAIN inf2 = DOMAIN inf
      /\ inf2[x].vbn = b /\ inf2[x].dirty = TRUE /\ inf2[x].ref = inf[x].ref
      /\ \A y \in DOMAIN inf \ {x} : inf2[y] = inf[y]
  BY DEF Core, InfoType, MovedTo
<1>2. old \in DOMAIN ca /\ old \in Blocks /\ old \notin fr /\ b \in Blocks
  BY DEF Core, Cached, CacheType, Apart, Here, Loc, All, InfoType, Mapped,
         ContainerAssumption
<1>3. b \notin DOMAIN ca
  BY DEF Core, Cached, Apart
<1>4. /\ DOMAIN ca2 = (DOMAIN ca \ {old}) \cup {b}
      /\ \A c \in DOMAIN ca \ {old} : ca2[c] = ca[c]
      /\ ca2[b] = [ca[old] EXCEPT !.data = data]
  BY <1>2, <1>3 DEF Moved, With, Without, ChangedAt
<1>5. /\ ca2[b].state = ca[old].state /\ ca2[b].flush = FALSE /\ ca2[b].data = data
      /\ ca2[b] \in [state : {"clean", "dirty"}, flush : BOOLEAN, data : Content]
  <2>1. ca[old] \in [state : {"clean", "dirty"}, flush : BOOLEAN, data : Content]
    BY <1>2 DEF Core, CacheType
  <2>2. ~ca[old].flush
    BY DEF Core, Cached
  <2> QED BY <2>1, <2>2, <1>4
<1>6. InfoType(inf2)
  <2>1. inf2[x] \in [ref : 1 .. MaxRef, vbn : Blocks, dirty : BOOLEAN]
    BY <1>2 DEF Core, InfoType, MovedTo
  <2> QED BY <2>1, <1>1 DEF Core, InfoType
<1>7. CacheType(ca2)
  BY <1>2, <1>4, <1>5 DEF Core, CacheType
<1>8. fr2 \subseteq Blocks
  BY <1>2 DEF Core
<1>9. Here(inf2, m) = Here(inf, m) /\ x \in Here(inf, m)
  BY <1>1 DEF Here, Core, InfoType, All
<1>10. ID \in DOMAIN inf => inf[ID].vbn = root
  BY DEF Core, Mapped
<1>11. /\ Loc(inf2, m, root2, x) = b /\ Loc(inf, m, root, x) = old
       /\ \A y \in Here(inf, m) \ {x} : Loc(inf2, m, root2, y) = Loc(inf, m, root, y)
  BY <1>1, <1>10 DEF Loc, Here
<1>12. Apart(inf2, fr2, m, root2)
  <2>1. \A y \in Here(inf, m) \ {x} :
          Loc(inf, m, root, y) \in Blocks \ fr /\ Loc(inf, m, root, y) # old
    BY <1>9, <1>11 DEF Core, Apart
  <2>2. \A y, z \in Here(inf, m) \ {x} :
          y # z => Loc(inf2, m, root2, y) # Loc(inf2, m, root2, z)
    BY <1>11 DEF Core, Apart
  <2>3. \A y \in Here(inf, m) \ {x} : Loc(inf2, m, root2, y) \in Blocks \ (fr \cup {old})
    BY <2>1, <1>11
  <2>4. b \in Blocks \ fr2 /\ b \in fr
    BY <1>2
  <2>5. ASSUME NEW y \in Here(inf2, m)
        PROVE  Loc(inf2, m, root2, y) \in Blocks \ fr2
    BY <2>3, <2>4, <1>9, <1>11
  <2>6. ASSUME NEW y \in Here(inf2, m), NEW z \in Here(inf2, m), y # z
        PROVE  Loc(inf2, m, root2, y) # Loc(inf2, m, root2, z)
    <3>1. y \in Here(inf, m) /\ z \in Here(inf, m)
      BY <1>9
    <3>2. CASE y = x
      BY <2>3, <2>4, <1>11, <2>6, <3>1, <3>2
    <3>3. CASE z = x
      BY <2>3, <2>4, <1>11, <2>6, <3>1, <3>3
    <3> QED BY <2>2, <2>6, <3>1, <3>2, <3>3
  <2> QED BY <2>5, <2>6 DEF Apart
<1>13. Cached(inf2, ca2, m, root2)
  <2>1. ASSUME NEW c \in DOMAIN ca2
        PROVE  \E y \in Here(inf2, m) :
                 /\ Loc(inf2, m, root2, y) = c
                 /\ y \notin DOMAIN inf2 => ca2[c].state = "dirty" /\ ca2[c].flush
    <3>1. CASE c = b
      BY <3>1, <1>1, <1>9, <1>11
    <3>2. CASE c # b
      <4>1. c \in DOMAIN ca \ {old} /\ ca2[c] = ca[c]
        BY <3>2, <1>4
      <4>2. PICK y \in Here(inf, m) :
              /\ Loc(inf, m, root, y) = c
              /\ y \notin DOMAIN inf => ca[c].state = "dirty" /\ ca[c].flush
        BY <4>1 DEF Core, Cached
      <4>3. y # x
        BY <4>1, <4>2, <1>11
      <4> QED BY <4>1, <4>2, <4>3, <1>1, <1>9, <1>11
    <3> QED BY <3>1, <3>2
  <2>2. ASSUME NEW y \in DOMAIN inf2
        PROVE  inf2[y].vbn \in DOMAIN ca2 /\ ~ca2[inf2[y].vbn].flush
    <3>1. CASE y = x
      BY <3>1, <1>1, <1>4, <1>5
    <3>2. CASE y # x
      <4>1. inf2[y] = inf[y] /\ inf[y].vbn \in DOMAIN ca /\ ~ca[inf[y].vbn].flush
        BY <3>2, <1>1 DEF Core, Cached
      <4>2. y \in Here(inf, m) /\ Loc(inf, m, root, y) = inf[y].vbn
        BY <1>1, <1>10 DEF Here, Loc, Core, InfoType, All
      <4>3. inf[y].vbn # old
        BY <3>2, <4>2, <1>9, <1>11 DEF Core, Apart
      <4> QED BY <4>1, <4>3, <1>4
    <3> QED BY <3>1, <3>2
  <2> QED BY <2>1, <2>2 DEF Cached
<1>14. Mapped(inf2, m, root2)
  BY <1>1, <1>10 DEF Core, Mapped
<1>15. AtBlock(inf, ca, x, b, data, inf2, ca2)
  BY <1>1, <1>4, <1>5 DEF AtBlock
<1> QED BY <1>1, <1>3, <1>6, <1>7, <1>8, <1>12, <1>13, <1>14, <1>15 DEF Core

\* A change of the root of x in its block: places.
LEMMA StayCore ==
  ASSUME NEW inf, NEW ca, NEW fr, NEW m, NEW root, NEW x, NEW data \in Content, NEW ca2,
         Core(inf, ca, fr, m, root),
         x \in DOMAIN inf,
         ca2 = ChangedAt(ca, inf[x].vbn, data)
  PROVE  /\ Core(inf, ca2, fr, m, root)
         /\ AtBlock(inf, ca, x, inf[x].vbn, data, inf, ca2)
<1> DEFINE old == inf[x].vbn
<1>1. old \in DOMAIN ca
  BY DEF Core, Cached
<1>2. /\ DOMAIN ca2 = DOMAIN ca
      /\ \A c \in DOMAIN ca \ {old} : ca2[c] = ca[c]
      /\ ca2[old] = [ca[old] EXCEPT !.data = data]
  BY <1>1 DEF ChangedAt
<1>3. /\ ca2[old].state = ca[old].state /\ ca2[old].flush = ca[old].flush
      /\ ca2[old].data = data
      /\ ca2[old] \in [state : {"clean", "dirty"}, flush : BOOLEAN, data : Content]
  BY <1>1, <1>2 DEF Core, CacheType
<1>4. CacheType(ca2)
  BY <1>2, <1>3 DEF Core, CacheType
<1>5. \A c \in DOMAIN ca : ca2[c].state = ca[c].state /\ ca2[c].flush = ca[c].flush
  BY <1>2, <1>3
<1>6. Cached(inf, ca2, m, root)
  BY <1>2, <1>5 DEF Core, Cached
<1>7. AtBlock(inf, ca, x, old, data, inf, ca2)
  BY <1>1, <1>2, <1>3 DEF AtBlock
<1> QED BY <1>4, <1>6, <1>7 DEF Core

\* What an operation on x leaves alone: the handles and entries of the others.
Elsewhere(x, inf, ca, inf2, ca2, m, root) ==
  /\ DOMAIN inf2 \ {x} = DOMAIN inf \ {x}
  /\ \A y \in DOMAIN inf \ {x} : inf2[y] = inf[y]
  /\ \A y \in Here(inf, m) \ {x} :
       LET c == Loc(inf, m, root, y)
       IN  /\ c \in DOMAIN ca2 <=> c \in DOMAIN ca
           /\ c \in DOMAIN ca => ca2[c] = ca[c]

\* The outcome of WriteRoot: the entry of x has content data, no other entry has
\* changed, and x has moved if it could.
RootAt(x, data, inf, ca, fr, m, root, inf2, ca2, fr2) ==
  /\ DOMAIN inf2 = DOMAIN inf
  /\ Elsewhere(x, inf, ca, inf2, ca2, m, root)
  /\ ca2[inf2[x].vbn].data = data
  /\ ca2[inf2[x].vbn].state = ca[inf[x].vbn].state
  /\ inf[x].dirty \/ fr = {} => inf2 = inf /\ fr2 = fr
  /\ ~inf[x].dirty /\ fr # {} => inf2[x].dirty /\ fr2 # {}

\* WriteRoot has this outcome, keeps the places and never ends the program.
LEMMA WriteRootCore ==
  ASSUME NEW inf, NEW ca, NEW fr, NEW m, NEW root, NEW x, NEW data \in Content, NEW next,
         ContainerAssumption,
         Core(inf, ca, fr, m, root),
         x \in DOMAIN inf,
         WriteRoot(x, data, inf, ca, fr, next)
  PROVE  \E root2 :
           /\ Core(info', cache', free', m, root2)
           /\ x # ID => root2 = root
           /\ ct' = next
           /\ RootAt(x, data, inf, ca, fr, m, root, info', cache', free')
<1> DEFINE old == inf[x].vbn
           changed == [ca EXCEPT ![old].data = data]
<1>0. /\ x \in Here(inf, m) /\ Loc(inf, m, root, x) = old
      /\ \A y \in Here(inf, m) \ {x} : Loc(inf, m, root, y) # old
      /\ \A y \in Here(inf, m) : Loc(inf, m, root, y) \notin fr
      /\ old \in DOMAIN ca
  <2>1. /\ x \in Here(inf, m) /\ Loc(inf, m, root, x) = old
        /\ old \in DOMAIN ca
    BY DEF Core, Cached, Mapped, Here, Loc, InfoType, All
  <2>2. /\ \A y \in Here(inf, m) : Loc(inf, m, root, y) \notin fr
        /\ \A y \in Here(inf, m) \ {x} : Loc(inf, m, root, y) # Loc(inf, m, root, x)
    BY <2>1 DEF Core, Apart
  <2> QED BY <2>1, <2>2
<1>1. CASE /\ inf[x].dirty \/ fr = {}
           /\ info' = inf /\ cache' = changed /\ free' = fr
           /\ ct' = next
  <2>1. PICK ca2 : ca2 = ChangedAt(ca, inf[x].vbn, data)
    OBVIOUS
  <2>2. /\ Core(inf, ca2, fr, m, root)
        /\ AtBlock(inf, ca, x, inf[x].vbn, data, inf, ca2)
    BY <2>1, StayCore
  <2>3. Elsewhere(x, inf, ca, inf, ca2, m, root)
    BY <2>2, <1>0 DEF Elsewhere, AtBlock
  <2>4. ca2 = cache'
    BY <2>1, <1>1 DEF ChangedAt
  <2> QED BY <2>2, <2>3, <2>4, <1>1 DEF AtBlock, RootAt
<1>2. CASE /\ ~inf[x].dirty
           /\ \E b \in fr :
                /\ info' = [inf EXCEPT ![x].vbn = b, ![x].dirty = TRUE]
                /\ cache' = Moved(changed, old, b)
                /\ free' = (fr \ {b}) \cup {old}
                /\ ct' = IF b \in DOMAIN ca THEN "aborted" ELSE next
  <2>0. PICK b \in fr : /\ info' = [inf EXCEPT ![x].vbn = b, ![x].dirty = TRUE]
                        /\ cache' = Moved(changed, old, b)
                        /\ free' = (fr \ {b}) \cup {old}
                        /\ ct' = IF b \in DOMAIN ca THEN "aborted" ELSE next
    BY <1>2
  <2>1. PICK inf2, ca2, fr2, root2 :
          /\ inf2 = MovedTo(inf, x, b)
          /\ ca2 = Moved(ChangedAt(ca, inf[x].vbn, data), inf[x].vbn, b)
          /\ fr2 = (fr \ {b}) \cup {inf[x].vbn}
          /\ root2 = IF x = ID THEN b ELSE root
    OBVIOUS
  <2>2. /\ Core(inf2, ca2, fr2, m, root2)
        /\ b \notin DOMAIN ca
        /\ inf2[x].dirty
        /\ AtBlock(inf, ca, x, b, data, inf2, ca2)
    BY <2>1, <1>2, MoveCore
  <2>3. Elsewhere(x, inf, ca, inf2, ca2, m, root)
    <3>1. ASSUME NEW y \in Here(inf, m) \ {x}, NEW c, c = Loc(inf, m, root, y)
          PROVE  /\ c \in DOMAIN ca2 <=> c \in DOMAIN ca
                 /\ c \in DOMAIN ca => ca2[c] = ca[c]
      BY <2>2, <1>0, <3>1 DEF AtBlock
    <3> QED BY <2>2, <3>1 DEF Elsewhere, AtBlock
  <2>4. ca2 = cache' /\ inf2 = info' /\ fr2 = free'
    BY <2>0, <2>1 DEF ChangedAt, MovedTo
  <2>5. ct' = next
    BY <2>0, <2>2
  <2>6. fr # {} /\ fr2 # {}
    BY <2>1
  <2>7. x # ID => root2 = root
    BY <2>1
  <2> QED BY <2>2, <2>3, <2>4, <2>5, <2>6, <2>7, <1>2 DEF AtBlock, RootAt
<1> QED BY <1>1, <1>2 DEF WriteRoot

\* The inode of another object holds what it held.
LEMMA KeptElsewhere ==
  ASSUME NEW inf, NEW ca, NEW inf2, NEW ca2, NEW m, NEW m2, NEW root, NEW x,
         NEW o \in Objects, NEW n, NEW dk, NEW phase,
         ContainerAssumption,
         Elsewhere(x, inf, ca, inf2, ca2, m, root), o # x, m2[o] = m[o],
         Kept(o, n, inf, ca, dk, m, phase),
         Cached(inf, ca, m, root)
  PROVE  Kept(o, n, inf2, ca2, dk, m2, phase)
<1>1. o # ID /\ (o \in DOMAIN inf <=> o \in DOMAIN inf2)
  BY DEF ContainerAssumption, Elsewhere
<1>2. CASE o \in DOMAIN inf
  <2>1. inf2[o] = inf[o] /\ o \in DOMAIN inf2 /\ inf[o].vbn \in DOMAIN ca
    BY <1>1, <1>2 DEF Elsewhere, Cached
  <2>2. ca2[inf[o].vbn] = ca[inf[o].vbn]
    <3>1. o \in Here(inf, m) \ {x} /\ Loc(inf, m, root, o) = inf[o].vbn
      BY <1>1, <1>2 DEF Here, Loc
    <3> QED BY <2>1, <3>1 DEF Elsewhere
  <2> QED BY <1>2, <2>1, <2>2 DEF Kept
<1>3. CASE o \notin DOMAIN inf /\ m[o] # 0
  <2>1. o \in Here(inf, m) \ {x} /\ Loc(inf, m, root, o) = m[o]
    BY <1>1, <1>3 DEF Here, Loc
  <2>2. At(ca2, dk, m[o]) = At(ca, dk, m[o])
    BY <2>1 DEF Elsewhere, At
  <2> QED BY <1>1, <1>3, <2>2 DEF Kept
<1>4. CASE o \notin DOMAIN inf /\ m[o] = 0
  BY <1>1, <1>4 DEF Kept
<1> QED BY <1>2, <1>3, <1>4

\* And so does the root.
LEMMA RootElsewhere ==
  ASSUME NEW inf, NEW ca, NEW inf2, NEW ca2, NEW m, NEW root, NEW x,
         NEW dk, NEW phase, NEW gone,
         Elsewhere(x, inf, ca, inf2, ca2, m, root), x # ID, ID \in DOMAIN inf,
         RootKept(inf, ca, dk, root, phase, gone),
         Cached(inf, ca, m, root), Mapped(inf, m, root)
  PROVE  /\ RootKept(inf2, ca2, dk, root, phase, gone)
         /\ ID \in DOMAIN inf2 /\ inf2[ID] = inf[ID]
         /\ root \in DOMAIN ca2 /\ root \in DOMAIN ca /\ ca2[root] = ca[root]
<1>1. ID \in DOMAIN inf2 /\ inf2[ID] = inf[ID]
  BY DEF Elsewhere
<1>2. ID \in Here(inf, m) \ {x} /\ Loc(inf, m, root, ID) = root
  BY DEF Here, Loc
<1>3. root \in DOMAIN ca
  BY DEF Cached, Mapped
<1>4. root \in DOMAIN ca2 /\ ca2[root] = ca[root]
  BY <1>2, <1>3 DEF Elsewhere
<1> QED BY <1>1, <1>3, <1>4 DEF RootKept
-----------------------------------------------------------------------------
(***************************************************************************)
(* Objects that come and go.                                               *)
(***************************************************************************)
\* The handles of a new object and of one that was read, and a map that leads to
\* the new place of an inode.
NewHandle(b) == [ref |-> 1, vbn |-> b, dirty |-> TRUE]
ReadHandle(b) == [ref |-> 1, vbn |-> b, dirty |-> FALSE]
Leading(m, o, b) == [m EXCEPT ![o] = b]

\* The places when o was created with change n in block b.
Created(o, b, n, inf, ca, fr, m, root, inf2, ca2, m2) ==
  /\ Core(inf2, ca2, fr \ {b}, m2, root)
  /\ Elsewhere(o, inf, ca, inf2, ca2, m, root)
  /\ \A dk, phase : phase # "flush_commit" => Kept(o, n, inf2, ca2, dk, m2, phase)

\* create_object: the inode of a new object is in a block that was free.
LEMMA CreatedCore ==
  ASSUME NEW inf, NEW ca, NEW fr, NEW m, NEW root, NEW o \in Objects, NEW b \in fr,
         NEW n \in 0 .. MaxChanges, NEW inf2, NEW ca2, NEW m2,
         ContainerAssumption,
         Core(inf, ca, fr, m, root),
         o \notin DOMAIN inf, m[o] = 0, ID \in DOMAIN inf,
         inf2 = With(inf, o, NewHandle(b)),
         ca2 = With(ca, b, Entry("dirty", Inode(o, n))),
         m2 = Leading(m, o, b)
  PROVE  Created(o, b, n, inf, ca, fr, m, root, inf2, ca2, m2)
<1>0. o # ID
  BY DEF ContainerAssumption
<1>1. /\ DOMAIN inf2 = DOMAIN inf \cup {o}
      /\ inf2[o] = [ref |-> 1, vbn |-> b, dirty |-> TRUE]
      /\ \A y \in DOMAIN inf : inf2[y] = inf[y]
  BY DEF With, NewHandle, ReadHandle
<1>18. inf2[o].vbn = b /\ inf2[o].dirty
  BY <1>1
<1>2. b \in Blocks /\ b \notin DOMAIN ca
  BY DEF Core, Cached, Apart
<1>3. /\ DOMAIN ca2 = DOMAIN ca \cup {b}
      /\ ca2[b] = Entry("dirty", Inode(o, n))
      /\ \A c \in DOMAIN ca : ca2[c] = ca[c]
  BY <1>2 DEF With
<1>4. /\ m2[o] = b /\ m2 \in [Objects -> {0} \cup Blocks]
      /\ \A p \in Objects \ {o} : m2[p] = m[p]
  BY <1>2 DEF Core, Mapped, Leading
<1>5. b # 0
  BY <1>2 DEF ContainerAssumption
<1>6. InfoType(inf2)
  <2>1. inf2[o] \in [ref : 1 .. MaxRef, vbn : Blocks, dirty : BOOLEAN]
    <3>1. MaxRef \in Nat /\ MaxRef > 0
      BY DEF ContainerAssumption
    <3>2. [ref |-> 1, vbn |-> b, dirty |-> TRUE]
            \in [ref : 1 .. MaxRef, vbn : Blocks, dirty : BOOLEAN]
      BY <1>2, <3>1
    <3> QED BY <1>1, <3>2
  <2> QED BY <1>1, <2>1 DEF Core, InfoType, All
<1>7. CacheType(ca2)
  <2>0. PICK d : d = Inode(o, n)
    OBVIOUS
  <2>1. ca2[b] = [state |-> "dirty", flush |-> FALSE, data |-> d]
    BY <1>3, <2>0 DEF Entry
  <2>2. d \in Content
    BY <2>0 DEF Content, Inode
  <2>3. /\ [state |-> "dirty", flush |-> FALSE, data |-> d]
             \in [state : {"clean", "dirty"}, flush : BOOLEAN, data : Content]
        /\ [state |-> "dirty", flush |-> FALSE, data |-> d].state = "dirty"
    BY <2>2
  <2> QED BY <1>2, <1>3, <2>1, <2>3 DEF Core, CacheType
<1>8. Here(inf2, m2) = Here(inf, m) \cup {o} /\ o \notin Here(inf, m)
  BY <1>0, <1>1, <1>4, <1>5 DEF Here
<1>9. /\ Loc(inf2, m2, root, o) = b
      /\ \A y \in Here(inf, m) : Loc(inf2, m2, root, y) = Loc(inf, m, root, y)
  <2>1. ASSUME NEW y \in Here(inf, m)
        PROVE  Loc(inf2, m2, root, y) = Loc(inf, m, root, y)
    <3>1. y # o /\ (y = ID \/ y \in Objects)
      BY <1>8 DEF Here
    <3> QED BY <3>1, <1>1, <1>4 DEF Loc
  <2>2. Loc(inf2, m2, root, o) = inf2[o].vbn /\ inf2[o].vbn = b
    BY <1>0, <1>1 DEF Loc
  <2> QED BY <2>1, <2>2
<1>10. Apart(inf2, fr \ {b}, m2, root)
  <2>1. ASSUME NEW y \in Here(inf, m)
        PROVE  Loc(inf2, m2, root, y) \in Blocks \ fr /\ Loc(inf2, m2, root, y) # b
    BY <1>9 DEF Core, Apart
  <2>2. ASSUME NEW y \in Here(inf, m), NEW z \in Here(inf, m), y # z
        PROVE  Loc(inf2, m2, root, y) # Loc(inf2, m2, root, z)
    BY <1>9, <2>2 DEF Core, Apart
  <2>3. ASSUME NEW y \in Here(inf2, m2)
        PROVE  Loc(inf2, m2, root, y) \in Blocks \ (fr \ {b})
    BY <1>2, <1>8, <1>9, <2>1
  <2>4. ASSUME NEW y \in Here(inf2, m2), NEW z \in Here(inf2, m2), y # z
        PROVE  Loc(inf2, m2, root, y) # Loc(inf2, m2, root, z)
    <3>1. CASE y = o
      BY <1>8, <1>9, <2>1, <2>4, <3>1
    <3>2. CASE z = o
      BY <1>8, <1>9, <2>1, <2>4, <3>2
    <3>3. CASE y # o /\ z # o
      BY <1>8, <2>2, <2>4, <3>3
    <3> QED BY <3>1, <3>2, <3>3
  <2> QED BY <2>3, <2>4 DEF Apart
<1>11. Cached(inf2, ca2, m2, root)
  <2>1. ASSUME NEW c \in DOMAIN ca2
        PROVE  \E y \in Here(inf2, m2) :
                 /\ Loc(inf2, m2, root, y) = c
                 /\ y \notin DOMAIN inf2 => ca2[c].state = "dirty" /\ ca2[c].flush
    <3>1. CASE c = b
      BY <3>1, <1>1, <1>8, <1>9
    <3>2. CASE c # b
      <4>1. c \in DOMAIN ca /\ ca2[c] = ca[c]
        BY <3>2, <1>3
      <4>2. PICK y \in Here(inf, m) :
              /\ Loc(inf, m, root, y) = c
              /\ y \notin DOMAIN inf => ca[c].state = "dirty" /\ ca[c].flush
        BY <4>1 DEF Core, Cached
      <4> QED BY <4>1, <4>2, <1>1, <1>8, <1>9
    <3> QED BY <3>1, <3>2
  <2>2. ASSUME NEW y \in DOMAIN inf2
        PROVE  inf2[y].vbn \in DOMAIN ca2 /\ ~ca2[inf2[y].vbn].flush
    <3>1. CASE y = o
      BY <3>1, <1>1, <1>3 DEF Entry
    <3>2. CASE y # o
      <4>1. y \in DOMAIN inf /\ inf2[y] = inf[y]
        BY <3>2, <1>1
      <4>2. inf[y].vbn \in DOMAIN ca /\ ~ca[inf[y].vbn].flush
        BY <4>1 DEF Core, Cached
      <4> QED BY <4>1, <4>2, <1>3
    <3> QED BY <3>1, <3>2
  <2> QED BY <2>1, <2>2 DEF Cached
<1>12. Mapped(inf2, m2, root)
  <2>1. inf2[ID].vbn = root
    BY <1>1 DEF Core, Mapped
  <2>2. ASSUME NEW p \in DOMAIN inf2 \ {ID}, ~inf2[p].dirty
        PROVE  m2[p] = inf2[p].vbn
    <3>1. p # o /\ p \in DOMAIN inf \ {ID} /\ inf2[p] = inf[p]
      BY <2>2, <1>1, <1>18
    <3>2. p \in Objects /\ m[p] = inf[p].vbn
      BY <2>2, <3>1 DEF Core, Mapped, InfoType, All
    <3> QED BY <3>1, <3>2, <1>4
  <2> QED BY <2>1, <2>2, <1>4 DEF Mapped
<1>13. Elsewhere(o, inf, ca, inf2, ca2, m, root)
  <2>1. ASSUME NEW y \in Here(inf, m)
        PROVE  Loc(inf, m, root, y) # b
    BY DEF Core, Apart
  <2> QED BY <1>1, <1>3, <2>1 DEF Elsewhere
<1>14. ASSUME NEW dk, NEW phase, phase # "flush_commit"
       PROVE  Kept(o, n, inf2, ca2, dk, m2, phase)
  <2>1. Holds(ca2[b].data, o, n)
    BY <1>3 DEF Holds, Entry, Inode
  <2> QED BY <1>1, <1>18, <1>14, <2>1 DEF Kept
<1>15. fr \ {b} \subseteq Blocks
  BY DEF Core
<1>16. Core(inf2, ca2, fr \ {b}, m2, root)
  BY <1>6, <1>7, <1>10, <1>11, <1>12, <1>15 DEF Core
<1> QED BY <1>13, <1>14, <1>16 DEF Created

\* The places when o was opened and has content data.
Opened(o, data, inf, ca, fr, m, root, inf2, ca2) ==
  /\ Core(inf2, ca2, fr, m, root)
  /\ Elsewhere(o, inf, ca, inf2, ca2, m, root)
  /\ DOMAIN inf2 = DOMAIN inf \cup {o}
  /\ inf2[o].vbn = m[o] /\ ~inf2[o].dirty
  /\ ca2[m[o]].data = data

\* open_object: the inode of an object in the map gets a handle; its entry is
\* clean now.
LEMMA OpenedCore ==
  ASSUME NEW inf, NEW ca, NEW fr, NEW m, NEW root, NEW o \in Objects,
         NEW data \in Content, NEW inf2, NEW ca2,
         ContainerAssumption,
         Core(inf, ca, fr, m, root),
         o \notin DOMAIN inf, m[o] # 0, ID \in DOMAIN inf,
         inf2 = With(inf, o, ReadHandle(m[o])),
         ca2 = With(ca, m[o], Entry("clean", data))
  PROVE  Opened(o, data, inf, ca, fr, m, root, inf2, ca2)
<1>0. o # ID
  BY DEF ContainerAssumption
<1>1. /\ DOMAIN inf2 = DOMAIN inf \cup {o}
      /\ inf2[o] = [ref |-> 1, vbn |-> m[o], dirty |-> FALSE]
      /\ \A y \in DOMAIN inf : inf2[y] = inf[y]
  BY DEF With, NewHandle, ReadHandle
<1>2. inf2[o].vbn = m[o] /\ ~inf2[o].dirty
  BY <1>1
<1>3. o \in Here(inf, m) /\ Loc(inf, m, root, o) = m[o] /\ m[o] \in Blocks \ fr
  BY <1>0 DEF Here, Loc, Core, Apart
<1>4. /\ DOMAIN ca2 = DOMAIN ca \cup {m[o]}
      /\ ca2[m[o]] = Entry("clean", data)
      /\ \A c \in DOMAIN ca \ {m[o]} : ca2[c] = ca[c]
  BY DEF With
<1>5. InfoType(inf2)
  <2>1. MaxRef \in Nat /\ MaxRef > 0
    BY DEF ContainerAssumption
  <2>2. [ref |-> 1, vbn |-> m[o], dirty |-> FALSE]
          \in [ref : 1 .. MaxRef, vbn : Blocks, dirty : BOOLEAN]
    BY <1>3, <2>1
  <2> QED BY <1>1, <2>2 DEF Core, InfoType, All
<1>6. CacheType(ca2)
  <2>1. /\ [state |-> "clean", flush |-> FALSE, data |-> data]
             \in [state : {"clean", "dirty"}, flush : BOOLEAN, data : Content]
        /\ ~[state |-> "clean", flush |-> FALSE, data |-> data].flush
    OBVIOUS
  <2>2. ca2[m[o]] = [state |-> "clean", flush |-> FALSE, data |-> data]
    BY <1>4 DEF Entry
  <2> QED BY <1>3, <1>4, <2>1, <2>2 DEF Core, CacheType
<1>7. Here(inf2, m) = Here(inf, m)
  BY <1>1 DEF Here
<1>8. ASSUME NEW y \in Here(inf, m)
      PROVE  Loc(inf2, m, root, y) = Loc(inf, m, root, y)
  <2>1. CASE y = o
    <3>1. Loc(inf2, m, root, o) = inf2[o].vbn
      BY <1>0, <1>1 DEF Loc
    <3> QED BY <2>1, <3>1, <1>2, <1>3
  <2>2. CASE y # o
    BY <2>2, <1>1 DEF Loc
  <2> QED BY <2>1, <2>2
<1>9. Apart(inf2, fr, m, root)
  <2>1. ASSUME NEW y \in Here(inf2, m)
        PROVE  Loc(inf2, m, root, y) \in Blocks \ fr
    BY <1>7, <1>8 DEF Core, Apart
  <2>2. ASSUME NEW y \in Here(inf2, m), NEW z \in Here(inf2, m), y # z
        PROVE  Loc(inf2, m, root, y) # Loc(inf2, m, root, z)
    BY <1>7, <1>8, <2>2 DEF Core, Apart
  <2> QED BY <2>1, <2>2 DEF Apart
<1>10. ASSUME NEW y \in Here(inf, m) \ {o}
       PROVE  Loc(inf, m, root, y) # m[o]
  BY <1>3 DEF Core, Apart
<1>11. Cached(inf2, ca2, m, root)
  <2>1. ASSUME NEW c \in DOMAIN ca2
        PROVE  \E y \in Here(inf2, m) :
                 /\ Loc(inf2, m, root, y) = c
                 /\ y \notin DOMAIN inf2 => ca2[c].state = "dirty" /\ ca2[c].flush
    <3>1. CASE c = m[o]
      BY <3>1, <1>1, <1>3, <1>7, <1>8
    <3>2. CASE c # m[o]
      <4>1. c \in DOMAIN ca /\ ca2[c] = ca[c]
        BY <3>2, <1>4
      <4>2. PICK y \in Here(inf, m) :
              /\ Loc(inf, m, root, y) = c
              /\ y \notin DOMAIN inf => ca[c].state = "dirty" /\ ca[c].flush
        BY <4>1 DEF Core, Cached
      <4>3. y # o
        BY <3>2, <4>2, <1>3
      <4> QED BY <4>1, <4>2, <4>3, <1>1, <1>7, <1>8
    <3> QED BY <3>1, <3>2
  <2>2. ASSUME NEW y \in DOMAIN inf2
        PROVE  inf2[y].vbn \in DOMAIN ca2 /\ ~ca2[inf2[y].vbn].flush
    <3>1. CASE y = o
      BY <3>1, <1>2, <1>4 DEF Entry
    <3>2. CASE y # o
      <4>1. y \in DOMAIN inf /\ inf2[y] = inf[y]
        BY <3>2, <1>1
      <4>2. inf[y].vbn \in DOMAIN ca /\ ~ca[inf[y].vbn].flush
        BY <4>1 DEF Core, Cached
      <4>3. y \in Here(inf, m) \ {o} /\ Loc(inf, m, root, y) = inf[y].vbn
        BY <3>2, <4>1 DEF Here, Loc, Core, Mapped, InfoType, All
      <4>4. inf[y].vbn # m[o]
        BY <4>3, <1>10
      <4> QED BY <4>1, <4>2, <4>4, <1>4
    <3> QED BY <3>1, <3>2
  <2> QED BY <2>1, <2>2 DEF Cached
<1>12. Mapped(inf2, m, root)
  <2>1. inf2[ID].vbn = root
    BY <1>1 DEF Core, Mapped
  <2>2. ASSUME NEW p \in DOMAIN inf2 \ {ID}, ~inf2[p].dirty
        PROVE  m[p] = inf2[p].vbn
    <3>1. CASE p = o
      BY <3>1, <1>2
    <3>2. CASE p # o
      <4>1. p \in DOMAIN inf \ {ID} /\ inf2[p] = inf[p]
        BY <3>2, <1>1
      <4> QED BY <2>2, <4>1 DEF Core, Mapped
    <3> QED BY <3>1, <3>2
  <2> QED BY <2>1, <2>2 DEF Core, Mapped
<1>13. Elsewhere(o, inf, ca, inf2, ca2, m, root)
  BY <1>1, <1>4, <1>10 DEF Elsewhere
<1>14. Core(inf2, ca2, fr, m, root)
  BY <1>5, <1>6, <1>9, <1>11, <1>12 DEF Core
<1>15. ca2[m[o]].data = data
  BY <1>4 DEF Entry
<1> QED BY <1>1, <1>2, <1>13, <1>14, <1>15 DEF Opened

\* SET_INODE_DIRTY, and the map that gets the new place of the inode.
MarkedDirty(ca, b) == [ca EXCEPT ![b].state = "dirty", ![b].flush = FALSE]

\* The places when the map leads to the inode of o, which will be written.
Recorded(o, inf, ca, fr, m, root, ca2, m2) ==
  /\ Core(inf, ca2, fr, m2, root)
  /\ Elsewhere(o, inf, ca, inf, ca2, m, root)
  /\ ca2[inf[o].vbn].state = "dirty"
  /\ ca2[inf[o].vbn].data = ca[inf[o].vbn].data
  /\ m2[o] = inf[o].vbn

\* validate_obj_inode of an object whose root has moved.
LEMMA ValidatedCore ==
  ASSUME NEW inf, NEW ca, NEW fr, NEW m, NEW root, NEW o \in Objects, NEW ca2, NEW m2,
         ContainerAssumption,
         Core(inf, ca, fr, m, root),
         o \in DOMAIN inf,
         ca2 = MarkedDirty(ca, inf[o].vbn),
         m2 = Leading(m, o, inf[o].vbn)
  PROVE  Recorded(o, inf, ca, fr, m, root, ca2, m2)
<1> DEFINE b == inf[o].vbn
<1>0. o # ID
  BY DEF ContainerAssumption
<1>1. b \in DOMAIN ca /\ ~ca[b].flush
  BY DEF Core, Cached
<1>2. /\ ca[b] \in [state : {"clean", "dirty"}, flush : BOOLEAN, data : Content]
      /\ b \in Blocks
  BY <1>1 DEF Core, CacheType
<1>3. /\ DOMAIN ca2 = DOMAIN ca
      /\ \A c \in DOMAIN ca \ {b} : ca2[c] = ca[c]
      /\ ca2[b] = [ca[b] EXCEPT !.state = "dirty", !.flush = FALSE]
  BY <1>1 DEF MarkedDirty
<1>4. /\ ca2[b].state = "dirty" /\ ~ca2[b].flush /\ ca2[b].data = ca[b].data
      /\ ca2[b] \in [state : {"clean", "dirty"}, flush : BOOLEAN, data : Content]
  BY <1>2, <1>3
<1>5. CacheType(ca2)
  BY <1>3, <1>4 DEF Core, CacheType
<1>6. /\ m2 \in [Objects -> {0} \cup Blocks] /\ m2[o] = b
      /\ \A p \in Objects \ {o} : m2[p] = m[p]
  BY <1>2 DEF Core, Mapped, Leading
<1>7. Here(inf, m2) = Here(inf, m)
  BY <1>6 DEF Here
<1>8. ASSUME NEW y \in Here(inf, m)
      PROVE  Loc(inf, m2, root, y) = Loc(inf, m, root, y)
  BY <1>6 DEF Here, Loc
<1>9. Apart(inf, fr, m2, root)
  <2>1. ASSUME NEW y \in Here(inf, m2)
        PROVE  Loc(inf, m2, root, y) \in Blocks \ fr
    BY <1>7, <1>8 DEF Core, Apart
  <2>2. ASSUME NEW y \in Here(inf, m2), NEW z \in Here(inf, m2), y # z
        PROVE  Loc(inf, m2, root, y) # Loc(inf, m2, root, z)
    BY <1>7, <1>8, <2>2 DEF Core, Apart
  <2> QED BY <2>1, <2>2 DEF Apart
<1>10. /\ o \in Here(inf, m) /\ Loc(inf, m, root, o) = b
       /\ \A y \in Here(inf, m) \ {o} : Loc(inf, m, root, y) # b
  <2>1. o \in Here(inf, m) /\ Loc(inf, m, root, o) = b
    BY <1>0 DEF Here, Loc
  <2> QED BY <2>1 DEF Core, Apart
<1>11. Cached(inf, ca2, m2, root)
  <2>1. ASSUME NEW c \in DOMAIN ca2
        PROVE  \E y \in Here(inf, m2) :
                 /\ Loc(inf, m2, root, y) = c
                 /\ y \notin DOMAIN inf => ca2[c].state = "dirty" /\ ca2[c].flush
    <3>1. CASE c = b
      BY <3>1, <1>7, <1>8, <1>10
    <3>2. CASE c # b
      <4>1. c \in DOMAIN ca /\ ca2[c] = ca[c]
        BY <3>2, <1>3
      <4>2. PICK y \in Here(inf, m) :
              /\ Loc(inf, m, root, y) = c
              /\ y \notin DOMAIN inf => ca[c].state = "dirty" /\ ca[c].flush
        BY <4>1 DEF Core, Cached
      <4> QED BY <4>1, <4>2, <1>7, <1>8
    <3> QED BY <3>1, <3>2
  <2>2. ASSUME NEW y \in DOMAIN inf
        PROVE  inf[y].vbn \in DOMAIN ca2 /\ ~ca2[inf[y].vbn].flush
    <3>1. inf[y].vbn \in DOMAIN ca /\ ~ca[inf[y].vbn].flush
      BY DEF Core, Cached
    <3> QED BY <3>1, <1>3, <1>4
  <2> QED BY <2>1, <2>2 DEF Cached
<1>12. Mapped(inf, m2, root)
  <2>1. ASSUME NEW p \in DOMAIN inf \ {ID}, ~inf[p].dirty
        PROVE  m2[p] = inf[p].vbn
    <3>1. p \in Objects /\ m[p] = inf[p].vbn
      BY <2>1 DEF Core, Mapped, InfoType, All
    <3> QED BY <3>1, <1>6
  <2> QED BY <2>1, <1>6 DEF Core, Mapped
<1>13. Elsewhere(o, inf, ca, inf, ca2, m, root)
  BY <1>3, <1>10 DEF Elsewhere
<1>14. Core(inf, ca2, fr, m2, root)
  BY <1>5, <1>9, <1>11, <1>12 DEF Core
<1> QED BY <1>4, <1>6, <1>13, <1>14 DEF Recorded

\* The places when x has no handle any more.
Gone(x, inf, ca, fr, m, root, inf2, ca2) ==
  /\ Core(inf2, ca2, fr, m, root)
  /\ Elsewhere(x, inf, ca, inf2, ca2, m, root)
  /\ DOMAIN inf2 = DOMAIN inf \ {x}
  /\ inf[x].vbn \in DOMAIN ca
  /\ inf[x].vbn \in DOMAIN ca2 <=> ca[inf[x].vbn].state = "dirty"
  /\ inf[x].vbn \in DOMAIN ca2 => ca2[inf[x].vbn].data = ca[inf[x].vbn].data

\* release_obj_cache and put_object_info: the map leads to the inode, whose
\* entry stays if it waits to be written.
LEMMA ReleasedCore ==
  ASSUME NEW inf, NEW ca, NEW fr, NEW m, NEW root, NEW x \in DOMAIN inf, NEW ca2, NEW inf2,
         ContainerAssumption,
         Core(inf, ca, fr, m, root),
         x = ID \/ m[x] = inf[x].vbn,
         ca2 = Released(ca, inf[x].vbn),
         inf2 = Without(inf, x)
  PROVE  Gone(x, inf, ca, fr, m, root, inf2, ca2)
<1> DEFINE b == inf[x].vbn
<1>1. b \in DOMAIN ca /\ b \in Blocks /\ b # 0
  BY DEF Core, Cached, CacheType, ContainerAssumption
<1>2. ca[b] \in [state : {"clean", "dirty"}, flush : BOOLEAN, data : Content]
  BY <1>1 DEF Core, CacheType
<1>3. /\ DOMAIN inf2 = DOMAIN inf \ {x}
      /\ \A y \in DOMAIN inf \ {x} : inf2[y] = inf[y]
  BY DEF Without
<1>4. /\ DOMAIN ca2 \subseteq DOMAIN ca
      /\ \A c \in DOMAIN ca \ {b} : c \in DOMAIN ca2 /\ ca2[c] = ca[c]
      /\ b \in DOMAIN ca2 <=> ca[b].state = "dirty"
      /\ b \in DOMAIN ca2 => ca2[b] = [ca[b] EXCEPT !.flush = TRUE]
  <2>1. CASE ca[b].state = "dirty"
    BY <2>1, <1>1 DEF Released
  <2>2. CASE ca[b].state # "dirty"
    BY <2>2, <1>1 DEF Released, Without
  <2> QED BY <2>1, <2>2
<1>5. b \in DOMAIN ca2 =>
        /\ ca2[b].state = "dirty" /\ ca2[b].flush /\ ca2[b].data = ca[b].data
        /\ ca2[b] \in [state : {"clean", "dirty"}, flush : BOOLEAN, data : Content]
  <2>1. ASSUME b \in DOMAIN ca2
        PROVE  /\ ca2[b].state = "dirty" /\ ca2[b].flush /\ ca2[b].data = ca[b].data
               /\ ca2[b] \in [state : {"clean", "dirty"}, flush : BOOLEAN, data : Content]
    <3>1. ca[b].state = "dirty" /\ ca2[b] = [ca[b] EXCEPT !.flush = TRUE]
      BY <2>1, <1>4
    <3> QED BY <3>1, <1>2
  <2> QED BY <2>1
<1>6. InfoType(inf2)
  BY <1>3 DEF Core, InfoType
<1>7. CacheType(ca2)
  <2>1. DOMAIN ca2 \subseteq Blocks
    BY <1>4 DEF Core, CacheType
  <2>2. ASSUME NEW c \in DOMAIN ca2
        PROVE  /\ ca2[c] \in [state : {"clean", "dirty"}, flush : BOOLEAN, data : Content]
               /\ ca2[c].flush => ca2[c].state = "dirty"
    <3>1. CASE c = b
      BY <3>1, <1>5
    <3>2. CASE c # b
      BY <3>2, <1>4 DEF Core, CacheType
    <3> QED BY <3>1, <3>2
  <2> QED BY <2>1, <2>2 DEF CacheType
<1>8. x = ID \/ (x \in Objects /\ x # ID)
  BY DEF Core, InfoType, All
<1>9. Here(inf2, m) = Here(inf, m)
  BY <1>1, <1>3, <1>8 DEF Here
<1>10. ASSUME NEW y \in Here(inf, m)
       PROVE  Loc(inf2, m, root, y) = Loc(inf, m, root, y)
  BY <1>3 DEF Loc
<1>11. Apart(inf2, fr, m, root)
  <2>1. ASSUME NEW y \in Here(inf2, m)
        PROVE  Loc(inf2, m, root, y) \in Blocks \ fr
    BY <1>9, <1>10 DEF Core, Apart
  <2>2. ASSUME NEW y \in Here(inf2, m), NEW z \in Here(inf2, m), y # z
        PROVE  Loc(inf2, m, root, y) # Loc(inf2, m, root, z)
    BY <1>9, <1>10, <2>2 DEF Core, Apart
  <2> QED BY <2>1, <2>2 DEF Apart
<1>12. /\ x \in Here(inf, m) /\ Loc(inf, m, root, x) = b
       /\ \A y \in Here(inf, m) \ {x} : Loc(inf, m, root, y) # b
  <2>1. x \in Here(inf, m) /\ Loc(inf, m, root, x) = b
    BY <1>8 DEF Here, Loc, Core, Mapped
  <2> QED BY <2>1 DEF Core, Apart
<1>13. Cached(inf2, ca2, m, root)
  <2>1. ASSUME NEW c \in DOMAIN ca2
        PROVE  \E y \in Here(inf2, m) :
                 /\ Loc(inf2, m, root, y) = c
                 /\ y \notin DOMAIN inf2 => ca2[c].state = "dirty" /\ ca2[c].flush
    <3>1. CASE c = b
      BY <3>1, <1>5, <1>9, <1>10, <1>12
    <3>2. CASE c # b
      <4>1. c \in DOMAIN ca /\ ca2[c] = ca[c]
        BY <3>2, <1>4
      <4>2. PICK y \in Here(inf, m) :
              /\ Loc(inf, m, root, y) = c
              /\ y \notin DOMAIN inf => ca[c].state = "dirty" /\ ca[c].flush
        BY <4>1 DEF Core, Cached
      <4>3. y # x
        BY <3>2, <4>2, <1>12
      <4> QED BY <4>1, <4>2, <4>3, <1>3, <1>9, <1>10
    <3> QED BY <3>1, <3>2
  <2>2. ASSUME NEW y \in DOMAIN inf2
        PROVE  inf2[y].vbn \in DOMAIN ca2 /\ ~ca2[inf2[y].vbn].flush
    <3>1. y \in DOMAIN inf /\ y # x /\ inf2[y] = inf[y]
      BY <1>3
    <3>2. inf[y].vbn \in DOMAIN ca /\ ~ca[inf[y].vbn].flush
      BY <3>1 DEF Core, Cached
    <3>3. y \in Here(inf, m) /\ Loc(inf, m, root, y) = inf[y].vbn
      BY <3>1 DEF Here, Loc, Core, Mapped, InfoType, All
    <3>4. inf[y].vbn # b
      BY <3>1, <3>3, <1>12
    <3> QED BY <3>1, <3>2, <3>4, <1>4
  <2> QED BY <2>1, <2>2 DEF Cached
<1>14. Mapped(inf2, m, root)
  BY <1>3 DEF Core, Mapped
<1>15. Elsewhere(x, inf, ca, inf2, ca2, m, root)
  BY <1>3, <1>4, <1>12 DEF Elsewhere
<1>16. Core(inf2, ca2, fr, m, root)
  BY <1>6, <1>7, <1>11, <1>13, <1>14 DEF Core
<1> QED BY <1>1, <1>3, <1>4, <1>5, <1>15, <1>16 DEF Gone
-----------------------------------------------------------------------------
(***************************************************************************)
(* The flush.                                                              *)
(***************************************************************************)
\* All inodes of a set of blocks are marked, as validate_all_objects does.
MarkedAll(ca, blocks) ==
  [b \in DOMAIN ca |-> IF b \in blocks THEN Entry("dirty", ca[b].data) ELSE ca[b]]

Marked(blocks, inf, ca, fr, m, root, ca2) ==
  /\ Core(inf, ca2, fr, m, root)
  /\ DOMAIN ca2 = DOMAIN ca
  /\ \A b \in DOMAIN ca : ca2[b].data = ca[b].data
  /\ \A b \in DOMAIN ca \ blocks : ca2[b].state = ca[b].state
  /\ \A b \in blocks : ca2[b].state = "dirty"

\* Marking the entries of open objects changes no place.
LEMMA MarkedCore ==
  ASSUME NEW inf, NEW ca, NEW fr, NEW m, NEW root, NEW blocks, NEW ca2,
         Core(inf, ca, fr, m, root),
         \A b \in blocks : \E x \in DOMAIN inf : inf[x].vbn = b,
         ca2 = MarkedAll(ca, blocks)
  PROVE  Marked(blocks, inf, ca, fr, m, root, ca2)
<1>1. \A b \in blocks : b \in DOMAIN ca /\ ~ca[b].flush
  BY DEF Core, Cached
<1>2. /\ DOMAIN ca2 = DOMAIN ca
      /\ \A b \in DOMAIN ca \ blocks : ca2[b] = ca[b]
      /\ \A b \in blocks : ca2[b] = Entry("dirty", ca[b].data)
  BY <1>1 DEF MarkedAll
<1>3. ASSUME NEW b \in blocks
      PROVE  /\ ca2[b].state = "dirty" /\ ~ca2[b].flush /\ ca2[b].data = ca[b].data
             /\ ca2[b] \in [state : {"clean", "dirty"}, flush : BOOLEAN, data : Content]
  <2>1. PICK d : d = ca[b].data
    OBVIOUS
  <2>2. ca[b] \in [state : {"clean", "dirty"}, flush : BOOLEAN, data : Content]
    BY <1>1 DEF Core, CacheType
  <2>3. d \in Content
    BY <2>1, <2>2
  <2>4. ca2[b] = [state |-> "dirty", flush |-> FALSE, data |-> d]
    BY <1>2, <2>1 DEF Entry
  <2>5. /\ [state |-> "dirty", flush |-> FALSE, data |-> d]
             \in [state : {"clean", "dirty"}, flush : BOOLEAN, data : Content]
        /\ ~[state |-> "dirty", flush |-> FALSE, data |-> d].flush
    BY <2>3
  <2> QED BY <2>1, <2>4, <2>5
<1>4. CacheType(ca2)
  BY <1>2, <1>3 DEF Core, CacheType
<1>5. \A b \in DOMAIN ca : ca2[b].data = ca[b].data
  BY <1>2, <1>3
<1>6. Cached(inf, ca2, m, root)
  <2>1. ASSUME NEW c \in DOMAIN ca2
        PROVE  \E y \in Here(inf, m) :
                 /\ Loc(inf, m, root, y) = c
                 /\ y \notin DOMAIN inf => ca2[c].state = "dirty" /\ ca2[c].flush
    <3>1. CASE c \in blocks
      <4>1. PICK x \in DOMAIN inf : inf[x].vbn = c
        BY <3>1
      <4>2. x \in Here(inf, m) /\ Loc(inf, m, root, x) = c
        BY <4>1 DEF Here, Loc, Core, Mapped, InfoType, All
      <4> QED BY <4>2
    <3>2. CASE c \notin blocks
      <4>1. c \in DOMAIN ca /\ ca2[c] = ca[c]
        BY <3>2, <1>2
      <4> QED BY <4>1 DEF Core, Cached
    <3> QED BY <3>1, <3>2
  <2>2. ASSUME NEW y \in DOMAIN inf
        PROVE  inf[y].vbn \in DOMAIN ca2 /\ ~ca2[inf[y].vbn].flush
    <3>1. inf[y].vbn \in DOMAIN ca /\ ~ca[inf[y].vbn].flush
      BY DEF Core, Cached
    <3> QED BY <3>1, <1>2, <1>3
  <2> QED BY <2>1, <2>2 DEF Cached
<1>7. Core(inf, ca2, fr, m, root)
  BY <1>4, <1>6 DEF Core
<1> QED BY <1>2, <1>3, <1>5, <1>7 DEF Marked

\* What the write of block b leaves in the cache.
WrittenBack(ca, b) ==
  IF ca[b].flush THEN Without(ca, b) ELSE [ca EXCEPT ![b].state = "clean"]

OneWritten(b, inf, ca, fr, m, root, ca2, dk, dk2) ==
  /\ Core(inf, ca2, fr, m, root)
  /\ dk2 \in [Blocks -> {Blank} \cup Content]
  /\ \A c \in Blocks : At(ca2, dk2, c) = At(ca, dk, c)
  /\ \A x \in DOMAIN inf : ca2[inf[x].vbn].data = ca[inf[x].vbn].data
  /\ dk2[b] = ca[b].data
  /\ \A c \in DOMAIN ca \ {b} : dk2[c] = dk[c] /\ c \in DOMAIN ca2 /\ ca2[c] = ca[c]

\* flush_block changes no place, and no content either.
LEMMA WrittenCore ==
  ASSUME NEW inf, NEW ca, NEW fr, NEW m, NEW root, NEW b \in DOMAIN ca, NEW ca2,
         NEW dk, NEW dk2,
         Core(inf, ca, fr, m, root),
         ca2 = WrittenBack(ca, b),
         dk \in [Blocks -> {Blank} \cup Content],
         dk2 = [dk EXCEPT ![b] = ca[b].data]
  PROVE  OneWritten(b, inf, ca, fr, m, root, ca2, dk, dk2)
<1>0. /\ ca[b] \in [state : {"clean", "dirty"}, flush : BOOLEAN, data : Content]
      /\ b \in Blocks
  BY DEF Core, CacheType
<1>1. /\ dk2 \in [Blocks -> {Blank} \cup Content]
      /\ dk2[b] = ca[b].data
      /\ \A c \in Blocks \ {b} : dk2[c] = dk[c]
  <2>1. ca[b].data \in Content
    BY <1>0
  <2> QED BY <2>1, <1>0
<1>2. /\ DOMAIN ca2 \subseteq DOMAIN ca
      /\ \A c \in DOMAIN ca \ {b} : c \in DOMAIN ca2 /\ ca2[c] = ca[c]
      /\ b \in DOMAIN ca2 <=> ~ca[b].flush
      /\ b \in DOMAIN ca2 => ca2[b] = [ca[b] EXCEPT !.state = "clean"]
  <2>1. CASE ca[b].flush
    BY <2>1 DEF WrittenBack, Without
  <2>2. CASE ~ca[b].flush
    BY <2>2 DEF WrittenBack
  <2> QED BY <2>1, <2>2
<1>3. ASSUME b \in DOMAIN ca2
      PROVE  /\ ca2[b].data = ca[b].data /\ ~ca2[b].flush
             /\ ca2[b] \in [state : {"clean", "dirty"}, flush : BOOLEAN, data : Content]
  <2>1. ca2[b] = [ca[b] EXCEPT !.state = "clean"] /\ ~ca[b].flush
    BY <1>2, <1>3
  <2> QED BY <2>1, <1>0
<1>4. CacheType(ca2)
  <2>1. DOMAIN ca2 \subseteq Blocks
    BY <1>2 DEF Core, CacheType
  <2>2. ASSUME NEW c \in DOMAIN ca2
        PROVE  /\ ca2[c] \in [state : {"clean", "dirty"}, flush : BOOLEAN, data : Content]
               /\ ca2[c].flush => ca2[c].state = "dirty"
    <3>1. CASE c = b
      BY <3>1, <1>3
    <3>2. CASE c # b
      BY <3>2, <1>2 DEF Core, CacheType
    <3> QED BY <3>1, <3>2
  <2> QED BY <2>1, <2>2 DEF CacheType
<1>5. ASSUME NEW x \in DOMAIN inf
      PROVE  /\ inf[x].vbn \in DOMAIN ca2 /\ ~ca2[inf[x].vbn].flush
             /\ ca2[inf[x].vbn].data = ca[inf[x].vbn].data
  <2>1. inf[x].vbn \in DOMAIN ca /\ ~ca[inf[x].vbn].flush
    BY DEF Core, Cached
  <2>2. CASE inf[x].vbn = b
    BY <2>1, <2>2, <1>2, <1>3
  <2>3. CASE inf[x].vbn # b
    BY <2>1, <2>3, <1>2
  <2> QED BY <2>2, <2>3
<1>6. Cached(inf, ca2, m, root)
  <2>1. ASSUME NEW c \in DOMAIN ca2
        PROVE  \E y \in Here(inf, m) :
                 /\ Loc(inf, m, root, y) = c
                 /\ y \notin DOMAIN inf => ca2[c].state = "dirty" /\ ca2[c].flush
    <3>1. PICK y \in Here(inf, m) :
            /\ Loc(inf, m, root, y) = c
            /\ y \notin DOMAIN inf => ca[c].state = "dirty" /\ ca[c].flush
      BY <1>2 DEF Core, Cached
    <3>2. CASE y \in DOMAIN inf
      BY <3>1, <3>2
    <3>3. CASE y \notin DOMAIN inf
      BY <3>1, <3>3, <1>2
    <3> QED BY <3>2, <3>3
  <2> QED BY <2>1, <1>5 DEF Cached
<1>7. Core(inf, ca2, fr, m, root)
  BY <1>4, <1>6 DEF Core
<1>8. ASSUME NEW c \in Blocks
      PROVE  At(ca2, dk2, c) = At(ca, dk, c)
  <2>1. CASE c = b
    BY <2>1, <1>1, <1>2, <1>3 DEF At
  <2>2. CASE c # b
    BY <2>2, <1>1, <1>2 DEF At
  <2> QED BY <2>1, <2>2
<1>9. DOMAIN ca \subseteq Blocks
  BY DEF Core, CacheType
<1> QED BY <1>1, <1>2, <1>5, <1>7, <1>8, <1>9 DEF OneWritten
-----------------------------------------------------------------------------
(***************************************************************************)
(* The invariant of a container that is open, with the map as m.           *)
(***************************************************************************)
FileType ==
  [Blocks -> {Blank} \cup Content] \X [id : {0} \cup Blocks, free : SUBSET Blocks]

Rest ==
  /\ disk \in [Blocks -> {Blank} \cup Content]
  /\ disk_sb \in [id : {0} \cup Blocks, free : SUBSET Blocks]
  /\ file \in FileType
  /\ missing \subseteq {"block", "super"}
  /\ sb_id \in {0} \cup Blocks /\ flag_dirty \in BOOLEAN
  /\ value \in [Objects -> 0 .. MaxChanges] /\ safe \in [Objects -> 0 .. MaxChanges]
  /\ reopened \subseteq Objects
  /\ changes \in 0 .. MaxChanges
  /\ \A o \in Objects : safe[o] <= value[o] /\ value[o] <= changes

KeptAll(m) == \A o \in Objects \ Excluded : Kept(o, value[o], info, cache, disk, m, ct)

SuperRight ==
  ~info[ID].dirty =>
    /\ sb_id = info[ID].vbn
    /\ "super" \notin missing =>
         /\ disk_sb.id = info[ID].vbn
         /\ (\A o \in DOMAIN info : ~info[o].dirty) => disk_sb.free = free

CommitReady(m) ==
  ct = "flush_commit" => /\ sb_id = info[ID].vbn
                         /\ \A o \in Users : m[o] = info[o].vbn
                         /\ ~flag_dirty => \A o \in DOMAIN info : ~info[o].dirty

OpenInv(m) ==
  /\ Rest
  /\ Working
  /\ ID \in DOMAIN info
  /\ Core(info, cache, free, m, info[ID].vbn)
  /\ cache[info[ID].vbn].data = Index(m)
  /\ RootKept(info, cache, disk, info[ID].vbn, ct, missing)
  /\ KeptAll(m)
  /\ CommitReady(m)
  /\ SuperRight
  /\ RoomInv

\* It is what the invariant says of such a container.
LEMMA OpenInvHolds == IInv /\ Working => OpenInv(Map)
<1> SUFFICES ASSUME IInv, Working
             PROVE  OpenInv(Map)
  OBVIOUS
<1>1. ID \in DOMAIN info /\ Alive /\ ct # "closed"
  BY DEF IInv, PhaseInv, Alive, Working
<1>2. Root = info[ID].vbn /\ Room = free
  BY <1>1 DEF Root, Room
<1>3. Core(info, cache, free, M, info[ID].vbn) /\ At(cache, disk, Root) = Index(M)
  BY <1>1, <1>2 DEF IInv, PlaceInv
<1>4. info[ID].vbn \in DOMAIN cache
  BY <1>1, <1>3 DEF Core, Cached
<1>5. M = Map
  BY <1>2, <1>4 DEF M, Map, At
<1>6. cache[info[ID].vbn].data = Index(Map)
  BY <1>2, <1>3, <1>4, <1>5 DEF At
<1>7. Rest
  BY DEF IInv, TypeOK, Rest, KeptInv, FileType
<1>8. KeptAll(Map) /\ RootKept(info, cache, disk, info[ID].vbn, ct, missing)
  BY <1>1, <1>2, <1>5 DEF IInv, KeptInv, SuperInv, KeptAll
<1>9. SuperRight /\ RoomInv /\ CommitReady(Map)
  BY DEF IInv, SuperInv, SuperRight, PhaseInv, CommitReady
<1> QED BY <1>1, <1>3, <1>5, <1>6, <1>7, <1>8, <1>9 DEF OpenInv

IsOpen == \E m : OpenInv(m)

\* And it is enough.
LEMMA OpenInvSuffices == IsOpen => IInv
<1> SUFFICES ASSUME NEW m, OpenInv(m)
             PROVE  IInv
  BY DEF IsOpen
<1>1. ID \in DOMAIN info /\ Alive /\ ct # "closed" /\ Working
  BY DEF OpenInv, Alive, Working
<1>2. Root = info[ID].vbn /\ Room = free
  BY <1>1 DEF Root, Room
<1>3. Core(info, cache, free, m, info[ID].vbn)
  BY DEF OpenInv
<1>4. info[ID].vbn \in DOMAIN cache
  BY <1>1, <1>3 DEF Core, Cached
<1>5. cache[info[ID].vbn].data = Index(m)
  BY DEF OpenInv
<1>6. At(cache, disk, Root) = Index(m)
  BY <1>2, <1>4, <1>5 DEF At
<1>7. M = m /\ Map = m
  BY <1>5, <1>6 DEF M, Map, Index
<1>8. TypeOK
  BY <1>3 DEF OpenInv, Rest, FileType, TypeOK, Core, InfoType, CacheType
<1>9. PhaseInv /\ EndInv
  BY <1>1, <1>7 DEF OpenInv, PhaseInv, EndInv, CommitReady, Working
<1>10. PlaceInv
  BY <1>2, <1>3, <1>6, <1>7 DEF PlaceInv
<1>11. SuperInv
  BY <1>2 DEF OpenInv, SuperInv, SuperRight
<1>12. KeptInv /\ changes \in 0 .. MaxChanges
  BY <1>7 DEF OpenInv, Rest, KeptInv, KeptAll
<1> QED BY <1>8, <1>9, <1>10, <1>11, <1>12 DEF OpenInv, IInv

\* After an access that may have failed, what was not lost is still there.
LEMMA AfterErrorFacts ==
  ASSUME Rest, NEW at \in AfterError
  PROVE  /\ at[1] \in [Blocks -> {Blank} \cup Content]
         /\ at[2] \in [id : {0} \cup Blocks, free : SUBSET Blocks]
         /\ missing \subseteq at[3] /\ at[3] \subseteq {"block", "super"}
         /\ "block" \notin at[3] => at[1] = disk
         /\ "super" \notin at[3] => at[2] = disk_sb
BY DEF AfterError, Rest, FileType, Lost
-----------------------------------------------------------------------------
(***************************************************************************)
(* The calls on user objects.                                              *)
(***************************************************************************)
\* $OBJID gets map m, in places that respect it already.
LEMMA RootWritten ==
  ASSUME NEW inf, NEW ca, NEW fr, NEW m, NEW root, NEW next,
         ContainerAssumption,
         Core(inf, ca, fr, m, root),
         ID \in DOMAIN inf,
         inf[ID].dirty \/ fr # {},
         next \in {"open", "validate", "close"},
         \A o \in Objects \ Excluded' : Kept(o, value'[o], inf, ca, disk', m, next),
         Rest',
         WriteRoot(ID, Index(m), inf, ca, fr, next)
  PROVE  OpenInv(m)'
<1>0. PICK data : data = Index(m)
  OBVIOUS
<1>1. data \in Content
  BY <1>0 DEF Content, Index, Core, Mapped
<1>2. WriteRoot(ID, data, inf, ca, fr, next)
  BY <1>0
<1>3. PICK root2 :
        /\ Core(info', cache', free', m, root2)
        /\ ct' = next
        /\ RootAt(ID, data, inf, ca, fr, m, root, info', cache', free')
  BY <1>1, <1>2, WriteRootCore
<1>4. info'[ID].dirty /\ ID \in DOMAIN info'
  BY <1>3 DEF RootAt
<1>5. root2 = info'[ID].vbn
  BY <1>3, <1>4 DEF Core, Mapped
<1>6. Working' /\ ct' # "flush_commit"
  BY <1>3 DEF Working
<1>7. RootKept(info', cache', disk', info'[ID].vbn, ct', missing')
  BY <1>4, <1>6 DEF RootKept
<1>8. ASSUME NEW o \in Objects \ Excluded'
      PROVE  Kept(o, value'[o], info', cache', disk', m, ct')
  <2>1. o # ID /\ o \in Objects
    BY DEF ContainerAssumption
  <2>2. Kept(o, value'[o], inf, ca, disk', m, ct')
    BY <1>3
  <2>3. Cached(inf, ca, m, root)
    BY DEF Core
  <2>4. Elsewhere(ID, inf, ca, info', cache', m, root)
    BY <1>3 DEF RootAt
  <2> QED BY <2>1, <2>2, <2>3, <2>4, KeptElsewhere
<1>9. KeptAll(m)'
  BY <1>8 DEF KeptAll
<1>10. SuperRight' /\ RoomInv' /\ CommitReady(m)'
  BY <1>4, <1>6 DEF SuperRight, RoomInv, CommitReady
<1>11. cache'[info'[ID].vbn].data = Index(m)
  BY <1>0, <1>3 DEF RootAt
<1> QED BY <1>3, <1>4, <1>5, <1>6, <1>7, <1>9, <1>10, <1>11 DEF OpenInv

\* What the proofs about one object start from.
LEMMA OpenFacts ==
  ASSUME NEW m, OpenInv(m)
  PROVE  /\ Core(info, cache, free, m, info[ID].vbn)
         /\ Cached(info, cache, m, info[ID].vbn)
         /\ Mapped(info, m, info[ID].vbn)
         /\ ID \in DOMAIN info /\ Map = m
         /\ RootKept(info, cache, disk, info[ID].vbn, ct, missing)
         /\ \A o \in Objects \ Excluded : Kept(o, value[o], info, cache, disk, m, ct)
         /\ Rest
BY DEF OpenInv, Core, Map, Index, KeptAll

\* Create: the inode gets its block, then $OBJID its entry.
LEMMA CreateStep ==
  ASSUME NEW m, OpenInv(m), ContainerAssumption, NEW o \in Objects, ofs_create_object(o)
  PROVE  \E m2 : OpenInv(m2)'
<1>1. /\ ct = "open" /\ changes < MaxChanges
      /\ o \notin DOMAIN info /\ m[o] = 0
      /\ changes' = changes + 1
      /\ value' = [value EXCEPT ![o] = changes + 1]
      /\ UNCHANGED <<disk, disk_sb, file, missing, sb_id, flag_dirty, safe, reopened,
                     Excluded>>
  BY OpenFacts DEF ofs_create_object, disks, super, Excluded
<1>2. PICK b \in free :
        /\ info[ID].dirty \/ free # {b}
        /\ WriteRoot(ID, Index([m EXCEPT ![o] = b]),
                     With(info, o, [ref |-> 1, vbn |-> b, dirty |-> TRUE]),
                     With(cache, b, Entry("dirty", Inode(o, changes + 1))),
                     free \ {b}, "open")
  BY OpenFacts DEF ofs_create_object
<1>3. PICK n, inf2, ca2, m2, fr2, root :
        /\ n = changes + 1
        /\ inf2 = With(info, o, NewHandle(b))
        /\ ca2 = With(cache, b, Entry("dirty", Inode(o, n)))
        /\ m2 = Leading(m, o, b)
        /\ fr2 = free \ {b}
        /\ root = info[ID].vbn
  OBVIOUS
<1>4. /\ Core(info, cache, free, m, root)
      /\ Cached(info, cache, m, root)
      /\ ID \in DOMAIN info
      /\ \A p \in Objects \ Excluded : Kept(p, value[p], info, cache, disk, m, ct)
      /\ Rest
  BY <1>3, OpenFacts
<1>5. n \in 0 .. MaxChanges /\ o # ID
  BY <1>1, <1>3, <1>4 DEF Rest, ContainerAssumption
<1>6. /\ Core(inf2, ca2, fr2, m2, root)
      /\ Elsewhere(o, info, cache, inf2, ca2, m, root)
      /\ \A dk, phase : phase # "flush_commit" =>
           Kept(o, n, inf2, ca2, dk, m2, phase)
  <2>1. o \notin DOMAIN info /\ m[o] = 0
    BY <1>1
  <2>2. /\ inf2 = With(info, o, NewHandle(b))
        /\ ca2 = With(cache, b, Entry("dirty", Inode(o, n)))
        /\ m2 = Leading(m, o, b)
    BY <1>3
  <2>0. n \in 0 .. MaxChanges /\ Core(info, cache, free, m, root) /\ ID \in DOMAIN info
    BY <1>4, <1>5
  <2>3. Created(o, b, n, info, cache, free, m, root, inf2, ca2, m2)
    BY <2>0, <2>1, <2>2, CreatedCore
  <2> QED BY <2>3, <1>3 DEF Created
<1>7. ID \in DOMAIN inf2 /\ inf2[ID] = info[ID]
  BY <1>4, <1>5, <1>6 DEF Elsewhere
<1>8. inf2[ID].dirty \/ fr2 # {}
  BY <1>2, <1>3, <1>7
<1>9. Rest'
  <2>1. value' \in [Objects -> 0 .. MaxChanges] /\ changes' \in 0 .. MaxChanges
    BY <1>1, <1>3, <1>4, <1>5 DEF Rest
  <2>2. \A p \in Objects : safe'[p] <= value'[p] /\ value'[p] <= changes'
    BY <1>1, <1>4 DEF Rest
  <2> QED BY <1>1, <1>4, <2>1, <2>2 DEF Rest
<1>10. ASSUME NEW p \in Objects \ Excluded'
       PROVE  Kept(p, value'[p], inf2, ca2, disk', m2, "open")
  <2>1. CASE p = o
    <3>1. value'[p] = n
      BY <1>1, <1>3, <1>4, <2>1 DEF Rest
    <3> QED BY <1>6, <2>1, <3>1
  <2>2. CASE p # o
    <3>1. m2[p] = m[p] /\ value'[p] = value[p]
      BY <1>1, <1>3, <1>4, <2>2 DEF Rest, Core, Mapped, Leading
    <3>2. Kept(p, value'[p], info, cache, disk', m, "open")
      BY <1>1, <1>4, <3>1
    <3>3. Elsewhere(o, info, cache, inf2, ca2, m, root)
      BY <1>6
    <3> QED BY <1>4, <2>2, <3>1, <3>2, <3>3, KeptElsewhere
  <2> QED BY <2>1, <2>2
<1>11. WriteRoot(ID, Index(m2), inf2, ca2, fr2, "open")
  <2>1. PICK n2 : n2 = changes + 1
    OBVIOUS
  <2> QED BY <2>1, <1>2, <1>3 DEF NewHandle, Leading
<1>12. OpenInv(m2)'
  BY <1>6, <1>7, <1>8, <1>9, <1>10, <1>11, RootWritten
<1> QED BY <1>12

\* An open object: what is in its entry.
LEMMA KeptOpen ==
  ASSUME NEW o, NEW n, NEW inf, NEW ca, NEW dk, NEW m, NEW phase, o \in DOMAIN inf
  PROVE  Kept(o, n, inf, ca, dk, m, phase) <=>
           /\ Holds(ca[inf[o].vbn].data, o, n)
           /\ (phase = "flush_commit" \/ ~inf[o].dirty) =>
                (ca[inf[o].vbn].state = "clean" => Holds(dk[inf[o].vbn], o, n))
BY DEF Kept

\* Change: the root of an object moves once after each commit.
LEMMA ChangeStep ==
  ASSUME NEW m, OpenInv(m), ContainerAssumption, NEW o \in Objects, change_object(o)
  PROVE  \E m2 : OpenInv(m2)'
<1>1. /\ ct = "open" /\ changes < MaxChanges /\ o \in DOMAIN info
      /\ changes' = changes + 1
      /\ value' = IF info[o].dirty \/ free # {}
                  THEN [value EXCEPT ![o] = changes + 1] ELSE value
      /\ WriteRoot(o, Inode(o, changes + 1), info, cache, free, "open")
      /\ UNCHANGED <<disk, disk_sb, file, missing, sb_id, flag_dirty, safe, reopened,
                     Excluded>>
  BY DEF change_object, disks, super, Excluded
<1>2. PICK n, data, root : n = changes + 1 /\ data = Inode(o, n) /\ root = info[ID].vbn
  OBVIOUS
<1>3. /\ Core(info, cache, free, m, root)
      /\ Cached(info, cache, m, root)
      /\ Mapped(info, m, root)
      /\ ID \in DOMAIN info
      /\ RootKept(info, cache, disk, root, "open", missing)
      /\ \A p \in Objects \ Excluded : Kept(p, value[p], info, cache, disk, m, "open")
      /\ Rest
  BY <1>1, <1>2, OpenFacts
<1>4. n \in 0 .. MaxChanges /\ o # ID /\ data \in Content
  BY <1>1, <1>2, <1>3 DEF Rest, ContainerAssumption, Content, Inode
<1>5. WriteRoot(o, data, info, cache, free, "open")
  BY <1>1, <1>2
<1>6. PICK root2 :
        /\ Core(info', cache', free', m, root2)
        /\ o # ID => root2 = root
        /\ ct' = "open"
        /\ RootAt(o, data, info, cache, free, m, root, info', cache', free')
  BY <1>1, <1>3, <1>4, <1>5, WriteRootCore
<1>7. /\ DOMAIN info' = DOMAIN info
      /\ Elsewhere(o, info, cache, info', cache', m, root)
      /\ cache'[info'[o].vbn].data = data
      /\ cache'[info'[o].vbn].state = cache[info[o].vbn].state
      /\ info[o].dirty \/ free = {} => info' = info /\ free' = free
      /\ ~info[o].dirty /\ free # {} => info'[o].dirty /\ free' # {}
  BY <1>6 DEF RootAt
<1>8. /\ RootKept(info', cache', disk, root, "open", missing)
      /\ ID \in DOMAIN info' /\ info'[ID] = info[ID]
      /\ cache'[root] = cache[root]
  BY <1>3, <1>4, <1>7, RootElsewhere
<1>9. cache[root].data = Index(m)
  BY <1>2 DEF OpenInv
<1>10. Rest'
  <2>1. value' \in [Objects -> 0 .. MaxChanges] /\ changes' \in 0 .. MaxChanges
    BY <1>1, <1>2, <1>3, <1>4 DEF Rest
  <2>2. \A p \in Objects : safe'[p] <= value'[p] /\ value'[p] <= changes'
    BY <1>1, <1>3 DEF Rest
  <2> QED BY <1>1, <1>3, <2>1, <2>2 DEF Rest
<1>11. ASSUME NEW p \in Objects \ Excluded'
       PROVE  Kept(p, value'[p], info', cache', disk', m, "open")
  <2>1. CASE p = o
    <3>1. value'[o] <= n /\ value'[o] \in 0 .. MaxChanges
      BY <1>1, <1>2, <1>3, <1>4 DEF Rest
    <3>2. Holds(data, o, value'[o])
      BY <3>1, <1>2, <1>4 DEF Holds, Inode
    <3>3. CASE info'[o].dirty
      BY <2>1, <3>2, <3>3, <1>1, <1>7 DEF Kept
    <3>4. CASE ~info'[o].dirty
      <4>1. info' = info /\ value' = value /\ ~info[o].dirty
        BY <3>4, <1>1, <1>7
      <4>2. cache[info[o].vbn].state = "clean" => Holds(disk[info[o].vbn], o, value[o])
        BY <2>1, <4>1, <1>1, <1>3, KeptOpen
      <4> QED BY <2>1, <3>2, <4>1, <4>2, <1>1, <1>7 DEF Kept
    <3> QED BY <3>3, <3>4
  <2>2. CASE p # o
    <3>1. value'[p] = value[p]
      BY <1>1, <1>3, <2>2 DEF Rest
    <3>2. Kept(p, value'[p], info, cache, disk', m, "open")
      BY <1>1, <1>3, <3>1
    <3> QED BY <1>3, <1>7, <2>2, <3>2, KeptElsewhere
  <2> QED BY <2>1, <2>2
<1>12. KeptAll(m)'
  BY <1>6, <1>11 DEF KeptAll
<1>13. SuperRight'
  <2> SUFFICES ASSUME ~info[ID].dirty
               PROVE  /\ sb_id = info[ID].vbn
                      /\ "super" \notin missing =>
                           /\ disk_sb.id = info[ID].vbn
                           /\ (\A p \in DOMAIN info' : ~info'[p].dirty)
                                => disk_sb.free = free'
    BY <1>1, <1>8 DEF SuperRight
  <2>1. /\ sb_id = info[ID].vbn
        /\ "super" \notin missing =>
             /\ disk_sb.id = info[ID].vbn
             /\ (\A p \in DOMAIN info : ~info[p].dirty) => disk_sb.free = free
    BY DEF OpenInv, SuperRight
  <2>2. ASSUME "super" \notin missing, \A p \in DOMAIN info' : ~info'[p].dirty
        PROVE  disk_sb.free = free'
    <3>1. ~info'[o].dirty
      BY <2>2, <1>1, <1>7
    <3>2. info' = info /\ free' = free
      BY <3>1, <1>7
    <3> QED BY <2>1, <2>2, <3>2
  <2> QED BY <2>1, <2>2
<1>14. RoomInv'
  <2> SUFFICES ASSUME ~info[ID].dirty, NEW p \in DOMAIN info' \ {ID}, info'[p].dirty
               PROVE  free' # {}
    BY <1>8 DEF RoomInv, Users
  <2>1. (\A q \in DOMAIN info \ {ID} : info[q].dirty => free # {})
    BY <1>1 DEF OpenInv, RoomInv, Working, Users
  <2>2. CASE info[o].dirty \/ free = {}
    BY <2>1, <2>2, <1>7
  <2>3. CASE ~info[o].dirty /\ free # {}
    BY <2>3, <1>7
  <2> QED BY <2>2, <2>3
<1>15. Working' /\ CommitReady(m)'
  BY <1>6 DEF Working, CommitReady
<1>16. OpenInv(m)'
  <2>1. root2 = root /\ root = info'[ID].vbn
    BY <1>2, <1>4, <1>6, <1>8
  <2>2. RootKept(info', cache', disk', info'[ID].vbn, ct', missing')
    BY <2>1, <1>1, <1>6, <1>8
  <2>3. cache'[info'[ID].vbn].data = Index(m)
    BY <2>1, <1>8, <1>9
  <2>4. Core(info', cache', free', m, info'[ID].vbn)
    BY <2>1, <1>6
  <2> QED BY <2>2, <2>3, <2>4, <1>8, <1>10, <1>12, <1>13, <1>14, <1>15 DEF OpenInv
<1> QED BY <1>16

\* A commit records where the inode of an object is.
LEMMA ValidateStep ==
  ASSUME NEW m, OpenInv(m), ContainerAssumption, NEW o \in Objects,
         validate_one_user_object(o)
  PROVE  \E m2 : OpenInv(m2)'
<1>1. /\ ct = "validate" /\ o \in DOMAIN info /\ info[o].dirty
      /\ UNCHANGED <<disk, disk_sb, file, missing, sb_id, flag_dirty, value, safe,
                     reopened, Excluded, changes>>
      /\ WriteRoot(ID, Index([m EXCEPT ![o] = info[o].vbn]), info,
                   Validated(cache, o), free, "validate")
  BY OpenFacts DEF validate_one_user_object, Unvalidated, Users, disks, super, history,
     counters, Excluded
<1>2. PICK ca2, m2, root :
        /\ ca2 = MarkedDirty(cache, info[o].vbn)
        /\ m2 = Leading(m, o, info[o].vbn)
        /\ root = info[ID].vbn
  OBVIOUS
<1>3. /\ Core(info, cache, free, m, root)
      /\ Cached(info, cache, m, root)
      /\ ID \in DOMAIN info
      /\ \A p \in Objects \ Excluded : Kept(p, value[p], info, cache, disk, m, "validate")
      /\ Rest
  BY <1>1, <1>2, OpenFacts
<1>4. o # ID
  BY DEF ContainerAssumption
<1>5. WriteRoot(ID, Index(m2), info, ca2, free, "validate")
  BY <1>1, <1>2 DEF Validated, MarkedDirty, Leading
<1>6. Recorded(o, info, cache, free, m, root, ca2, m2)
  BY <1>1, <1>2, <1>3, ValidatedCore
<1>7. /\ Core(info, ca2, free, m2, root)
      /\ Elsewhere(o, info, cache, info, ca2, m, root)
      /\ ca2[info[o].vbn].state = "dirty"
      /\ ca2[info[o].vbn].data = cache[info[o].vbn].data
  BY <1>6 DEF Recorded
<1>8. info[ID].dirty \/ free # {}
  BY <1>1, <1>4 DEF OpenInv, RoomInv, Working, Users
<1>9. Rest'
  BY <1>1, <1>3 DEF Rest
<1>10. ASSUME NEW p \in Objects \ Excluded'
       PROVE  Kept(p, value'[p], info, ca2, disk', m2, "validate")
  <2>1. Kept(p, value'[p], info, cache, disk', m, "validate")
    BY <1>1, <1>3
  <2>2. CASE p = o
    BY <2>1, <2>2, <1>1, <1>7 DEF Kept
  <2>3. CASE p # o
    <3>1. m2[p] = m[p]
      BY <2>3, <1>2, <1>3 DEF Leading, Core, Mapped
    <3> QED BY <1>3, <1>7, <2>1, <2>3, <3>1, KeptElsewhere
  <2> QED BY <2>2, <2>3
<1>11. OpenInv(m2)'
  BY <1>3, <1>5, <1>7, <1>8, <1>9, <1>10, RootWritten
<1> QED BY <1>11

\* Close of an object with changes: the map gets its place, its entry waits.
LEMMA CloseDirtyStep ==
  ASSUME NEW m, OpenInv(m), ContainerAssumption, NEW o \in Objects, NEW next,
         next \in {"open", "close"}, ct = next,
         o \in DOMAIN info, info[o].dirty,
         close_object(o, next),
         UNCHANGED <<disk, disk_sb, file, missing, sb_id, flag_dirty, value, safe,
                     reopened, Excluded, changes>>
  PROVE  \E m2 : OpenInv(m2)'
<1>1. WriteRoot(ID, Index([m EXCEPT ![o] = info[o].vbn]), Without(info, o),
                Released(Validated(cache, o), info[o].vbn), free, next)
  BY OpenFacts DEF close_object
<1>2. PICK ca1, ca2, inf2, m2, root :
        /\ ca1 = MarkedDirty(cache, info[o].vbn)
        /\ ca2 = Released(ca1, info[o].vbn)
        /\ inf2 = Without(info, o)
        /\ m2 = Leading(m, o, info[o].vbn)
        /\ root = info[ID].vbn
  OBVIOUS
<1>3. /\ Core(info, cache, free, m, root)
      /\ Cached(info, cache, m, root)
      /\ ID \in DOMAIN info
      /\ \A p \in Objects \ Excluded : Kept(p, value[p], info, cache, disk, m, next)
      /\ Rest
  BY <1>2, OpenFacts
<1>4. o # ID
  BY DEF ContainerAssumption
<1>5. WriteRoot(ID, Index(m2), inf2, ca2, free, next)
  BY <1>1, <1>2 DEF Validated, MarkedDirty, Leading
<1>6. Recorded(o, info, cache, free, m, root, ca1, m2)
  BY <1>2, <1>3, ValidatedCore
<1>7. /\ Core(info, ca1, free, m2, root)
      /\ Cached(info, ca1, m2, root)
      /\ Elsewhere(o, info, cache, info, ca1, m, root)
      /\ ca1[info[o].vbn].state = "dirty"
      /\ ca1[info[o].vbn].data = cache[info[o].vbn].data
      /\ m2[o] = info[o].vbn
  BY <1>6 DEF Recorded, Core
<1>8. Gone(o, info, ca1, free, m2, root, inf2, ca2)
  BY <1>2, <1>7, ReleasedCore
<1>9. /\ Core(inf2, ca2, free, m2, root)
      /\ Elsewhere(o, info, ca1, inf2, ca2, m2, root)
      /\ o \notin DOMAIN inf2 /\ ID \in DOMAIN inf2 /\ inf2[ID] = info[ID]
      /\ info[o].vbn \in DOMAIN ca2
      /\ ca2[info[o].vbn].data = ca1[info[o].vbn].data
  BY <1>3, <1>4, <1>7, <1>8 DEF Gone, Elsewhere
<1>10. inf2[ID].dirty \/ free # {}
  <2>1. Working /\ ct # "flush_commit"
    BY DEF Working
  <2> QED BY <2>1, <1>4, <1>9 DEF OpenInv, RoomInv, Users
<1>11. Rest'
  BY <1>3 DEF Rest
<1>12. ASSUME NEW p \in Objects \ Excluded'
       PROVE  Kept(p, value'[p], inf2, ca2, disk', m2, next)
  <2>1. Kept(p, value'[p], info, cache, disk', m, next)
    BY <1>3
  <2>2. CASE p = o
    <3>1. Holds(cache[info[o].vbn].data, o, value'[o])
      BY <2>1, <2>2 DEF Kept
    <3>2. At(ca2, disk', m2[o]) = cache[info[o].vbn].data
      BY <1>7, <1>9 DEF At
    <3>3. m2[o] # 0
      BY <1>7, <1>3 DEF Core, InfoType, ContainerAssumption
    <3> QED BY <2>2, <3>1, <3>2, <3>3, <1>9 DEF Kept
  <2>3. CASE p # o
    <3>1. m2[p] = m[p]
      BY <2>3, <1>2, <1>3 DEF Leading, Core, Mapped
    <3>2. Kept(p, value'[p], info, ca1, disk', m2, next)
      BY <1>3, <1>7, <2>1, <2>3, <3>1, KeptElsewhere
    <3>3. m2[p] = m2[p]
      OBVIOUS
    <3> QED BY <1>7, <1>9, <2>3, <3>2, <3>3, KeptElsewhere
  <2> QED BY <2>2, <2>3
<1>13. OpenInv(m2)'
  BY <1>5, <1>9, <1>10, <1>11, <1>12, RootWritten
<1> QED BY <1>13

\* Close of an object that was not changed since the last commit.
LEMMA CloseCleanStep ==
  ASSUME NEW m, OpenInv(m), ContainerAssumption, NEW o \in Objects, NEW next,
         next \in {"open", "close"}, ct = next,
         o \in DOMAIN info, ~info[o].dirty,
         close_object(o, next),
         UNCHANGED <<disk, disk_sb, file, missing, sb_id, flag_dirty, value, safe,
                     reopened, Excluded, changes>>
  PROVE  \E m2 : OpenInv(m2)'
<1>1. /\ info' = Without(info, o)
      /\ cache' = Released(cache, info[o].vbn)
      /\ free' = free /\ ct' = next
  BY DEF close_object, Validated
<1>2. PICK root : root = info[ID].vbn
  OBVIOUS
<1>3. /\ Core(info, cache, free, m, root)
      /\ Cached(info, cache, m, root)
      /\ Mapped(info, m, root)
      /\ ID \in DOMAIN info
      /\ RootKept(info, cache, disk, root, next, missing)
      /\ \A p \in Objects \ Excluded : Kept(p, value[p], info, cache, disk, m, next)
      /\ Rest
  BY <1>2, OpenFacts
<1>4. o # ID /\ m[o] = info[o].vbn
  BY <1>3 DEF ContainerAssumption, Mapped
<1>5. Gone(o, info, cache, free, m, root, info', cache')
  BY <1>1, <1>3, <1>4, ReleasedCore
<1>6. /\ Core(info', cache', free, m, root)
      /\ Elsewhere(o, info, cache, info', cache', m, root)
      /\ DOMAIN info' = DOMAIN info \ {o}
      /\ \A p \in DOMAIN info' : info'[p] = info[p]
      /\ info[o].vbn \in DOMAIN cache
      /\ info[o].vbn \in DOMAIN cache' <=> cache[info[o].vbn].state = "dirty"
      /\ info[o].vbn \in DOMAIN cache' =>
           cache'[info[o].vbn].data = cache[info[o].vbn].data
  BY <1>5 DEF Gone, Elsewhere
<1>7. /\ RootKept(info', cache', disk, root, next, missing)
      /\ ID \in DOMAIN info' /\ info'[ID] = info[ID]
      /\ cache'[root] = cache[root]
  BY <1>3, <1>4, <1>6, RootElsewhere
<1>8. Rest'
  BY <1>3 DEF Rest
<1>9. ASSUME NEW p \in Objects \ Excluded'
      PROVE  Kept(p, value'[p], info', cache', disk', m, ct')
  <2>1. Kept(p, value'[p], info, cache, disk', m, ct')
    BY <1>1, <1>3
  <2>2. CASE p = o
    <3>1. /\ Holds(cache[info[o].vbn].data, o, value'[o])
          /\ cache[info[o].vbn].state = "clean" => Holds(disk'[info[o].vbn], o, value'[o])
      BY <2>1, <2>2 DEF Kept
    <3>2. cache[info[o].vbn].state \in {"clean", "dirty"} /\ m[o] # 0
      BY <1>3, <1>4, <1>6 DEF Core, CacheType, InfoType, ContainerAssumption
    <3>3. Holds(At(cache', disk', m[o]), o, value'[o])
      BY <3>1, <3>2, <1>4, <1>6 DEF At
    <3> QED BY <2>2, <3>2, <3>3, <1>6 DEF Kept
  <2>3. CASE p # o
    <3>1. m[p] = m[p]
      OBVIOUS
    <3> QED BY <1>3, <1>6, <2>1, <2>3, <3>1, KeptElsewhere
  <2> QED BY <2>2, <2>3
<1>10. KeptAll(m)'
  BY <1>9 DEF KeptAll
<1>11. SuperRight'
  <2>1. \A p \in DOMAIN info : p = o \/ (p \in DOMAIN info' /\ info'[p] = info[p])
    BY <1>6
  <2> QED BY <2>1, <1>1, <1>7 DEF OpenInv, SuperRight
<1>12. RoomInv'
  <2>1. Working /\ ct # "flush_commit"
    BY DEF Working
  <2> QED BY <2>1, <1>1, <1>6, <1>7 DEF OpenInv, RoomInv, Users
<1>13. Working' /\ CommitReady(m)'
  BY <1>1 DEF Working, CommitReady
<1>14. OpenInv(m)'
  <2>1. root = info'[ID].vbn
    BY <1>2, <1>7
  <2>2. RootKept(info', cache', disk', info'[ID].vbn, ct', missing')
    BY <2>1, <1>1, <1>7
  <2>3. cache'[info'[ID].vbn].data = Index(m)
    BY <2>1, <1>2, <1>7 DEF OpenInv
  <2>4. Core(info', cache', free', m, info'[ID].vbn)
    BY <2>1, <1>1, <1>6
  <2> QED BY <2>2, <2>3, <2>4, <1>7, <1>8, <1>10, <1>11, <1>12, <1>13 DEF OpenInv
<1> QED BY <1>14

\* The number of handles says nothing about places.
LEMMA HandlesOnly ==
  ASSUME NEW m, OpenInv(m), NEW o \in DOMAIN info, NEW n \in 1 .. MaxRef,
         ct = "open", ct' = "open",
         info' = [info EXCEPT ![o].ref = n],
         UNCHANGED <<disk, disk_sb, file, missing, sb_id, flag_dirty, free, cache,
                     value, safe, reopened, Excluded, changes>>
  PROVE  \E m2 : OpenInv(m2)'
<1>1. Core(info, cache, free, m, info[ID].vbn)
  BY DEF OpenInv
<1>2. /\ DOMAIN info' = DOMAIN info
      /\ \A p \in DOMAIN info : /\ info'[p].vbn = info[p].vbn
                                /\ info'[p].dirty = info[p].dirty
  <2>1. info[o] \in [ref : 1 .. MaxRef, vbn : Blocks, dirty : BOOLEAN]
    BY <1>1 DEF Core, InfoType
  <2> QED BY <2>1
<1>3. InfoType(info')
  BY <1>1 DEF Core, InfoType
<1>4. \A p \in All : Loc(info', m, info[ID].vbn, p) = Loc(info, m, info[ID].vbn, p)
  BY <1>2 DEF Loc
<1>5. Here(info', m) = Here(info, m) /\ Here(info, m) \subseteq All
  BY <1>2 DEF Here, All
<1>6. Core(info', cache, free, m, info[ID].vbn)
  <2>1. Apart(info', free, m, info[ID].vbn)
    <3>1. ASSUME NEW x \in Here(info', m)
          PROVE  Loc(info', m, info[ID].vbn, x) \in Blocks \ free
      BY <1>1, <1>4, <1>5 DEF Core, Apart
    <3>2. ASSUME NEW x \in Here(info', m), NEW y \in Here(info', m), x # y
          PROVE  Loc(info', m, info[ID].vbn, x) # Loc(info', m, info[ID].vbn, y)
      BY <1>1, <1>4, <1>5, <3>2 DEF Core, Apart
    <3> QED BY <3>1, <3>2 DEF Apart
  <2>2. Cached(info', cache, m, info[ID].vbn)
    <3>1. ASSUME NEW b \in DOMAIN cache
          PROVE  \E x \in Here(info', m) :
                   /\ Loc(info', m, info[ID].vbn, x) = b
                   /\ x \notin DOMAIN info' => cache[b].state = "dirty" /\ cache[b].flush
      BY <1>1, <1>2, <1>4, <1>5 DEF Core, Cached
    <3> QED BY <3>1, <1>1, <1>2 DEF Core, Cached
  <2>3. Mapped(info', m, info[ID].vbn)
    BY <1>1, <1>2 DEF Core, Mapped
  <2> QED BY <2>1, <2>2, <2>3, <1>1, <1>3 DEF Core
<1>7. ID \in DOMAIN info' /\ info'[ID].vbn = info[ID].vbn
  BY <1>2 DEF OpenInv
<1>8. RootKept(info', cache', disk', info'[ID].vbn, ct', missing')
  BY <1>2, <1>7 DEF OpenInv, RootKept
<1>9. KeptAll(m)'
  BY <1>2 DEF OpenInv, KeptAll, Kept
<1>10. SuperRight' /\ RoomInv' /\ CommitReady(m)' /\ Working'
  BY <1>2, <1>7 DEF OpenInv, SuperRight, RoomInv, CommitReady, Working, Users
<1>11. Rest'
  BY DEF OpenInv, Rest
<1>12. OpenInv(m)'
  BY <1>6, <1>7, <1>8, <1>9, <1>10, <1>11 DEF OpenInv
<1> QED BY <1>12

\* Open of an object that has a handle, or of one whose inode is read.
LEMMA OpenObjectStep ==
  ASSUME NEW m, OpenInv(m), ContainerAssumption, BlankAssumption,
         NEW o \in Objects, ofs_open_object(o)
  PROVE  \E m2 : OpenInv(m2)'
<1>1. /\ ct = "open" /\ ct' = "open" /\ Map = m
      /\ UNCHANGED <<disk, disk_sb, missing, sb_id, flag_dirty, free, value, safe,
                     changes>>
  BY OpenFacts DEF ofs_open_object, super, counters
<1>2. CASE /\ o \in DOMAIN info /\ info[o].ref < MaxRef
           /\ info' = [info EXCEPT ![o].ref = @ + 1]
           /\ UNCHANGED <<cache, reopened, file>>
  <2>1. PICK n : n = info[o].ref + 1
    OBVIOUS
  <2>2. info[o].ref \in 1 .. MaxRef /\ MaxRef \in Nat
    BY <1>2, OpenFacts DEF Core, InfoType, ContainerAssumption
  <2>3. n \in 1 .. MaxRef
    BY <2>1, <2>2, <1>2
  <2>4. info' = [info EXCEPT ![o].ref = n]
    BY <2>1, <1>2
  <2>5. Excluded' = Excluded
    BY <1>1, <1>2 DEF Excluded
  <2> QED BY <2>3, <2>4, <2>5, <1>1, <1>2, HandlesOnly
<1>3. CASE /\ o \notin DOMAIN info /\ m[o] # 0
           /\ info' = With(info, o, [ref |-> 1, vbn |-> m[o], dirty |-> FALSE])
           /\ \/ /\ m[o] \in DOMAIN cache
                 /\ cache' = [cache EXCEPT ![m[o]] = Entry("clean", @.data)]
                 /\ reopened' = reopened \cup {o}
                 /\ UNCHANGED file
              \/ /\ m[o] \notin DOMAIN cache /\ disk[m[o]] # Blank
                 /\ cache' = With(cache, m[o], Entry("clean", disk[m[o]]))
                 /\ file' = stored
                 /\ UNCHANGED reopened
  <2>1. PICK root : root = info[ID].vbn
    OBVIOUS
  <2>2. /\ Core(info, cache, free, m, root)
        /\ Cached(info, cache, m, root)
        /\ Mapped(info, m, root)
        /\ ID \in DOMAIN info
        /\ RootKept(info, cache, disk, root, "open", missing)
        /\ \A p \in Objects \ Excluded : Kept(p, value[p], info, cache, disk, m, "open")
        /\ Rest
    BY <1>1, <2>1, OpenFacts
  <2>3. o # ID /\ m[o] \in Blocks
    BY <2>2, <1>3 DEF ContainerAssumption, Mapped
  <2>4. PICK data : data = At(cache, disk, m[o])
    OBVIOUS
  <2>5. data \in Content
    <3>1. CASE m[o] \in DOMAIN cache
      BY <3>1, <2>2, <2>4 DEF At, Core, CacheType
    <3>2. CASE m[o] \notin DOMAIN cache
      BY <3>2, <1>3, <2>2, <2>3, <2>4 DEF At, Rest
    <3> QED BY <3>1, <3>2
  <2>6. cache' = With(cache, m[o], Entry("clean", data))
    <3>1. CASE m[o] \in DOMAIN cache
      <4>1. cache' = [cache EXCEPT ![m[o]] = Entry("clean", cache[m[o]].data)]
        BY <3>1, <1>3
      <4>2. data = cache[m[o]].data /\ DOMAIN cache \cup {m[o]} = DOMAIN cache
        BY <3>1, <2>4 DEF At
      <4> QED BY <4>1, <4>2 DEF With
    <3>2. CASE m[o] \notin DOMAIN cache
      BY <3>2, <1>3, <2>4 DEF At
    <3> QED BY <3>1, <3>2
  <2>7. info' = With(info, o, ReadHandle(m[o]))
    BY <1>3 DEF ReadHandle
  <2>8. o \notin DOMAIN info /\ m[o] # 0
    BY <1>3
  <2>9. Opened(o, data, info, cache, free, m, root, info', cache')
    BY <2>2, <2>5, <2>6, <2>7, <2>8, OpenedCore
  <2>10. /\ Core(info', cache', free, m, root)
         /\ Elsewhere(o, info, cache, info', cache', m, root)
         /\ DOMAIN info' = DOMAIN info \cup {o}
         /\ info'[o].vbn = m[o] /\ ~info'[o].dirty
         /\ cache'[m[o]].data = data
         /\ \A p \in DOMAIN info : info'[p] = info[p]
    BY <2>8, <2>9 DEF Opened, Elsewhere
  <2>11. /\ RootKept(info', cache', disk, root, "open", missing)
         /\ ID \in DOMAIN info' /\ info'[ID] = info[ID]
         /\ cache'[root] = cache[root]
    BY <2>2, <2>3, <2>10, RootElsewhere
  <2>12. /\ Excluded \subseteq Excluded' /\ reopened' \subseteq Objects
         /\ o \notin Excluded' => m[o] \notin DOMAIN cache
    BY <1>1, <1>3, <2>2 DEF Rest, Excluded
  <2>13. Rest'
    <3>1. file' \in FileType
      BY <1>3, <2>2 DEF Rest, FileType, stored
    <3> QED BY <3>1, <1>1, <2>2, <2>12 DEF Rest
  <2>14. ASSUME NEW p \in Objects \ Excluded'
         PROVE  Kept(p, value'[p], info', cache', disk', m, ct')
    <3>1. Kept(p, value'[p], info, cache, disk', m, ct')
      BY <1>1, <2>2, <2>12
    <3>2. CASE p = o
      <4>1. Holds(data, o, value'[o]) /\ data = disk'[m[o]]
        BY <3>1, <3>2, <1>1, <2>4, <2>8, <2>12 DEF Kept, At
      <4> QED BY <3>2, <4>1, <2>10 DEF Kept
    <3>3. CASE p # o
      <4>1. m[p] = m[p]
        OBVIOUS
      <4> QED BY <3>1, <3>3, <4>1, <2>2, <2>10, KeptElsewhere
    <3> QED BY <3>2, <3>3
  <2>15. KeptAll(m)'
    BY <2>14 DEF KeptAll
  <2>16. SuperRight'
    <3>1. (\A p \in DOMAIN info' : ~info'[p].dirty)
            => (\A p \in DOMAIN info : ~info[p].dirty)
      BY <2>10
    <3> QED BY <3>1, <1>1, <2>11 DEF OpenInv, SuperRight
  <2>17. RoomInv'
    <3>1. Working /\ ct # "flush_commit"
      BY <1>1 DEF Working
    <3>2. \A p \in DOMAIN info' : info'[p].dirty => p \in DOMAIN info /\ info[p].dirty
      BY <2>10
    <3> QED BY <3>1, <3>2, <1>1, <2>11 DEF OpenInv, RoomInv, Users
  <2>18. Working' /\ CommitReady(m)'
    BY <1>1 DEF Working, CommitReady
  <2>19. OpenInv(m)'
    <3>1. root = info'[ID].vbn
      BY <2>1, <2>11
    <3>2. RootKept(info', cache', disk', info'[ID].vbn, ct', missing')
      BY <3>1, <1>1, <2>11
    <3>3. cache'[info'[ID].vbn].data = Index(m)
      BY <3>1, <2>1, <2>11 DEF OpenInv
    <3>4. Core(info', cache', free', m, info'[ID].vbn)
      BY <3>1, <1>1, <2>10
    <3> QED BY <3>2, <3>3, <3>4, <2>11, <2>13, <2>15, <2>16, <2>17, <2>18 DEF OpenInv
  <2> QED BY <2>19
<1> QED BY <1>1, <1>2, <1>3 DEF ofs_open_object

\* Open of an object whose inode cannot be read: the content of the buffer may be
\* lost, and so may blocks that the cache no longer has.
LEMMA OpenFailsStep ==
  ASSUME NEW m, OpenInv(m), NEW o \in Objects, ofs_open_object_fails(o)
  PROVE  OpenInv(m)'
<1>1. /\ ct = "open" /\ file' = stored'
      /\ UNCHANGED <<sb_id, flag_dirty, free, info, cache, ct, value, safe,
                     reopened, changes>>
  BY DEF ofs_open_object_fails, memory, history
<1>2. PICK at \in AfterError : disk' = at[1] /\ disk_sb' = at[2] /\ missing' = at[3]
  BY DEF ofs_open_object_fails
<1>3. /\ disk' \in [Blocks -> {Blank} \cup Content]
      /\ disk_sb' \in [id : {0} \cup Blocks, free : SUBSET Blocks]
      /\ missing \subseteq missing' /\ missing' \subseteq {"block", "super"}
      /\ "block" \notin missing' => disk' = disk
      /\ "super" \notin missing' => disk_sb' = disk_sb
  BY <1>2, AfterErrorFacts DEF OpenInv
<1>4. Rest'
  BY <1>1, <1>3 DEF OpenInv, Rest, FileType, stored
<1>5. KeptAll(m)'
  BY <1>1, <1>3 DEF OpenInv, KeptAll, Excluded
<1>6. RootKept(info', cache', disk', info'[ID].vbn, ct', missing')
  BY <1>1, <1>3 DEF OpenInv, RootKept
<1>7. SuperRight'
  BY <1>1, <1>3 DEF OpenInv, SuperRight
<1>8. RoomInv' /\ Working' /\ CommitReady(m)'
  BY <1>1 DEF OpenInv, RoomInv, Working, CommitReady, Users
<1> QED BY <1>1, <1>4, <1>5, <1>6, <1>7, <1>8 DEF OpenInv

\* Close of one handle or of the last one, by a call or by the container.
LEMMA CloseStep ==
  ASSUME NEW m, OpenInv(m), ContainerAssumption, NEW o \in Objects,
         ofs_close_object(o) \/ close_one_object(o)
  PROVE  \E m2 : OpenInv(m2)'
<1>1. UNCHANGED <<disk, disk_sb, file, missing, sb_id, flag_dirty, value, safe,
                  reopened, Excluded, changes>>
  BY DEF ofs_close_object, close_one_object, disks, super, history, counters, Excluded
<1>2. CASE /\ ct = "open" /\ o \in DOMAIN info /\ info[o].ref > 1
           /\ info' = [info EXCEPT ![o].ref = @ - 1]
           /\ UNCHANGED <<cache, free, ct>>
  <2>1. PICK n : n = info[o].ref - 1
    OBVIOUS
  <2>2. info[o].ref \in 1 .. MaxRef /\ MaxRef \in Nat
    BY <1>2, OpenFacts DEF Core, InfoType, ContainerAssumption
  <2>3. n \in 1 .. MaxRef
    BY <2>1, <2>2, <1>2
  <2>4. info' = [info EXCEPT ![o].ref = n] /\ ct' = "open"
    BY <2>1, <1>2
  <2> QED BY <2>3, <2>4, <1>1, <1>2, HandlesOnly
<1>3. CASE ct \in {"open", "close"} /\ o \in DOMAIN info /\ close_object(o, ct)
  <2>1. PICK next : next = ct
    OBVIOUS
  <2>2. /\ close_object(o, next) /\ o \in DOMAIN info
        /\ next \in {"open", "close"} /\ ct = next
    BY <2>1, <1>3
  <2>3. CASE info[o].dirty
    BY <2>2, <2>3, <1>1, CloseDirtyStep
  <2>4. CASE ~info[o].dirty
    BY <2>2, <2>4, <1>1, CloseCleanStep
  <2> QED BY <2>3, <2>4
<1> QED BY <1>2, <1>3 DEF ofs_close_object, close_one_object, Users
-----------------------------------------------------------------------------
(***************************************************************************)
(* Commit.                                                                 *)
(***************************************************************************)
\* Commit and close begin.
LEMMA BeginStep ==
  ASSUME NEW m, OpenInv(m), commit_container_modification \/ close_container
  PROVE  \E m2 : OpenInv(m2)'
<1>1. /\ ct = "open" /\ ct' \in {"validate", "close"}
      /\ UNCHANGED <<disk, disk_sb, file, missing, sb_id, flag_dirty, free, info,
                     cache, value, safe, reopened, Excluded, changes>>
  BY DEF commit_container_modification, close_container, disks, memory, history, counters,
         Excluded
<1>2. KeptAll(m)'
  BY <1>1 DEF OpenInv, KeptAll, Kept
<1>3. RootKept(info', cache', disk', info'[ID].vbn, ct', missing')
  BY <1>1 DEF OpenInv, RootKept
<1>4. SuperRight' /\ RoomInv' /\ CommitReady(m)' /\ Working'
  BY <1>1 DEF OpenInv, SuperRight, RoomInv, CommitReady, Working, Users
<1>5. Rest'
  BY <1>1 DEF OpenInv, Rest
<1>6. OpenInv(m)'
  BY <1>1, <1>2, <1>3, <1>4, <1>5 DEF OpenInv
<1> QED BY <1>6

\* The entries that validate_system_objects marks.
MovedBlocks == {info[o].vbn : o \in {u \in DOMAIN info : info[u].dirty}}

\* All roots are marked, and none was forgotten.
LEMMA MarkStep ==
  ASSUME NEW m, OpenInv(m), ContainerAssumption,
         ct = "validate", Unvalidated = {}, validate_system_objects
  PROVE  OpenInv(m)'
<1>1. /\ ct' = "flush_commit" /\ sb_id' = SuperId
      /\ flag_dirty' = (flag_dirty \/ \E o \in DOMAIN info : info[o].dirty)
      /\ cache' = MarkedAll(cache, MovedBlocks)
      /\ info' = info
      /\ UNCHANGED <<disk, disk_sb, file, missing, free, value, safe, reopened,
                     Excluded, changes>>
  BY DEF validate_system_objects, MarkedAll, MovedBlocks, disks, history, counters,
         Excluded
<1>2. PICK root, blocks : root = info[ID].vbn /\ blocks = MovedBlocks
  OBVIOUS
<1>3. /\ Core(info, cache, free, m, root)
      /\ Cached(info, cache, m, root)
      /\ Mapped(info, m, root)
      /\ ID \in DOMAIN info /\ Map = m
      /\ RootKept(info, cache, disk, root, ct, missing)
      /\ \A p \in Objects \ Excluded : Kept(p, value[p], info, cache, disk, m, ct)
      /\ Rest
  BY <1>2, OpenFacts
<1>4. /\ \A b \in blocks : \E x \in DOMAIN info : info[x].vbn = b
      /\ \A x \in DOMAIN info : info[x].dirty => info[x].vbn \in blocks
  BY <1>2 DEF MovedBlocks
<1>5. cache' = MarkedAll(cache, blocks)
  BY <1>1, <1>2
<1>6. Marked(blocks, info, cache, free, m, root, cache')
  BY <1>3, <1>4, <1>5, MarkedCore
<1>7. /\ Core(info, cache', free, m, root)
      /\ DOMAIN cache' = DOMAIN cache
      /\ \A b \in DOMAIN cache : cache'[b].data = cache[b].data
      /\ \A b \in DOMAIN cache \ blocks : cache'[b].state = cache[b].state
      /\ \A b \in blocks : cache'[b].state = "dirty"
  BY <1>6 DEF Marked
<1>8. \A x \in DOMAIN info :
        /\ info[x].vbn \in DOMAIN cache
        /\ cache'[info[x].vbn].state = "clean" =>
             ~info[x].dirty /\ cache[info[x].vbn].state = "clean"
  BY <1>3, <1>4, <1>7 DEF Cached
<1>9. RootKept(info', cache', disk', root, ct', missing')
  <2>1. info[ID].vbn = root
    BY <1>2
  <2> QED BY <2>1, <1>1, <1>3, <1>7, <1>8 DEF RootKept
<1>10. ASSUME NEW p \in Objects \ Excluded'
       PROVE  Kept(p, value'[p], info', cache', disk', m, ct')
  <2>1. Kept(p, value'[p], info, cache, disk', m, ct)
    BY <1>1, <1>3
  <2>2. CASE p \in DOMAIN info
    BY <2>1, <2>2, <1>1, <1>7, <1>8 DEF Kept
  <2>3. CASE p \notin DOMAIN info
    <3>1. m[p] \in {0} \cup Blocks
      BY <1>3 DEF Mapped
    <3>2. At(cache', disk', m[p]) = At(cache, disk', m[p])
      BY <1>7 DEF At
    <3> QED BY <2>1, <2>3, <3>2, <1>1 DEF Kept
  <2> QED BY <2>2, <2>3
<1>11. KeptAll(m)'
  BY <1>10 DEF KeptAll
<1>12. sb_id' = info[ID].vbn
  BY <1>1 DEF SuperId, OpenInv, SuperRight
<1>13. CommitReady(m)'
  <2>1. ASSUME NEW o \in Users
        PROVE  m[o] = info[o].vbn
    <3>1. o \in Objects
      BY <1>3 DEF Users, Core, InfoType, All
    <3>2. CASE info[o].dirty
      BY <3>1, <3>2, <1>3 DEF Unvalidated
    <3>3. CASE ~info[o].dirty
      BY <3>1, <3>3, <1>3 DEF Users, Mapped
    <3> QED BY <3>2, <3>3
  <2> QED BY <2>1, <1>1, <1>12 DEF CommitReady, Users
<1>14. SuperRight' /\ RoomInv' /\ Working'
  BY <1>1, <1>12 DEF OpenInv, SuperRight, RoomInv, Working
<1>15. Rest'
  <2>1. sb_id' \in Blocks
    BY <1>3, <1>12 DEF Core, InfoType
  <2> QED BY <2>1, <1>1, <1>3 DEF Rest
<1>16. OpenInv(m)'
  <2>1. root = info'[ID].vbn /\ root \in DOMAIN cache
    BY <1>1, <1>2, <1>3, <1>8
  <2>2. RootKept(info', cache', disk', info'[ID].vbn, ct', missing')
    BY <2>1, <1>9
  <2>3. cache'[info'[ID].vbn].data = Index(m)
    BY <2>1, <1>2, <1>7 DEF OpenInv
  <2>4. Core(info', cache', free', m, info'[ID].vbn)
    BY <2>1, <1>1, <1>7
  <2> QED BY <2>2, <2>3, <2>4, <1>1, <1>3, <1>11, <1>13, <1>14, <1>15 DEF OpenInv
<1> QED BY <1>16

\* A block is written while the container stays open.
LEMMA FlushStep ==
  ASSUME NEW m, OpenInv(m), ContainerAssumption, NEW b, flush_block(b)
  PROVE  OpenInv(m)'
<1>1. /\ ct = "flush_commit" /\ b \in DOMAIN cache
      /\ disk' = [disk EXCEPT ![b] = cache[b].data]
      /\ cache' = WrittenBack(cache, b) /\ file' = stored
      /\ UNCHANGED <<disk_sb, missing, sb_id, flag_dirty, free, info, ct,
                     value, safe, reopened, Excluded, changes>>
  BY DEF flush_block, Flushing, NextDirty, Dirty, WrittenBack, super, history,
         counters, Excluded, OpenInv, Working
<1>2. PICK root : root = info[ID].vbn
  OBVIOUS
<1>3. /\ Core(info, cache, free, m, root)
      /\ Cached(info, cache, m, root)
      /\ Mapped(info, m, root)
      /\ ID \in DOMAIN info
      /\ RootKept(info, cache, disk, root, ct, missing)
      /\ \A p \in Objects \ Excluded : Kept(p, value[p], info, cache, disk, m, ct)
      /\ Rest
  BY <1>2, OpenFacts
<1>4. disk \in [Blocks -> {Blank} \cup Content]
  BY <1>3 DEF Rest
<1>5. OneWritten(b, info, cache, free, m, root, cache', disk, disk')
  BY <1>1, <1>3, <1>4, WrittenCore
<1>6. /\ Core(info, cache', free, m, root)
      /\ disk' \in [Blocks -> {Blank} \cup Content]
      /\ \A c \in Blocks : At(cache', disk', c) = At(cache, disk, c)
      /\ \A x \in DOMAIN info : cache'[info[x].vbn].data = cache[info[x].vbn].data
      /\ disk'[b] = cache[b].data
      /\ \A c \in DOMAIN cache \ {b} : disk'[c] = disk[c] /\ cache'[c] = cache[c]
  BY <1>5 DEF OneWritten
<1>7. ASSUME NEW p \in Objects \ Excluded'
      PROVE  Kept(p, value'[p], info', cache', disk', m, ct')
  <2>1. Kept(p, value'[p], info, cache, disk, m, ct)
    BY <1>1, <1>3
  <2>2. CASE p \in DOMAIN info
    <3>1. info[p].vbn \in DOMAIN cache
      BY <2>2, <1>3 DEF Cached
    <3>2. CASE info[p].vbn = b
      BY <2>1, <2>2, <3>2, <1>1, <1>6 DEF Kept
    <3>3. CASE info[p].vbn # b
      BY <2>1, <2>2, <3>1, <3>3, <1>1, <1>6 DEF Kept
    <3> QED BY <3>2, <3>3
  <2>3. CASE p \notin DOMAIN info
    <3>1. m[p] \in {0} \cup Blocks
      BY <1>3 DEF Mapped
    <3>2. m[p] # 0 => At(cache', disk', m[p]) = At(cache, disk, m[p])
      BY <3>1, <1>6
    <3> QED BY <2>1, <2>3, <3>2, <1>1 DEF Kept
  <2> QED BY <2>2, <2>3
<1>8. KeptAll(m)'
  BY <1>7 DEF KeptAll
<1>9. RootKept(info', cache', disk', root, ct', missing')
  <2>1. root \in DOMAIN cache /\ info[ID].vbn = root
    BY <1>2, <1>3 DEF Cached
  <2>2. cache'[root].data = cache[root].data
    BY <2>1, <1>3, <1>6
  <2>3. CASE root = b
    BY <2>2, <2>3, <1>6 DEF RootKept
  <2>4. CASE root # b
    BY <2>1, <2>2, <2>4, <1>1, <1>3, <1>6 DEF RootKept
  <2> QED BY <2>3, <2>4
<1>10. SuperRight' /\ RoomInv' /\ Working' /\ CommitReady(m)'
  BY <1>1 DEF OpenInv, SuperRight, RoomInv, Working, CommitReady, Users
<1>11. Rest'
  BY <1>1, <1>3, <1>6 DEF Rest, FileType, stored
<1>12. OpenInv(m)'
  <2>1. root = info'[ID].vbn
    BY <1>1, <1>2
  <2>2. RootKept(info', cache', disk', info'[ID].vbn, ct', missing')
    BY <2>1, <1>9
  <2>3. cache'[info'[ID].vbn].data = Index(m)
    BY <1>1, <1>3, <1>6 DEF OpenInv
  <2>4. Core(info', cache', free', m, info'[ID].vbn)
    BY <2>1, <1>1, <1>6
  <2> QED BY <2>2, <2>3, <2>4, <1>1, <1>3, <1>8, <1>10, <1>11 DEF OpenInv
<1> QED BY <1>12

\* The three ways in which a flush ends.
FlushEnds == flush_super_block \/ flush_super_block_fails \/ flush_fails

\* Every end of a flush is an update_super_block, and forgets or records all.
LEMMA FlushEndsAre ==
  ASSUME FlushEnds
  PROVE  /\ ct \in {"flush_commit", "flush_close"}
         /\ safe' = value \/ safe' = NoObjects
         /\ \E at \in AfterError, written \in BOOLEAN : update_super_block(at, written)
<1>1. CASE flush_super_block
  BY <1>1 DEF flush_super_block, Flushing, AfterError
<1>2. CASE flush_super_block_fails
  BY <1>2 DEF flush_super_block_fails, Flushing
<1>3. CASE flush_fails
  BY <1>3 DEF flush_fails, Flushing
<1> QED BY <1>1, <1>2, <1>3 DEF FlushEnds

\* In each of them: the super block is right if it was written and if nothing
\* had changed since it was.
LEMMA SuperUpdated ==
  ASSUME Rest, free \subseteq Blocks, NEW at \in AfterError, NEW written \in BOOLEAN,
         update_super_block(at, written)
  PROVE  /\ disk' \in [Blocks -> {Blank} \cup Content]
         /\ disk_sb' \in [id : {0} \cup Blocks, free : SUBSET Blocks]
         /\ file' \in FileType
         /\ missing' \subseteq {"block", "super"} /\ flag_dirty' = FALSE
         /\ "block" \notin missing' => "block" \notin missing /\ disk' = disk
         /\ "super" \notin missing' =>
              \/ disk_sb' = [id |-> sb_id, free |-> free]
              \/ ~flag_dirty /\ "super" \notin missing /\ disk_sb' = disk_sb
         /\ UNCHANGED <<sb_id, free, value, reopened, changes>>
<1>1. /\ at[1] \in [Blocks -> {Blank} \cup Content]
      /\ at[2] \in [id : {0} \cup Blocks, free : SUBSET Blocks]
      /\ missing \subseteq at[3] /\ at[3] \subseteq {"block", "super"}
      /\ "block" \notin at[3] => at[1] = disk
      /\ "super" \notin at[3] => at[2] = disk_sb
  BY AfterErrorFacts
<1>2. /\ disk' = at[1]
      /\ disk_sb' = IF flag_dirty /\ written THEN [id |-> sb_id, free |-> free] ELSE at[2]
      /\ missing' = IF ~flag_dirty THEN at[3]
                    ELSE IF written THEN at[3] \ {"super"} ELSE at[3] \cup {"super"}
      /\ flag_dirty' = FALSE
      /\ UNCHANGED <<sb_id, free, value, reopened, changes>>
  BY DEF update_super_block, ToWrite
<1>3. [id |-> sb_id, free |-> free] \in [id : {0} \cup Blocks, free : SUBSET Blocks]
  BY DEF Rest
<1>4. disk_sb' \in [id : {0} \cup Blocks, free : SUBSET Blocks]
  BY <1>1, <1>2, <1>3
<1>5. file' \in FileType
  <2>1. file' = <<disk', disk_sb'>> \/ file' = <<at[1], at[2]>> \/ file' = file
    BY DEF update_super_block, stored
  <2> QED BY <2>1, <1>1, <1>2, <1>4 DEF FileType, Rest
<1>6. /\ missing' \subseteq {"block", "super"}
      /\ "block" \notin missing' => "block" \notin at[3]
  BY <1>1, <1>2
<1>7. "block" \notin missing' => "block" \notin missing /\ disk' = disk
  BY <1>1, <1>2, <1>6
<1>8. ASSUME "super" \notin missing'
      PROVE  \/ disk_sb' = [id |-> sb_id, free |-> free]
             \/ ~flag_dirty /\ "super" \notin missing /\ disk_sb' = disk_sb
  BY <1>1, <1>2, <1>8
<1> QED BY <1>1, <1>2, <1>4, <1>5, <1>6, <1>7, <1>8

\* A commit ends, whether or not all was written.
LEMMA CommitStep ==
  ASSUME NEW m, OpenInv(m), ContainerAssumption, FlushEnds
  PROVE  OpenInv(m)'
<1>0. PICK at \in AfterError, written \in BOOLEAN : update_super_block(at, written)
  BY FlushEndsAre
<1>1. /\ ct = "flush_commit" /\ ct' = "open"
      /\ info' = [o \in DOMAIN info |-> [info[o] EXCEPT !.dirty = FALSE]]
      /\ safe' = value \/ safe' = NoObjects
      /\ UNCHANGED <<sb_id, free, cache, value, reopened, changes>>
  BY <1>0, FlushEndsAre DEF update_super_block, OpenInv, Working
<1>2. PICK root : root = info[ID].vbn
  OBVIOUS
<1>3. /\ Core(info, cache, free, m, root)
      /\ Cached(info, cache, m, root)
      /\ Mapped(info, m, root)
      /\ ID \in DOMAIN info
      /\ RootKept(info, cache, disk, root, ct, missing)
      /\ \A p \in Objects \ Excluded : Kept(p, value[p], info, cache, disk, m, ct)
      /\ Rest
      /\ sb_id = root /\ \A o \in DOMAIN info \ {ID} : m[o] = info[o].vbn
      /\ ~flag_dirty => \A o \in DOMAIN info : ~info[o].dirty
      /\ free \subseteq Blocks
  BY <1>1, <1>2, OpenFacts DEF OpenInv, CommitReady, Users, Core
<1>14. /\ disk' \in [Blocks -> {Blank} \cup Content]
       /\ disk_sb' \in [id : {0} \cup Blocks, free : SUBSET Blocks]
       /\ file' \in FileType
       /\ missing' \subseteq {"block", "super"} /\ flag_dirty' = FALSE
       /\ "block" \notin missing' => "block" \notin missing /\ disk' = disk
       /\ "super" \notin missing' =>
            \/ disk_sb' = [id |-> sb_id, free |-> free]
            \/ ~flag_dirty /\ "super" \notin missing /\ disk_sb' = disk_sb
  BY <1>0, <1>3, SuperUpdated
<1>4. /\ DOMAIN info' = DOMAIN info
      /\ \A x \in DOMAIN info : info'[x].vbn = info[x].vbn /\ ~info'[x].dirty
      /\ InfoType(info')
  <2>1. ASSUME NEW x \in DOMAIN info
        PROVE  /\ info'[x].vbn = info[x].vbn /\ ~info'[x].dirty
               /\ info'[x] \in [ref : 1 .. MaxRef, vbn : Blocks, dirty : BOOLEAN]
    <3>1. info[x] \in [ref : 1 .. MaxRef, vbn : Blocks, dirty : BOOLEAN]
      BY <1>3 DEF Core, InfoType
    <3> QED BY <3>1, <1>1
  <2>2. DOMAIN info' = DOMAIN info /\ DOMAIN info \subseteq All
    BY <1>1, <1>3 DEF Core, InfoType
  <2> QED BY <2>1, <2>2 DEF InfoType
<1>5. Here(info', m) = Here(info, m)
  BY <1>4 DEF Here
<1>6. ASSUME NEW x PROVE Loc(info', m, root, x) = Loc(info, m, root, x)
  BY <1>4 DEF Loc
<1>7. Core(info', cache', free', m, root)
  <2>1. Apart(info', free, m, root)
    <3>1. ASSUME NEW x \in Here(info', m)
          PROVE  Loc(info', m, root, x) \in Blocks \ free
      BY <1>3, <1>5, <1>6 DEF Core, Apart
    <3>2. ASSUME NEW x \in Here(info', m), NEW y \in Here(info', m), x # y
          PROVE  Loc(info', m, root, x) # Loc(info', m, root, y)
      BY <1>3, <1>5, <1>6, <3>2 DEF Core, Apart
    <3> QED BY <3>1, <3>2 DEF Apart
  <2>2. Cached(info', cache, m, root)
    <3>1. ASSUME NEW b \in DOMAIN cache
          PROVE  \E x \in Here(info', m) :
                   /\ Loc(info', m, root, x) = b
                   /\ x \notin DOMAIN info' => cache[b].state = "dirty" /\ cache[b].flush
      BY <1>3, <1>4, <1>5, <1>6 DEF Cached
    <3> QED BY <3>1, <1>3, <1>4 DEF Cached
  <2>3. Mapped(info', m, root)
    BY <1>3, <1>4 DEF Mapped
  <2> QED BY <2>1, <2>2, <2>3, <1>1, <1>3, <1>4 DEF Core
<1>8. RootKept(info', cache', disk', root, ct', missing')
  BY <1>1, <1>3, <1>4, <1>14 DEF RootKept
<1>9. ASSUME NEW p \in Objects \ Excluded'
      PROVE  Kept(p, value'[p], info', cache', disk', m, ct')
  <2>1. disk' = disk /\ p \in Objects \ Excluded
    BY <1>1, <1>9, <1>14 DEF Excluded
  <2> QED BY <2>1, <1>1, <1>3, <1>4 DEF Kept
<1>15. KeptAll(m)'
  BY <1>9 DEF KeptAll
<1>10. SuperRight'
  <2>1. sb_id' = info'[ID].vbn
    BY <1>1, <1>2, <1>3, <1>4
  <2>2. ASSUME "super" \notin missing'
        PROVE  disk_sb'.id = info'[ID].vbn /\ disk_sb'.free = free'
    <3>1. CASE disk_sb' = [id |-> sb_id, free |-> free]
      BY <3>1, <2>1, <1>1
    <3>2. CASE ~flag_dirty /\ "super" \notin missing /\ disk_sb' = disk_sb
      BY <3>2, <1>1, <1>3, <1>4 DEF OpenInv, SuperRight
    <3> QED BY <2>2, <3>1, <3>2, <1>14
  <2> QED BY <2>1, <2>2 DEF SuperRight
<1>11. RoomInv' /\ Working' /\ CommitReady(m)'
  BY <1>1, <1>4 DEF RoomInv, Working, CommitReady, Users
<1>12. Rest'
  <2>2. /\ safe' \in [Objects -> 0 .. MaxChanges]
        /\ \A o \in Objects : safe'[o] <= value[o]
    BY <1>1, <1>3 DEF Rest, NoObjects, ContainerAssumption
  <2> QED BY <2>2, <1>1, <1>3, <1>14 DEF Rest
<1>13. OpenInv(m)'
  <2>1. root = info'[ID].vbn
    BY <1>2, <1>3, <1>4
  <2>2. RootKept(info', cache', disk', info'[ID].vbn, ct', missing')
    BY <2>1, <1>8
  <2>3. cache'[info'[ID].vbn].data = Index(m)
    BY <2>1, <1>1, <1>2 DEF OpenInv
  <2>4. Core(info', cache', free', m, info'[ID].vbn)
    BY <2>1, <1>7
  <2> QED BY <2>2, <2>3, <2>4, <1>3, <1>4, <1>10, <1>11, <1>12, <1>15 DEF OpenInv
<1> QED BY <1>13
-----------------------------------------------------------------------------
(***************************************************************************)
(* The invariant of a container without objects, with the map as m: the    *)
(* last flush, or nothing but the disk.                                    *)
(***************************************************************************)
ShutInv(m) ==
  /\ Rest
  /\ ct \in {"flush_close", "closed"} /\ "block" \notin missing
  /\ free \subseteq Blocks
  /\ DOMAIN info = {}
  /\ ct = "closed" => DOMAIN cache = {} /\ missing = {}
  /\ EndInv
  /\ Core(info, cache, Room, m, Root)
  /\ At(cache, disk, Root) = Index(m)
  /\ KeptAll(m)

\* And what is left of it in the last flush when a block was lost.
DoomedInv ==
  /\ Rest
  /\ ct = "flush_close" /\ "block" \in missing
  /\ free \subseteq Blocks
  /\ DOMAIN info = {} /\ CacheType(cache)
  /\ EndInv

\* It is what the invariant says of such a container.
LEMMA ShutInvHolds ==
  IInv /\ ct \in {"flush_close", "closed"} /\ "block" \notin missing => ShutInv(M)
<1> SUFFICES ASSUME IInv, ct \in {"flush_close", "closed"}, "block" \notin missing
             PROVE  ShutInv(M)
  OBVIOUS
<1>1. Alive /\ ~Working /\ ct # "aborted"
  BY DEF Alive, Working
<1>2. Rest /\ free \subseteq Blocks
  BY DEF IInv, TypeOK, Rest, FileType, KeptInv
<1>3. KeptAll(M)
  BY <1>1 DEF IInv, KeptInv, KeptAll
<1>4. Core(info, cache, Room, M, Root) /\ At(cache, disk, Root) = Index(M)
  BY <1>1 DEF IInv, PlaceInv
<1>5. /\ DOMAIN info = {}
      /\ ct = "closed" => DOMAIN cache = {} /\ missing = {}
      /\ EndInv
  BY <1>1 DEF IInv, PhaseInv
<1> QED BY <1>2, <1>3, <1>4, <1>5 DEF ShutInv

\* So does this.
LEMMA DoomedInvHolds ==
  IInv /\ ct = "flush_close" /\ "block" \in missing => DoomedInv
<1> SUFFICES ASSUME IInv, ct = "flush_close", "block" \in missing
             PROVE  DoomedInv
  OBVIOUS
<1>1. ~Working /\ ct # "aborted"
  BY DEF Working
<1>2. Rest /\ free \subseteq Blocks /\ CacheType(cache)
  BY DEF IInv, TypeOK, Rest, FileType, KeptInv, CacheType
<1> QED BY <1>1, <1>2 DEF IInv, PhaseInv, DoomedInv

IsShut == \E m : ShutInv(m)

\* And it is enough.
LEMMA ShutInvSuffices == IsShut => IInv
<1> SUFFICES ASSUME NEW m, ShutInv(m)
             PROVE  IInv
  BY DEF IsShut
<1>1. ~Working /\ Alive
  BY DEF ShutInv, Working, Alive
<1>2. M = m
  BY DEF ShutInv, M, Index
<1>3. TypeOK
  BY DEF ShutInv, Rest, FileType, TypeOK, Core, InfoType, CacheType
<1>4. PhaseInv /\ EndInv
  BY <1>1 DEF ShutInv, PhaseInv
<1>5. PlaceInv
  BY <1>2 DEF ShutInv, PlaceInv
<1>6. SuperInv /\ RoomInv
  BY <1>1 DEF ShutInv, SuperInv, RoomInv, RootKept
<1>7. KeptInv /\ changes \in 0 .. MaxChanges
  BY <1>2 DEF ShutInv, Rest, KeptInv, KeptAll
<1> QED BY <1>3, <1>4, <1>5, <1>6, <1>7 DEF IInv

\* And it is enough, too.
LEMMA DoomedInvSuffices == DoomedInv => IInv
<1> SUFFICES ASSUME DoomedInv
             PROVE  IInv
  OBVIOUS
<1>1. ~Working /\ ~Alive
  BY DEF DoomedInv, Working, Alive
<1>2. TypeOK
  BY DEF DoomedInv, Rest, FileType, TypeOK, CacheType
<1>3. PhaseInv /\ EndInv
  BY <1>1 DEF DoomedInv, PhaseInv
<1>4. PlaceInv /\ SuperInv /\ RoomInv
  BY <1>1 DEF PlaceInv, SuperInv, RoomInv
<1>5. KeptInv /\ changes \in 0 .. MaxChanges
  BY <1>1 DEF DoomedInv, Rest, KeptInv
<1> QED BY <1>2, <1>3, <1>4, <1>5 DEF IInv

\* A cache entry is the inode of an object, whose block is not free.
LEMMA FreeHasNoEntry ==
  ASSUME NEW inf, NEW ca, NEW fr, NEW m, NEW root, Core(inf, ca, fr, m, root)
  PROVE  fr \cap DOMAIN ca = {}
<1> SUFFICES ASSUME NEW b \in fr, b \in DOMAIN ca
             PROVE  FALSE
  OBVIOUS
<1>1. PICK x \in Here(inf, m) : Loc(inf, m, root, x) = b
  BY DEF Core, Cached
<1> QED BY <1>1 DEF Core, Apart

\* With no object open, $OBJID is closed, too.
LEMMA EndStep ==
  ASSUME NEW m, OpenInv(m), ContainerAssumption,
         ct = "close", Users = {}, validate_system_objects
  PROVE  ShutInv(m)' \/ DoomedInv'
<1>1. /\ ct' = "flush_close" /\ sb_id' = SuperId
      /\ flag_dirty' = (flag_dirty \/ \E o \in DOMAIN info : info[o].dirty)
      /\ cache' = Released(MarkedAll(cache, MovedBlocks), info[ID].vbn)
      /\ info' = Without(info, ID)
      /\ UNCHANGED <<disk, disk_sb, file, missing, free, value, safe, reopened,
                     Excluded, changes>>
  BY DEF validate_system_objects, MarkedAll, MovedBlocks, disks, history, counters,
         Excluded
<1>2. PICK root, blocks, ca : /\ root = info[ID].vbn /\ blocks = MovedBlocks
                              /\ ca = MarkedAll(cache, blocks)
  OBVIOUS
<1>3. /\ Core(info, cache, free, m, root)
      /\ Cached(info, cache, m, root)
      /\ Mapped(info, m, root)
      /\ ID \in DOMAIN info
      /\ RootKept(info, cache, disk, root, ct, missing)
      /\ \A p \in Objects \ Excluded : Kept(p, value[p], info, cache, disk, m, ct)
      /\ Rest
  BY <1>2, OpenFacts
<1>4. DOMAIN info = {ID} /\ info[ID].vbn = root
  BY <1>2, <1>3 DEF Users
<1>5. /\ \A b \in blocks : \E x \in DOMAIN info : info[x].vbn = b
      /\ info[ID].dirty => root \in blocks
  BY <1>2, <1>3 DEF MovedBlocks
<1>6. Marked(blocks, info, cache, free, m, root, ca)
  BY <1>2, <1>3, <1>5, MarkedCore
<1>7. /\ Core(info, ca, free, m, root)
      /\ DOMAIN ca = DOMAIN cache
      /\ \A b \in DOMAIN cache : ca[b].data = cache[b].data
      /\ \A b \in DOMAIN cache \ blocks : ca[b].state = cache[b].state
      /\ \A b \in blocks : ca[b].state = "dirty"
  BY <1>6 DEF Marked
<1>8. cache' = Released(ca, info[ID].vbn)
  BY <1>1, <1>2
<1>9. Gone(ID, info, ca, free, m, root, info', cache')
  BY <1>1, <1>3, <1>7, <1>8, ReleasedCore
<1>10. /\ Core(info', cache', free, m, root)
       /\ Elsewhere(ID, info, ca, info', cache', m, root)
       /\ DOMAIN info' = {}
       /\ root \in DOMAIN ca
       /\ root \in DOMAIN cache' <=> ca[root].state = "dirty"
       /\ root \in DOMAIN cache' => cache'[root].data = ca[root].data
  BY <1>4, <1>9 DEF Gone
<1>11. sb_id' = root
  BY <1>1, <1>2 DEF SuperId, OpenInv, SuperRight
<1>12. Root' = root /\ Room' = free
  BY <1>1, <1>11 DEF Root, Room, Working
<1>19. EndInv'
  <2>1. free' \cap DOMAIN cache' = {}
    BY <1>1, <1>10, FreeHasNoEntry
  <2>2. ASSUME ~flag_dirty', "super" \notin missing'
        PROVE  disk_sb' = [id |-> sb_id', free |-> free']
    <3>1. \A o \in DOMAIN info : ~info[o].dirty
      BY <2>2, <1>1
    <3>2. disk_sb.id = root /\ disk_sb.free = free
      BY <3>1, <2>2, <1>1, <1>2, <1>3 DEF OpenInv, SuperRight
    <3>3. disk_sb = [id |-> disk_sb.id, free |-> disk_sb.free]
      BY <1>3 DEF Rest
    <3> QED BY <3>2, <3>3, <1>1, <1>11
  <2> QED BY <2>1, <2>2 DEF EndInv
<1>13. ASSUME "block" \notin missing
       PROVE  At(cache', disk', root) = Index(m)
  <2>1. ca[root].data = Index(m)
    BY <1>4, <1>7, <1>10 DEF OpenInv
  <2>2. CASE ca[root].state = "dirty"
    BY <2>1, <2>2, <1>10 DEF At
  <2>3. CASE ca[root].state # "dirty"
    <3>1. root \notin DOMAIN cache' /\ ca[root].state = "clean"
      BY <2>3, <1>7, <1>10 DEF Core, CacheType
    <3>2. ~info[ID].dirty /\ cache[root].state = "clean"
      BY <3>1, <1>5, <1>7, <1>10
    <3>3. disk[root] = cache[root].data
      BY <3>2, <1>3, <1>13 DEF RootKept
    <3> QED BY <2>1, <3>1, <3>3, <1>1, <1>7, <1>10 DEF At
  <2> QED BY <2>2, <2>3
<1>14. ASSUME NEW p \in Objects \ Excluded'
       PROVE  Kept(p, value'[p], info', cache', disk', m, ct')
  <2>1. Kept(p, value'[p], info, cache, disk', m, ct)
    BY <1>1, <1>3
  <2>2. p # ID
    BY DEF ContainerAssumption
  <2>3. p \notin DOMAIN info
    BY <2>2, <1>4
  <2>4. Kept(p, value'[p], info, ca, disk', m, ct')
    <3>1. At(ca, disk', m[p]) = At(cache, disk', m[p])
      <4>1. CASE m[p] \in DOMAIN cache
        BY <4>1, <1>7 DEF At
      <4>2. CASE m[p] \notin DOMAIN cache
        BY <4>2, <1>7 DEF At
      <4> QED BY <4>1, <4>2
    <3> QED BY <2>1, <2>3, <3>1 DEF Kept
  <2>5. Cached(info, ca, m, root) /\ m[p] = m[p]
    BY <1>7 DEF Core
  <2> QED BY <2>2, <2>4, <2>5, <1>10, KeptElsewhere
<1>15. KeptAll(m)'
  BY <1>14 DEF KeptAll
<1>16. Rest'
  <2>1. sb_id' \in Blocks
    BY <1>2, <1>3, <1>11 DEF Core, InfoType
  <2> QED BY <2>1, <1>1, <1>3 DEF Rest
<1>17. /\ Core(info', cache', Room', m, Root') /\ CacheType(cache')
       /\ "block" \notin missing => At(cache', disk', Root') = Index(m)
  BY <1>10, <1>12, <1>13 DEF Core
<1>18. free' \subseteq Blocks
  BY <1>1, <1>3 DEF Core
<1>20. CASE "block" \notin missing
  <2>1. ShutInv(m)'
    BY <1>20, <1>1, <1>10, <1>15, <1>16, <1>17, <1>18, <1>19 DEF ShutInv
  <2> QED BY <2>1
<1>21. CASE "block" \in missing
  <2>1. DoomedInv'
    BY <1>21, <1>1, <1>10, <1>16, <1>17, <1>18, <1>19 DEF DoomedInv
  <2> QED BY <2>1
<1> QED BY <1>20, <1>21

\* A block is written after the last object was closed.
LEMMA FlushEndStep ==
  ASSUME NEW m, ShutInv(m), ContainerAssumption, NEW b, flush_block(b)
  PROVE  ShutInv(m)'
<1>1. /\ ct = "flush_close" /\ b \in DOMAIN cache
      /\ disk' = [disk EXCEPT ![b] = cache[b].data]
      /\ cache' = WrittenBack(cache, b) /\ file' = stored
      /\ UNCHANGED <<disk_sb, missing, sb_id, flag_dirty, free, info, ct,
                     value, safe, reopened, Excluded, changes>>
  BY DEF flush_block, Flushing, NextDirty, Dirty, WrittenBack, super, history,
         counters, Excluded, ShutInv
<1>2. PICK root : root = Root
  OBVIOUS
<1>3. Root' = root /\ Room' = free /\ Room = free
  BY <1>1, <1>2 DEF Root, Room, Working
<1>4. Core(info, cache, free, m, root) /\ disk \in [Blocks -> {Blank} \cup Content]
  BY <1>2, <1>3 DEF ShutInv, Rest
<1>5. OneWritten(b, info, cache, free, m, root, cache', disk, disk')
  BY <1>1, <1>4, WrittenCore
<1>6. /\ Core(info, cache', free, m, root)
      /\ disk' \in [Blocks -> {Blank} \cup Content]
      /\ \A c \in Blocks : At(cache', disk', c) = At(cache, disk, c)
  BY <1>5 DEF OneWritten
<1>7. root \in Blocks
  BY <1>4 DEF Core, Apart, Here, Loc
<1>8. KeptAll(m)'
  <2>1. ASSUME NEW p \in Objects \ Excluded'
        PROVE  Kept(p, value'[p], info', cache', disk', m, ct')
    <3>1. Kept(p, value'[p], info, cache, disk, m, ct) /\ p \notin DOMAIN info
      BY <1>1 DEF ShutInv, KeptAll
    <3>2. m[p] \in {0} \cup Blocks
      BY <1>4 DEF Core, Mapped
    <3>3. m[p] # 0 => At(cache', disk', m[p]) = At(cache, disk, m[p])
      BY <3>2, <1>6
    <3> QED BY <3>1, <3>3, <1>1 DEF Kept
  <2> QED BY <2>1 DEF KeptAll
<1>9. At(cache', disk', Root') = Index(m)
  BY <1>2, <1>3, <1>6, <1>7 DEF ShutInv
<1>10. Core(info', cache', Room', m, Root')
  BY <1>1, <1>3, <1>6
<1>11. Rest'
  BY <1>1, <1>6 DEF ShutInv, Rest, FileType, stored
<1>12. EndInv'
  BY <1>1, <1>3, <1>6, FreeHasNoEntry DEF ShutInv, EndInv
<1> QED BY <1>1, <1>8, <1>9, <1>10, <1>11, <1>12 DEF ShutInv

\* The same when a block was lost.
LEMMA FlushDoomedStep ==
  ASSUME DoomedInv, NEW b, flush_block(b)
  PROVE  DoomedInv'
<1>1. /\ b \in DOMAIN cache
      /\ disk' = [disk EXCEPT ![b] = cache[b].data] /\ file' = stored
      /\ cache' = WrittenBack(cache, b)
      /\ UNCHANGED <<disk_sb, missing, sb_id, flag_dirty, free, info, ct, value, safe,
                     reopened, changes>>
  BY DEF flush_block, Flushing, NextDirty, Dirty, WrittenBack, super, history, counters
<1>2. /\ DOMAIN cache \subseteq Blocks
      /\ \A c \in DOMAIN cache :
           /\ cache[c] \in [state : {"clean", "dirty"}, flush : BOOLEAN, data : Content]
           /\ cache[c].flush => cache[c].state = "dirty"
  BY DEF DoomedInv, CacheType
<1>3. disk' \in [Blocks -> {Blank} \cup Content]
  <2>1. cache[b].data \in Content
    BY <1>1, <1>2
  <2> QED BY <2>1, <1>1 DEF DoomedInv, Rest
<1>4. DOMAIN cache' \subseteq DOMAIN cache /\ CacheType(cache')
  <2>1. CASE cache[b].flush
    BY <2>1, <1>1, <1>2 DEF WrittenBack, Without, CacheType
  <2>2. CASE ~cache[b].flush
    <3>1. cache' = [cache EXCEPT ![b].state = "clean"]
      BY <2>2, <1>1 DEF WrittenBack
    <3>2. /\ cache'[b].flush = FALSE
          /\ cache'[b] \in [state : {"clean", "dirty"}, flush : BOOLEAN, data : Content]
      BY <3>1, <2>2, <1>1, <1>2
    <3> QED BY <3>1, <3>2, <1>2 DEF CacheType
  <2> QED BY <2>1, <2>2
<1>5. Rest'
  BY <1>1, <1>3 DEF DoomedInv, Rest, FileType, stored
<1>6. EndInv'
  BY <1>1, <1>4 DEF DoomedInv, EndInv
<1> QED BY <1>1, <1>4, <1>5, <1>6 DEF DoomedInv

\* The container is closed only if no write was lost.
LEMMA ClosedOnlyWhole ==
  ASSUME Rest, free \subseteq Blocks, FlushEnds, ct = "flush_close", ct' = "closed"
  PROVE  "block" \notin missing
<1>1. PICK at \in AfterError, written \in BOOLEAN : update_super_block(at, written)
  BY FlushEndsAre
<1>2. missing' = {}
  BY <1>1 DEF update_super_block
<1> QED BY <1>1, <1>2, SuperUpdated

\* All blocks are written and no write was lost: the container is closed.
LEMMA ClosedStep ==
  ASSUME NEW m, ShutInv(m), ContainerAssumption, FlushEnds, ct' = "closed"
  PROVE  ShutInv(m)'
<1>0. PICK at \in AfterError, written \in BOOLEAN : update_super_block(at, written)
  BY FlushEndsAre
<1>14. /\ ct = "flush_close" /\ Dirty = {} /\ missing' = {}
       /\ info' = <<>> /\ cache' = <<>>
       /\ safe' = value \/ safe' = NoObjects
  BY <1>0, FlushEndsAre DEF update_super_block
<1>15. /\ "block" \notin missing' => disk' = disk
       /\ "super" \notin missing' =>
            \/ disk_sb' = [id |-> sb_id, free |-> free]
            \/ ~flag_dirty /\ "super" \notin missing /\ disk_sb' = disk_sb
       /\ file' \in FileType /\ flag_dirty' = FALSE
       /\ UNCHANGED <<sb_id, free, value, reopened, changes>>
  BY <1>0, SuperUpdated DEF ShutInv
<1>1. /\ ct = "flush_close" /\ ct' = "closed" /\ Dirty = {}
      /\ disk_sb' = [id |-> sb_id, free |-> free]
      /\ info' = <<>> /\ cache' = <<>>
      /\ UNCHANGED <<disk, sb_id, free, value, reopened, changes>>
  BY <1>14, <1>15 DEF ShutInv, EndInv
<1>2. DOMAIN info' = {} /\ DOMAIN cache' = {}
  BY <1>1
<1>3. PICK root : root = Root
  OBVIOUS
<1>4. Root' = root /\ Room' = free /\ Room = free /\ sb_id = root
  BY <1>1, <1>3 DEF Root, Room, Working
<1>5. Core(info, cache, free, m, root) /\ DOMAIN info = {}
  BY <1>3, <1>4 DEF ShutInv
<1>6. DOMAIN cache = {}
  BY <1>1, <1>5 DEF Core, Cached, Dirty
<1>7. Here(info', m) = Here(info, m)
  BY <1>2, <1>5 DEF Here
<1>8. ASSUME NEW x PROVE Loc(info', m, root, x) = Loc(info, m, root, x)
  BY <1>2, <1>5 DEF Loc
<1>9. Core(info', cache', free, m, root)
  <2>1. Apart(info', free, m, root)
    <3>1. ASSUME NEW x \in Here(info', m)
          PROVE  Loc(info', m, root, x) \in Blocks \ free
      BY <1>5, <1>7, <1>8 DEF Core, Apart
    <3>2. ASSUME NEW x \in Here(info', m), NEW y \in Here(info', m), x # y
          PROVE  Loc(info', m, root, x) # Loc(info', m, root, y)
      BY <1>5, <1>7, <1>8, <3>2 DEF Core, Apart
    <3> QED BY <3>1, <3>2 DEF Apart
  <2>2. Cached(info', cache', m, root) /\ InfoType(info') /\ CacheType(cache')
    BY <1>2 DEF Cached, InfoType, CacheType
  <2>3. Mapped(info', m, root)
    BY <1>2, <1>5 DEF Core, Mapped
  <2> QED BY <2>1, <2>2, <2>3, <1>5 DEF Core
<1>10. \A c : At(cache', disk', c) = At(cache, disk, c)
  BY <1>1, <1>2, <1>6 DEF At
<1>11. KeptAll(m)'
  <2>1. ASSUME NEW p \in Objects \ Excluded'
        PROVE  Kept(p, value'[p], info', cache', disk', m, ct')
    <3>1. Kept(p, value'[p], info, cache, disk, m, ct) /\ p \notin DOMAIN info
      BY <1>1, <1>5, <1>14 DEF ShutInv, KeptAll, Excluded
    <3> QED BY <3>1, <1>2, <1>10 DEF Kept
  <2> QED BY <2>1 DEF KeptAll
<1>12. Rest'
  <2>1. disk_sb' \in [id : {0} \cup Blocks, free : SUBSET Blocks]
    BY <1>1 DEF ShutInv, Rest
  <2>2. /\ safe' \in [Objects -> 0 .. MaxChanges]
        /\ \A o \in Objects : safe'[o] <= value[o]
    BY <1>14 DEF ShutInv, Rest, NoObjects, ContainerAssumption
  <2>3. missing' \subseteq {"block", "super"} /\ flag_dirty' \in BOOLEAN
    BY <1>14, <1>15
  <2>4. Rest
    BY DEF ShutInv
  <2> QED BY <2>1, <2>2, <2>3, <2>4, <1>1, <1>15 DEF Rest
<1>13. At(cache', disk', Root') = Index(m) /\ free' \subseteq Blocks
  BY <1>1, <1>3, <1>4, <1>10 DEF ShutInv
<1> QED BY <1>1, <1>2, <1>4, <1>9, <1>11, <1>12, <1>13, <1>14 DEF ShutInv, EndInv

\* A crash when nothing waits in the buffer finds the file as the disk was.
LEMMA CrashKeeps ==
  ASSUME Rest, Settled, crash
  PROVE  /\ UNCHANGED <<disk, disk_sb, missing>> /\ file' \in FileType
         /\ ct' = IF missing = {} THEN "closed" ELSE "lost"
<1>1. PICK at \in AfterError : disk' = at[1] /\ disk_sb' = at[2] /\ missing' = at[3]
  BY DEF crash
<1>2. at = <<disk, disk_sb, missing>>
  BY DEF Settled, AfterError, Lost, stored
<1>3. file' \in FileType
  BY <1>1, <1>2 DEF crash, Rest, FileType, stored
<1> QED BY <1>1, <1>2, <1>3 DEF crash

\* And everything that was there, if no write was lost before.
LEMMA CrashStep ==
  ASSUME NEW m, OpenInv(m), ContainerAssumption, Settled, crash, missing = {}
  PROVE  ShutInv(m)'
<1>1. /\ ct = "open" /\ ct' = "closed" /\ Dirty = {}
      /\ \A o \in DOMAIN info : ~info[o].dirty
      /\ info' = <<>> /\ cache' = <<>> /\ value' = safe /\ flag_dirty' = FALSE
      /\ UNCHANGED <<disk, disk_sb, missing, sb_id, free, safe, reopened, Excluded,
                     changes>>
      /\ file' \in FileType
  BY CrashKeeps DEF crash, Settled, counters, Excluded, OpenInv
<1>2. DOMAIN info' = {} /\ DOMAIN cache' = {}
  BY <1>1
<1>3. PICK root : root = info[ID].vbn
  OBVIOUS
<1>4. /\ Core(info, cache, free, m, root)
      /\ Cached(info, cache, m, root)
      /\ Mapped(info, m, root)
      /\ ID \in DOMAIN info
      /\ RootKept(info, cache, disk, root, ct, missing)
      /\ \A p \in Objects \ Excluded : Kept(p, value[p], info, cache, disk, m, ct)
      /\ Rest
  BY <1>3, OpenFacts
<1>5. \A b \in DOMAIN cache :
        /\ cache[b].state = "clean"
        /\ \E x \in DOMAIN info : Loc(info, m, root, x) = b
  BY <1>1, <1>4 DEF Core, Cached, CacheType, Dirty
<1>6. disk_sb.id = root /\ disk_sb.free = free
  BY <1>1, <1>3, <1>4 DEF OpenInv, SuperRight
<1>7. Root' = root /\ Room' = free
  BY <1>1, <1>6 DEF Root, Room, Working
<1>8. \A o \in DOMAIN info \ {ID} : m[o] = info[o].vbn /\ m[o] # 0
  BY <1>1, <1>4 DEF Core, Mapped, InfoType, ContainerAssumption
<1>9. Here(info', m) = Here(info, m)
  <2>1. ASSUME NEW o \in Objects, o \in DOMAIN info PROVE m[o] # 0
    BY <2>1, <1>8 DEF ContainerAssumption
  <2> QED BY <2>1, <1>2 DEF Here
<1>10. ASSUME NEW x \in Here(info, m)
       PROVE  Loc(info', m, root, x) = Loc(info, m, root, x)
  BY <1>2, <1>8 DEF Loc, Here
<1>11. Core(info', cache', free, m, root)
  <2>1. Apart(info', free, m, root)
    <3>1. ASSUME NEW x \in Here(info', m)
          PROVE  Loc(info', m, root, x) \in Blocks \ free
      BY <1>4, <1>9, <1>10 DEF Core, Apart
    <3>2. ASSUME NEW x \in Here(info', m), NEW y \in Here(info', m), x # y
          PROVE  Loc(info', m, root, x) # Loc(info', m, root, y)
      BY <1>4, <1>9, <1>10, <3>2 DEF Core, Apart
    <3> QED BY <3>1, <3>2 DEF Apart
  <2>2. Cached(info', cache', m, root) /\ InfoType(info') /\ CacheType(cache')
    BY <1>2 DEF Cached, InfoType, CacheType
  <2>3. Mapped(info', m, root)
    BY <1>2, <1>4 DEF Mapped
  <2> QED BY <2>1, <2>2, <2>3, <1>4 DEF Core
<1>12. At(cache', disk', root) = Index(m)
  <2>1. root \in DOMAIN cache /\ ~info[ID].dirty
    BY <1>1, <1>3, <1>4 DEF Cached
  <2>2. disk[root] = cache[root].data
    BY <2>1, <1>4, <1>5 DEF RootKept
  <2> QED BY <2>2, <1>1, <1>2, <1>3 DEF At, OpenInv
<1>13. ASSUME NEW p \in Objects \ Excluded'
       PROVE  Kept(p, value'[p], info', cache', disk', m, ct')
  <2>1. Kept(p, value[p], info, cache, disk, m, ct)
    BY <1>1, <1>4
  <2>2. /\ safe[p] <= value[p]
        /\ safe[p] \in 0 .. MaxChanges /\ value[p] \in 0 .. MaxChanges
    BY <1>4 DEF Rest
  <2>3. p # ID
    BY DEF ContainerAssumption
  <2>4. ASSUME NEW c, Holds(c, p, value[p]) PROVE Holds(c, p, safe[p])
    BY <2>2, <2>4 DEF Holds
  <2>5. CASE p \in DOMAIN info
    <3>1. m[p] = info[p].vbn /\ m[p] # 0 /\ cache[m[p]].state = "clean"
      BY <2>3, <2>5, <1>4, <1>5, <1>8 DEF Cached
    <3>2. Holds(disk[m[p]], p, value[p])
      BY <2>1, <2>5, <3>1, <1>1 DEF Kept
    <3>3. Holds(disk[m[p]], p, safe[p])
      BY <3>2, <2>4
    <3> QED BY <3>1, <3>3, <1>1, <1>2 DEF Kept, At
  <2>6. CASE p \notin DOMAIN info /\ m[p] # 0
    <3>1. p \in Here(info, m) /\ Loc(info, m, root, p) = m[p]
      BY <2>3, <2>6 DEF Here, Loc
    <3>2. m[p] \notin DOMAIN cache
      <4>1. \A x \in DOMAIN info : x \in Here(info, m) /\ x # p
        BY <2>6, <1>4 DEF Here, Core, InfoType, All
      <4> QED BY <4>1, <3>1, <1>4, <1>5 DEF Core, Apart
    <3>3. Holds(disk[m[p]], p, safe[p])
      BY <2>1, <2>4, <2>6, <3>2 DEF Kept, At
    <3> QED BY <2>6, <3>3, <1>1, <1>2 DEF Kept, At
  <2>7. CASE p \notin DOMAIN info /\ m[p] = 0
    BY <2>1, <2>2, <2>7, <1>1, <1>2 DEF Kept
  <2> QED BY <2>5, <2>6, <2>7
<1>14. KeptAll(m)'
  BY <1>13 DEF KeptAll
<1>15. Rest'
  <2>1. \A o \in Objects : safe[o] <= safe[o] /\ safe[o] <= changes
    BY <1>4 DEF Rest
  <2> QED BY <2>1, <1>1, <1>4 DEF Rest
<1>16. free' \subseteq Blocks
  BY <1>1, <1>4 DEF Core
<1> QED BY <1>1, <1>2, <1>7, <1>11, <1>12, <1>14, <1>15, <1>16 DEF ShutInv, EndInv
-----------------------------------------------------------------------------
(***************************************************************************)
(* Create and open the container, and the states that nothing follows.     *)
(***************************************************************************)
\* The inode of $OBJID is read, and it is the one that was written last.
LEMMA ReopenStep ==
  ASSUME NEW m, ShutInv(m), ContainerAssumption, ofs_open_container
  PROVE  OpenInv(m)'
<1>1. /\ ct = "closed" /\ ct' = "open"
      /\ sb_id' = disk_sb.id /\ free' = disk_sb.free
      /\ info' = [x \in {ID} |-> [ref |-> 1, vbn |-> disk_sb.id, dirty |-> FALSE]]
      /\ cache' = [b \in {disk_sb.id} |-> Entry("clean", disk[disk_sb.id])]
      /\ UNCHANGED <<disk, disk_sb, file, missing, flag_dirty, value, safe, reopened,
                     Excluded, changes>>
  BY DEF ofs_open_container, disks, history, Excluded
<1>2. PICK root : root = disk_sb.id
  OBVIOUS
<1>3. Root = root /\ Room = disk_sb.free
  BY <1>1, <1>2 DEF Root, Room, Working
<1>4. /\ Core(info, cache, free', m, root) /\ DOMAIN info = {} /\ DOMAIN cache = {}
      /\ Rest
  BY <1>1, <1>3 DEF ShutInv
<1>5. disk[root] = Index(m)
  BY <1>3, <1>4 DEF ShutInv, At
<1>6. root \in Blocks
  BY <1>4 DEF Core, Apart, Here, Loc
<1>7. /\ DOMAIN info' = {ID} /\ info'[ID].vbn = root /\ ~info'[ID].dirty
      /\ info'[ID] \in [ref : 1 .. MaxRef, vbn : Blocks, dirty : BOOLEAN]
  <2>1. MaxRef \in Nat /\ MaxRef > 0
    BY DEF ContainerAssumption
  <2>2. info'[ID] = [ref |-> 1, vbn |-> root, dirty |-> FALSE]
    BY <1>1, <1>2
  <2>3. [ref |-> 1, vbn |-> root, dirty |-> FALSE]
          \in [ref : 1 .. MaxRef, vbn : Blocks, dirty : BOOLEAN]
    BY <1>6, <2>1
  <2> QED BY <2>2, <2>3, <1>1
<1>8. /\ DOMAIN cache' = {root}
      /\ cache'[root].data = disk[root] /\ cache'[root].state = "clean"
      /\ ~cache'[root].flush
      /\ cache'[root] \in [state : {"clean", "dirty"}, flush : BOOLEAN, data : Content]
  <2>1. PICK d : d = disk[root]
    OBVIOUS
  <2>2. d \in Content
    BY <2>1, <1>4, <1>5 DEF Core, Mapped, Index, Content
  <2>3. cache'[root] = [state |-> "clean", flush |-> FALSE, data |-> d]
    BY <2>1, <1>1, <1>2 DEF Entry
  <2>4. [state |-> "clean", flush |-> FALSE, data |-> d]
          \in [state : {"clean", "dirty"}, flush : BOOLEAN, data : Content]
    BY <2>2
  <2> QED BY <2>1, <2>3, <2>4, <1>1, <1>2
<1>9. Here(info', m) = Here(info, m)
  BY <1>4, <1>7 DEF Here, ContainerAssumption
<1>10. ASSUME NEW x \in Here(info, m)
       PROVE  Loc(info', m, root, x) = Loc(info, m, root, x)
  BY <1>4, <1>7 DEF Loc
<1>11. Core(info', cache', free', m, root)
  <2>1. Apart(info', free', m, root)
    <3>1. ASSUME NEW x \in Here(info', m)
          PROVE  Loc(info', m, root, x) \in Blocks \ free'
      BY <1>4, <1>9, <1>10 DEF Core, Apart
    <3>2. ASSUME NEW x \in Here(info', m), NEW y \in Here(info', m), x # y
          PROVE  Loc(info', m, root, x) # Loc(info', m, root, y)
      BY <1>4, <1>9, <1>10, <3>2 DEF Core, Apart
    <3> QED BY <3>1, <3>2 DEF Apart
  <2>2. Cached(info', cache', m, root)
    <3>1. ID \in Here(info', m) /\ Loc(info', m, root, ID) = root
      BY DEF Here, Loc
    <3> QED BY <3>1, <1>7, <1>8 DEF Cached
  <2>3. Mapped(info', m, root)
    BY <1>4, <1>7 DEF Core, Mapped
  <2>4. InfoType(info') /\ CacheType(cache')
    BY <1>6, <1>7, <1>8 DEF InfoType, CacheType, All
  <2> QED BY <2>1, <2>2, <2>3, <2>4, <1>4 DEF Core
<1>12. RootKept(info', cache', disk', root, ct', missing')
  BY <1>1, <1>8 DEF RootKept
<1>13. ASSUME NEW p \in Objects \ Excluded'
       PROVE  Kept(p, value'[p], info', cache', disk', m, ct')
  <2>1. Kept(p, value'[p], info, cache, disk', m, ct) /\ p # ID
    BY <1>1 DEF ShutInv, KeptAll, ContainerAssumption
  <2>2. At(cache', disk', m[p]) = At(cache, disk', m[p])
    BY <1>1, <1>4, <1>8 DEF At
  <2> QED BY <2>1, <2>2, <1>4, <1>7 DEF Kept
<1>14. KeptAll(m)'
  BY <1>13 DEF KeptAll
<1>15. SuperRight' /\ RoomInv' /\ Working' /\ CommitReady(m)'
  BY <1>1, <1>2, <1>7 DEF SuperRight, RoomInv, Working, CommitReady, Users
<1>16. Rest'
  BY <1>1, <1>2, <1>4, <1>6 DEF Rest
<1>17. cache'[info'[ID].vbn].data = Index(m)
  BY <1>5, <1>7, <1>8
<1> QED BY <1>7, <1>11, <1>12, <1>14, <1>15, <1>16, <1>17 DEF OpenInv

\* A new container has no objects.
LEMMA NewContainerStep ==
  ASSUME IInv, ContainerAssumption, ofs_create_container
  PROVE  OpenInv(NoObjects)'
<1>1. PICK root \in Blocks :
        /\ ct = "none" /\ ct' = "open"
        /\ info' = [x \in {ID} |-> [ref |-> 1, vbn |-> root, dirty |-> TRUE]]
        /\ cache' = [x \in {root} |-> Entry("dirty", Index(NoObjects))]
        /\ free' = Blocks \ {root}
        /\ sb_id' = root
        /\ disk_sb' = [id |-> root, free |-> free']
        /\ flag_dirty' = TRUE
        /\ UNCHANGED <<disk, file, missing, value, safe, reopened, Excluded, changes>>
  BY DEF ofs_create_container, history, counters, Excluded
<1>2. \A o \in Objects : value[o] = 0
  BY <1>1 DEF IInv, PhaseInv, KeptInv, TypeOK
<1>3. NoObjects \in [Objects -> {0} \cup Blocks] /\ root # 0
  BY DEF NoObjects, ContainerAssumption
<1>4. /\ DOMAIN info' = {ID} /\ info'[ID].vbn = root /\ info'[ID].dirty
      /\ info'[ID] \in [ref : 1 .. MaxRef, vbn : Blocks, dirty : BOOLEAN]
  <2>1. MaxRef \in Nat /\ MaxRef > 0
    BY DEF ContainerAssumption
  <2>2. info'[ID] = [ref |-> 1, vbn |-> root, dirty |-> TRUE]
    BY <1>1
  <2>3. [ref |-> 1, vbn |-> root, dirty |-> TRUE]
          \in [ref : 1 .. MaxRef, vbn : Blocks, dirty : BOOLEAN]
    BY <2>1
  <2> QED BY <2>2, <2>3, <1>1
<1>5. /\ DOMAIN cache' = {root}
      /\ cache'[root].data = Index(NoObjects) /\ cache'[root].state = "dirty"
      /\ ~cache'[root].flush
      /\ cache'[root] \in [state : {"clean", "dirty"}, flush : BOOLEAN, data : Content]
  <2>1. PICK d : d = Index(NoObjects)
    OBVIOUS
  <2>2. d \in Content
    BY <2>1, <1>3 DEF Index, Content
  <2>3. cache'[root] = [state |-> "dirty", flush |-> FALSE, data |-> d]
    BY <2>1, <1>1 DEF Entry
  <2>4. [state |-> "dirty", flush |-> FALSE, data |-> d]
          \in [state : {"clean", "dirty"}, flush : BOOLEAN, data : Content]
    BY <2>2
  <2> QED BY <2>1, <2>3, <2>4, <1>1
<1>6. Here(info', NoObjects) = {ID} /\ Loc(info', NoObjects, root, ID) = root
  BY <1>4 DEF Here, Loc, NoObjects, ContainerAssumption
<1>7. Core(info', cache', free', NoObjects, root)
  <2>1. Apart(info', free', NoObjects, root)
    BY <1>1, <1>6 DEF Apart
  <2>2. Cached(info', cache', NoObjects, root)
    BY <1>4, <1>5, <1>6 DEF Cached
  <2>3. Mapped(info', NoObjects, root)
    BY <1>3, <1>4 DEF Mapped
  <2>4. InfoType(info') /\ CacheType(cache')
    BY <1>4, <1>5 DEF InfoType, CacheType, All
  <2> QED BY <2>1, <2>2, <2>3, <2>4, <1>1 DEF Core
<1>8. RootKept(info', cache', disk', root, ct', missing')
  BY <1>5 DEF RootKept
<1>9. KeptAll(NoObjects)'
  BY <1>1, <1>2, <1>4 DEF KeptAll, Kept, NoObjects, ContainerAssumption
<1>10. SuperRight' /\ RoomInv' /\ Working' /\ CommitReady(NoObjects)'
  BY <1>1, <1>4 DEF SuperRight, RoomInv, Working, CommitReady
<1>11. Rest'
  BY <1>1 DEF IInv, TypeOK, KeptInv, Rest, FileType
<1>12. cache'[info'[ID].vbn].data = Index(NoObjects)
  BY <1>4, <1>5
<1> QED BY <1>4, <1>7, <1>8, <1>9, <1>10, <1>11, <1>12 DEF OpenInv

\* What is left to show when nothing follows.
Stopped ==
  /\ TypeOK /\ changes \in 0 .. MaxChanges
  /\ \A o \in Objects : safe[o] <= value[o] /\ value[o] <= changes
  /\ ct = "aborted" \/ (ct = "lost" /\ DOMAIN info = {} /\ DOMAIN cache = {})

\* It is the invariant of these states.
LEMMA StoppedInv == Stopped => IInv
BY DEF Stopped, IInv, PhaseInv, PlaceInv, SuperInv, RoomInv, EndInv, KeptInv, Working, Alive

\* The file of a container that is not open lacks a write.
LEMMA LostFile ==
  ASSUME Rest', free' \subseteq Blocks, ct' = "lost", info' = <<>>, cache' = <<>>
  PROVE  IInv'
<1>1. DOMAIN info' = {} /\ DOMAIN cache' = {}
  OBVIOUS
<1>2. TypeOK'
  BY <1>1 DEF TypeOK, Rest, FileType
<1>3. (Stopped => IInv)'
  BY StoppedInv, PTL
<1> QED BY <1>1, <1>2, <1>3 DEF Stopped, Rest

\* A write that was lost by the end of the last flush.
LEMMA LostStep ==
  ASSUME Rest, free \subseteq Blocks, ContainerAssumption, FlushEnds, ct = "flush_close",
         ct' # "closed"
  PROVE  IInv'
<1>1. PICK at \in AfterError, written \in BOOLEAN : update_super_block(at, written)
  BY FlushEndsAre
<1>2. ct' = "lost" /\ info' = <<>> /\ cache' = <<>> /\ (safe' = value \/ safe' = NoObjects)
  BY <1>1, FlushEndsAre DEF update_super_block
<1>3. safe' \in [Objects -> 0 .. MaxChanges] /\ \A o \in Objects : safe'[o] <= value[o]
  BY <1>2 DEF NoObjects, ContainerAssumption, Rest
<1>4. /\ disk' \in [Blocks -> {Blank} \cup Content]
      /\ disk_sb' \in [id : {0} \cup Blocks, free : SUBSET Blocks]
      /\ file' \in FileType
      /\ missing' \subseteq {"block", "super"} /\ flag_dirty' = FALSE
      /\ UNCHANGED <<sb_id, free, value, reopened, changes>>
  BY <1>1, SuperUpdated
<1>5. Rest' /\ free' \subseteq Blocks
  BY <1>3, <1>4 DEF Rest
<1> QED BY <1>2, <1>5, LostFile

\* A crash of a process that had lost a write.
LEMMA LostCrash ==
  ASSUME NEW m, OpenInv(m), Settled, crash, missing # {}
  PROVE  IInv'
<1>1. /\ UNCHANGED <<disk, disk_sb, missing>> /\ file' \in FileType
      /\ ct' = "lost" /\ Rest /\ free \subseteq Blocks
  BY CrashKeeps DEF OpenInv, Core
<1>2. /\ info' = <<>> /\ cache' = <<>> /\ value' = safe /\ flag_dirty' = FALSE
      /\ UNCHANGED <<sb_id, free, safe, reopened, changes>>
  BY DEF crash, counters
<1>3. \A o \in Objects : safe[o] <= safe[o] /\ safe[o] <= changes
  BY <1>1 DEF Rest
<1>4. Rest' /\ free' \subseteq Blocks
  BY <1>1, <1>2, <1>3 DEF Rest
<1> QED BY <1>1, <1>2, <1>4, LostFile

\* The insertion into $OBJID that finds no block ends the program.
LEMMA FullStep ==
  ASSUME NEW m, OpenInv(m), ContainerAssumption, NEW o \in Objects,
         ofs_create_object_full(o)
  PROVE  IInv'
<1>1. PICK b \in Blocks :
        /\ ct = "open" /\ ~info[ID].dirty /\ free = {b}
        /\ WriteRoot(ID, Index(m), info,
                     With(cache, b, [Entry("dirty", Inode(o, 0)) EXCEPT !.flush = TRUE]),
                     {b}, "open")
        /\ UNCHANGED <<disk, disk_sb, file, missing, sb_id, flag_dirty, value, safe,
                       reopened, Excluded, changes>>
  BY OpenFacts DEF ofs_create_object_full, disks, super, history, counters, Excluded
<1>2. PICK ca, old, data :
        /\ ca = With(cache, b, [Entry("dirty", Inode(o, 0)) EXCEPT !.flush = TRUE])
        /\ old = info[ID].vbn /\ data = Index(m)
  OBVIOUS
<1>3. /\ Core(info, cache, free, m, old) /\ ID \in DOMAIN info /\ Rest
      /\ old \in DOMAIN cache /\ old \in Blocks
  BY <1>2, OpenFacts DEF Cached, Core, CacheType
<1>4. old # b
  BY <1>1, <1>2, <1>3 DEF Core, Apart, Here, Loc
<1>5. data \in Content
  BY <1>2, <1>3 DEF Core, Mapped, Index, Content
<1>6. /\ info' = MovedTo(info, ID, b)
      /\ cache' = Moved(ChangedAt(ca, old, data), old, b)
      /\ free' = {old}
      /\ b \in DOMAIN ca
      /\ ct' = "aborted"
  <2>1. b \in DOMAIN ca
    BY <1>2 DEF With
  <2> QED BY <2>1, <1>1, <1>2 DEF WriteRoot, MovedTo, ChangedAt
<1>7. InfoType(info')
  <2>1. info[ID] \in [ref : 1 .. MaxRef, vbn : Blocks, dirty : BOOLEAN]
    BY <1>3 DEF Core, InfoType
  <2>2. /\ DOMAIN info' = DOMAIN info
        /\ info'[ID] = [info[ID] EXCEPT !.vbn = b, !.dirty = TRUE]
        /\ \A x \in DOMAIN info \ {ID} : info'[x] = info[x]
    BY <1>3, <1>6 DEF MovedTo
  <2>3. info'[ID] \in [ref : 1 .. MaxRef, vbn : Blocks, dirty : BOOLEAN]
    BY <2>1, <2>2
  <2> QED BY <2>2, <2>3, <1>3 DEF Core, InfoType
<1>8. CacheType(cache')
  <2>1. /\ DOMAIN ca = DOMAIN cache \cup {b}
        /\ \A c \in DOMAIN cache \ {b} : ca[c] = cache[c]
    BY <1>2 DEF With
  <2>2. ca[old] = cache[old]
    BY <2>1, <1>3, <1>4
  <2>3. /\ DOMAIN cache' = (DOMAIN ca \ {old}) \cup {b}
        /\ cache'[b] = [cache[old] EXCEPT !.data = data]
        /\ \A c \in DOMAIN cache' \ {b} : cache'[c] = cache[c] /\ c \in DOMAIN cache
    BY <2>1, <2>2, <1>3, <1>4, <1>6 DEF Moved, ChangedAt, With, Without
  <2>4. /\ cache[old] \in [state : {"clean", "dirty"}, flush : BOOLEAN, data : Content]
        /\ cache[old].flush => cache[old].state = "dirty"
    BY <1>3 DEF Core, CacheType
  <2>5. /\ cache'[b] \in [state : {"clean", "dirty"}, flush : BOOLEAN, data : Content]
        /\ cache'[b].flush => cache'[b].state = "dirty"
    BY <2>3, <2>4, <1>5
  <2>6. DOMAIN cache' \subseteq Blocks
    BY <2>1, <2>3, <1>3 DEF Core, CacheType
  <2>7. ASSUME NEW c \in DOMAIN cache', c # b
        PROVE  /\ cache'[c] \in [state : {"clean", "dirty"}, flush : BOOLEAN, data : Content]
               /\ cache'[c].flush => cache'[c].state = "dirty"
    BY <2>3, <2>7, <1>3 DEF Core, CacheType
  <2> QED BY <2>5, <2>6, <2>7 DEF CacheType
<1>9. TypeOK'
  BY <1>1, <1>3, <1>6, <1>7, <1>8 DEF TypeOK, Rest, FileType, InfoType, CacheType
<1>10. (Stopped => IInv)'
  BY StoppedInv, PTL
<1>11. /\ changes' \in 0 .. MaxChanges
       /\ \A p \in Objects : safe'[p] <= value'[p] /\ value'[p] <= changes'
  BY <1>1, <1>3 DEF Rest
<1> QED BY <1>6, <1>9, <1>10, <1>11 DEF Stopped
-----------------------------------------------------------------------------
(***************************************************************************)
(* The invariant is inductive.                                             *)
(***************************************************************************)
\* Before ofs_create_container there is nothing but free blocks.
LEMMA InitInv == ContainerAssumption /\ Init => IInv
<1> SUFFICES ASSUME ContainerAssumption, Init
             PROVE  IInv
  OBVIOUS
<1>1. DOMAIN info = {} /\ DOMAIN cache = {}
  BY DEF Init
<1>2. /\ disk \in [Blocks -> {Blank} \cup Content]
      /\ disk_sb \in [id : {0} \cup Blocks, free : SUBSET Blocks]
      /\ file \in [Blocks -> {Blank} \cup Content]
                    \X [id : {0} \cup Blocks, free : SUBSET Blocks]
  BY DEF Init, stored
<1>3. MaxChanges \in Nat /\ NoObjects \in [Objects -> 0 .. MaxChanges]
  BY DEF ContainerAssumption, NoObjects
<1>4. TypeOK
  BY <1>1, <1>2, <1>3 DEF Init, TypeOK
<1>5. ~Alive /\ ~Working
  BY DEF Init, Alive, Working
<1>6. PhaseInv
  BY <1>1, <1>5 DEF Init, PhaseInv
<1>7. PlaceInv /\ SuperInv /\ RoomInv /\ EndInv
  BY <1>5 DEF Init, PlaceInv, SuperInv, RoomInv, EndInv
<1>8. KeptInv
  BY <1>5 DEF Init, KeptInv, NoObjects
<1> QED BY <1>3, <1>4, <1>6, <1>7, <1>8 DEF Init, IInv

\* A container that is open stays open, or a step closes it or ends the program.
LEMMA WorkingStep ==
  ASSUME IInv, Working, ContainerAssumption, BlankAssumption, ~CrashDirty, Next
  PROVE  IInv'
<1>1. (\E m : OpenInv(m)') => IInv'
  <2>1. (IsOpen => IInv)'
    BY OpenInvSuffices, PTL
  <2> QED BY <2>1 DEF IsOpen
<1>2. (\E m : ShutInv(m)') => IInv'
  <2>1. (IsShut => IInv)'
    BY ShutInvSuffices, PTL
  <2> QED BY <2>1 DEF IsShut
<1>3. PICK m : OpenInv(m)
  BY OpenInvHolds
<1>4. ct # "none" /\ ct # "closed" /\ ct # "flush_close"
  BY DEF Working
<1>5. CASE ofs_create_container \/ ofs_open_container
  BY <1>4, <1>5 DEF ofs_create_container, ofs_open_container
<1>6. ASSUME NEW o \in Objects,
             \/ ofs_create_object(o) \/ ofs_create_object_full(o)
             \/ ofs_open_object(o) \/ ofs_open_object_fails(o)
             \/ change_object(o) \/ ofs_close_object(o)
             \/ validate_one_user_object(o) \/ close_one_object(o)
      PROVE  IInv'
  <2>1. CASE ofs_create_object(o)
    BY <2>1, <1>3, <1>1, CreateStep
  <2>2. CASE ofs_create_object_full(o)
    BY <2>2, <1>3, FullStep
  <2>3. CASE ofs_open_object(o)
    BY <2>3, <1>3, <1>1, OpenObjectStep
  <2>4. CASE change_object(o)
    BY <2>4, <1>3, <1>1, ChangeStep
  <2>5. CASE ofs_close_object(o) \/ close_one_object(o)
    BY <2>5, <1>3, <1>1, CloseStep
  <2>6. CASE validate_one_user_object(o)
    BY <2>6, <1>3, <1>1, ValidateStep
  <2>7. CASE ofs_open_object_fails(o)
    BY <2>7, <1>3, <1>1, OpenFailsStep
  <2> QED BY <1>6, <2>1, <2>2, <2>3, <2>4, <2>5, <2>6, <2>7
<1>7. CASE commit_container_modification \/ close_container
  BY <1>7, <1>3, <1>1, BeginStep
<1>8. CASE validate_system_objects
  <2>1. CASE ct = "validate" /\ Unvalidated = {}
    BY <2>1, <1>8, <1>3, <1>1, MarkStep
  <2>2. CASE ct = "close" /\ Users = {}
    <3>1. (DoomedInv => IInv)'
      BY DoomedInvSuffices, PTL
    <3> QED BY <3>1, <2>2, <1>8, <1>3, <1>2, EndStep
  <2> QED BY <2>1, <2>2, <1>8 DEF validate_system_objects
<1>9. ASSUME NEW b \in Blocks, flush_block(b)
      PROVE  IInv'
  BY <1>9, <1>3, <1>1, FlushStep
<1>10. CASE FlushEnds
  BY <1>10, <1>3, <1>1, CommitStep
<1>11. CASE crash
  <2>1. Settled
    BY <1>11 DEF crash
  <2>2. CASE missing = {}
    BY <2>1, <2>2, <1>11, <1>3, <1>2, CrashStep
  <2>3. CASE missing # {}
    BY <2>1, <2>3, <1>11, <1>3, LostCrash
  <2> QED BY <2>2, <2>3
<1> QED BY <1>5, <1>6, <1>7, <1>8, <1>9, <1>10, <1>11 DEF Next, FlushEnds

\* A container that is not open is created, opened, or flushed for the last time.
LEMMA IdleStep ==
  ASSUME IInv, ~Working, ContainerAssumption, BlankAssumption, ~CrashDirty, Next
  PROVE  IInv'
<1>1. ct \notin {"open", "validate", "close", "flush_commit"}
  BY DEF Working
<1>2. ct \in {"flush_close", "closed"} =>
        IF "block" \in missing THEN ct = "flush_close" /\ DoomedInv ELSE ShutInv(M)
  BY ShutInvHolds, DoomedInvHolds DEF IInv, PhaseInv
<1>3. (\E m : OpenInv(m)') => IInv'
  <2>1. (IsOpen => IInv)'
    BY OpenInvSuffices, PTL
  <2> QED BY <2>1 DEF IsOpen
<1>4. (\E m : ShutInv(m)') => IInv'
  <2>1. (IsShut => IInv)'
    BY ShutInvSuffices, PTL
  <2> QED BY <2>1 DEF IsShut
<1>5. CASE ofs_create_container
  BY <1>5, <1>3, NewContainerStep
<1>6. CASE ofs_open_container
  <2>1. PICK m : ShutInv(m)
    BY <1>2, <1>6 DEF ofs_open_container
  <2> QED BY <2>1, <1>6, <1>3, ReopenStep
<1>7. ASSUME NEW b \in Blocks, flush_block(b)
      PROVE  IInv'
  <2>1. ct = "flush_close"
    BY <1>1, <1>7 DEF flush_block, Flushing
  <2>2. CASE "block" \in missing
    <3>1. (DoomedInv => IInv)'
      BY DoomedInvSuffices, PTL
    <3> QED BY <3>1, <2>1, <2>2, <1>2, <1>7, FlushDoomedStep
  <2>3. CASE "block" \notin missing
    <3>1. PICK m : ShutInv(m)
      BY <2>1, <2>3, <1>2
    <3> QED BY <3>1, <1>7, <1>4, FlushEndStep
  <2> QED BY <2>2, <2>3
<1>8. CASE FlushEnds
  <2>1. ct = "flush_close"
    BY <1>1, <1>8, FlushEndsAre
  <2>2. Rest /\ free \subseteq Blocks
    BY <2>1, <1>2 DEF ShutInv, DoomedInv
  <2>3. CASE ct' = "closed"
    <3>1. "block" \notin missing
      BY <2>3, <1>8, <2>1, <2>2, ClosedOnlyWhole
    <3>2. PICK m : ShutInv(m)
      BY <2>1, <3>1, <1>2
    <3> QED BY <3>2, <2>3, <1>8, <1>4, ClosedStep
  <2>4. CASE ct' # "closed"
    BY <2>1, <2>2, <2>4, <1>8, LostStep
  <2> QED BY <2>3, <2>4
<1>10. ASSUME NEW o \in Objects
       PROVE  /\ ~ofs_create_object(o) /\ ~ofs_create_object_full(o)
              /\ ~ofs_open_object(o) /\ ~ofs_open_object_fails(o)
              /\ ~change_object(o) /\ ~ofs_close_object(o)
              /\ ~validate_one_user_object(o) /\ ~close_one_object(o)
  BY <1>1 DEF ofs_create_object, ofs_create_object_full, ofs_open_object,
              ofs_open_object_fails, change_object, ofs_close_object,
              validate_one_user_object, close_one_object
<1>11. /\ ~commit_container_modification /\ ~close_container
       /\ ~validate_system_objects /\ ~crash
  BY <1>1 DEF commit_container_modification, close_container, validate_system_objects,
              crash, Settled
<1> QED BY <1>5, <1>6, <1>7, <1>8, <1>10, <1>11 DEF Next, FlushEnds

\* Every step keeps the invariant.
LEMMA StepInv ==
  ASSUME IInv, ContainerAssumption, BlankAssumption, ~CrashDirty, [Next]_vars
  PROVE  IInv'
<1>1. CASE Next
  BY <1>1, WorkingStep, IdleStep
<1>2. CASE UNCHANGED vars
  <2>1. UNCHANGED <<disk, disk_sb, file, missing, sb_id, flag_dirty, free, info,
                    cache, ct,
                    value, safe, reopened, changes>>
    BY <1>2 DEF vars, disks, memory, history, counters
  <2> QED BY <2>1 DEF IInv, TypeOK, PhaseInv, PlaceInv, SuperInv, RoomInv, EndInv, KeptInv,
                      Excluded, Alive, Working, Root, M, Map, Room, Users
<1> QED BY <1>1, <1>2
-----------------------------------------------------------------------------
(***************************************************************************)
(* What the invariant implies.                                             *)
(***************************************************************************)
\* Apart says it of every object, whether the handle or the map leads to it.
LEMMA PlacesOwned == IInv => InodesOwned
<1> SUFFICES ASSUME IInv, ct = "open"
             PROVE  /\ \A o \in Existing : Where(o) \notin free
                    /\ \A o, p \in Existing : o # p => Where(o) # Where(p)
  BY DEF InodesOwned
<1>1. PICK m, root : OpenInv(m) /\ m = Map /\ root = info[ID].vbn
  BY OpenInvHolds DEF Working
<1>2. Apart(info, free, m, root) /\ ID \in DOMAIN info
  BY <1>1 DEF OpenInv, Core
<1>3. Existing = Here(info, m)
  BY <1>1 DEF Existing, Here
<1>4. ASSUME NEW o
      PROVE  Where(o) = Loc(info, m, root, o)
  BY <1>1, <1>2 DEF Where, Loc
<1>5. ASSUME NEW o \in Existing
      PROVE  Where(o) \notin free
  BY <1>2, <1>3, <1>4 DEF Apart
<1>6. ASSUME NEW o \in Existing, NEW p \in Existing, o # p
      PROVE  Where(o) # Where(p)
  BY <1>2, <1>3, <1>4, <1>6 DEF Apart
<1> QED BY <1>5, <1>6

\* No entry of the cache is a free block, before the last flush and in it.
LEMMA FreeBlocksUncached == IInv => FreeUncached
<1> SUFFICES ASSUME IInv, ct # "aborted"
             PROVE  free \cap DOMAIN cache = {}
  BY DEF FreeUncached
<1>1. CASE Working
  <2>1. Core(info, cache, free, M, Root)
    BY <1>1 DEF IInv, PlaceInv, Room, Alive, Working
  <2> QED BY <2>1, FreeHasNoEntry
<1>2. CASE ct = "flush_close"
  BY <1>2 DEF IInv, EndInv
<1>3. CASE ct \in {"none", "closed", "lost"}
  BY <1>3 DEF IInv, PhaseInv
<1> QED BY <1>1, <1>2, <1>3 DEF IInv, PhaseInv, Working

\* What the inode of an object holds is on disk when the container is closed.
LEMMA CommittedIsOnDisk ==
  ContainerAssumption /\ BlankAssumption /\ IInv => DurableUnlessReopened
<1> SUFFICES ASSUME ContainerAssumption, BlankAssumption, IInv, ct = "closed",
                    NEW o \in Objects \ reopened
             PROVE  OnDisk(o) >= safe[o]
  BY DEF DurableUnlessReopened
<1>1. PICK m, root : ShutInv(m) /\ m = M /\ root = disk_sb.id
  <2>1. missing = {}
    BY DEF IInv, PhaseInv
  <2> QED BY <2>1, ShutInvHolds
<1>2. DOMAIN cache = {} /\ DOMAIN info = {} /\ Root = root
  BY <1>1 DEF ShutInv, Root, Working
<1>3. Core(info, cache, Room, m, root) /\ disk[root] = Index(m) /\ Rest
  BY <1>1, <1>2 DEF ShutInv, At
<1>4. m \in [Objects -> {0} \cup Blocks]
  BY <1>3 DEF Core, Mapped
<1>5. disk[root] # Blank /\ disk[root].obj = ID /\ disk[root].val = m /\ root # 0
  <2>0. root # 0
    BY <1>3 DEF Core, Apart, Here, Loc, ContainerAssumption
  <2>1. Index(m) \in Content
    BY <1>4 DEF Index, Content
  <2> QED BY <2>0, <2>1, <1>3 DEF Index, BlankAssumption
<1>6. Kept(o, value[o], info, cache, disk, m, ct)
  BY <1>1 DEF ShutInv, KeptAll, Excluded
<1>7. safe[o] \in Nat /\ value[o] \in Nat /\ safe[o] <= value[o] /\ MaxChanges \in Nat
  BY <1>3 DEF Rest, ContainerAssumption
<1>8. CASE m[o] = 0
  <2>1. value[o] = 0
    BY <1>2, <1>6, <1>8 DEF Kept
  <2>2. OnDisk(o) = 0
    BY <1>1, <1>5, <1>8 DEF OnDisk
  <2> QED BY <1>7, <2>1, <2>2
<1>9. CASE m[o] # 0
  <2>1. PICK c : c = disk[m[o]]
    OBVIOUS
  <2>2. c.obj = o /\ c \in [obj : {o}, val : value[o] .. MaxChanges]
    BY <1>2, <1>6, <1>9, <2>1 DEF Kept, Holds, At
  <2>3. c.val \in value[o] .. MaxChanges /\ c.val \in 0 .. MaxChanges
    BY <2>2, <1>7
  <2>4. c \in Content
    <3>1. c = [obj |-> o, val |-> c.val]
      BY <2>2
    <3>2. [obj |-> o, val |-> c.val] \in [obj : Objects, val : 0 .. MaxChanges]
      BY <2>3
    <3> QED BY <3>1, <3>2 DEF Content
  <2>5. OnDisk(o) = c.val
    BY <1>1, <1>5, <1>9, <2>1, <2>2, <2>4 DEF OnDisk, BlankAssumption
  <2> QED BY <2>3, <2>5, <1>7
<1> QED BY <1>8, <1>9
-----------------------------------------------------------------------------
(***************************************************************************)
(* The theorems.  Their hypothesis is that a crash happens only when       *)
(* nothing waits to be written: the run ContainerCrash shows what is lost  *)
(* otherwise.                                                              *)
(***************************************************************************)
\* Whatever calls, commits, crashes, openings, failing reads and writes and lost
\* buffers happen, the inodes stay in their places; while no block and no super
\* block was lost, the disk has them and the super block leads to them.
THEOREM SpecIInv ==
  ASSUME ~CrashDirty
  PROVE  Spec => []IInv
<1>1. Init => IInv
  BY InitInv, ContainerAssumption
<1>2. IInv /\ [Next]_vars => IInv'
  BY StepInv, ContainerAssumption, BlankAssumption
<1> QED BY <1>1, <1>2, PTL DEF Spec

\* Every variable keeps its type: in particular each cache entry is an inode,
\* and only an entry with changes waits for the flush (release_obj_cache).
THEOREM SpecTypeOK ==
  ASSUME ~CrashDirty
  PROVE  Spec => []TypeOK
<1>1. IInv => TypeOK
  BY DEF IInv
<1> QED BY <1>1, SpecIInv, PTL

\* No two objects share an inode block and $OBJID never leads to a free block,
\* although set_ib_dirty moves inodes and frees their old blocks at once.
THEOREM SpecInodesOwned ==
  ASSUME ~CrashDirty
  PROVE  Spec => []InodesOwned
BY PlacesOwned, SpecIInv, PTL

\* A free block has no entry in the metadata cache, so that change_obj_cache_vbn
\* never meets an entry where an inode moves to.
THEOREM SpecFreeUncached ==
  ASSUME ~CrashDirty
  PROVE  Spec => []FreeUncached
BY FreeBlocksUncached, SpecIInv, PTL

\* A change that was acknowledged before the last commit or close is found again
\* when the container is opened, unless ofs_open_object read its inode while it
\* waited to be written, or the file lacks a write that was counted as done: the
\* super block that flush_container_cache could not write and wrote again later
\* is not one of those, the one it has forgotten with FLAG_DIRTY is.
THEOREM SpecDurable ==
  ASSUME ~CrashDirty
  PROVE  Spec => []DurableUnlessReopened
<1>1. IInv => DurableUnlessReopened
  BY CommittedIsOnDisk, ContainerAssumption, BlankAssumption
<1> QED BY <1>1, SpecIInv, PTL
=============================================================================
