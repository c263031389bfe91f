------------------------- MODULE SpaceManagerProofs -------------------------
(***************************************************************************)
(* Proofs about SpaceManager, for every pool, request size, tree shape and *)
(* number of failed tree operations, provided that the lengths fit the     *)
(* uint32_t variables of alloc_space and free_space (Fits).                *)
(***************************************************************************)
EXTENDS SpaceManager, FiniteSetTheorems, TLAPS

Fits == BlkCnt < LenMod

ExtentType == [addr : Pool, len : 1 .. BlkCnt]

InPool(X) ==
  /\ X \subseteq ExtentType
  /\ \A e \in X : e.addr + e.len <= FirstBlk + BlkCnt

Disjoint(X) == \A e, f \in X : e # f => Blocks(e) \cap Blocks(f) = {}

(***************************************************************************)
(* Arithmetic of ranges and lengths.                                       *)
(***************************************************************************)

\* A range is the set of integers from its start to before its end.
LEMMA InRun ==
  ASSUME NEW s \in Int, NEW n \in Int, NEW b
  PROVE  b \in Run(s, n) <=> b \in Int /\ s <= b /\ b < s + n
BY DEF Run

\* A length that fits is stored unchanged.
LEMMA U32Id ==
  ASSUME Fits, NEW n \in 0 .. BlkCnt
  PROVE  U32(n) = n
BY SpaceAssumption DEF Fits, U32

\* The entries of the pool: their fields and their blocks as plain arithmetic.
LEMMA ExtentFacts ==
  ASSUME NEW X, InPool(X), NEW e \in X
  PROVE  /\ e.addr \in Int /\ e.len \in Int
         /\ FirstBlk <= e.addr /\ 1 <= e.len
         /\ e.len <= BlkCnt
         /\ e.addr + e.len <= FirstBlk + BlkCnt
         /\ \A b : b \in Blocks(e) <=> b \in Int /\ e.addr <= b /\ b < e.addr + e.len
         /\ Blocks(e) \subseteq Pool
<1>1. /\ e.addr \in Int /\ e.len \in Int
      /\ FirstBlk <= e.addr /\ 1 <= e.len
      /\ e.len <= BlkCnt
      /\ e.addr + e.len <= FirstBlk + BlkCnt
  BY SpaceAssumption DEF InPool, ExtentType, Pool, Run
<1>2. \A b : b \in Blocks(e) <=> b \in Int /\ e.addr <= b /\ b < e.addr + e.len
  BY <1>1, InRun DEF Blocks
<1>3. Blocks(e) \subseteq Pool
  BY <1>1, <1>2, SpaceAssumption DEF Pool, Run
<1>. QED  BY <1>1, <1>2, <1>3

\* Two entries of a disjoint set that share a block are the same entry.
LEMMA SharedBlock ==
  ASSUME NEW X, Disjoint(X), NEW e \in X, NEW f \in X,
         NEW b, b \in Blocks(e), b \in Blocks(f)
  PROVE  e = f
BY DEF Disjoint

\* Replacing entries R by entries K that touch no other entry keeps the set
\* disjoint; what is covered changes by what R and K cover.
LEMMA Replace ==
  ASSUME NEW X, Disjoint(X), NEW R, R \subseteq X, NEW K, Disjoint(K),
         Cover(K) \cap Cover(X \ R) = {}
  PROVE  /\ Disjoint((X \ R) \cup K)
         /\ Cover((X \ R) \cup K) = (Cover(X) \ Cover(R)) \cup Cover(K)
<1>1. \A e \in X \ R : \A f \in K : Blocks(e) \cap Blocks(f) = {}
  BY DEF Cover
<1>2. Disjoint((X \ R) \cup K)
  BY <1>1 DEF Disjoint
<1>3. Cover((X \ R) \cup K) = Cover(X \ R) \cup Cover(K)
  BY DEF Cover
<1>4. Cover(X \ R) = Cover(X) \ Cover(R)
  BY DEF Cover, Disjoint
<1>. QED  BY <1>2, <1>3, <1>4

\* Replacing entries by a single one.
LEMMA ReplaceByOne ==
  ASSUME NEW X, Disjoint(X), NEW R, R \subseteq X,
         NEW m, Blocks(m) \cap Cover(X \ R) = {}
  PROVE  /\ Disjoint((X \ R) \cup {m})
         /\ Cover((X \ R) \cup {m}) = (Cover(X) \ Cover(R)) \cup Blocks(m)
<1>1. Cover({m}) = Blocks(m)
  BY DEF Cover
<1>2. Disjoint({m})
  BY DEF Disjoint
<1>. QED  BY <1>1, <1>2, Replace
-----------------------------------------------------------------------------
(***************************************************************************)
(* alloc_space.                                                            *)
(***************************************************************************)

Kept(e, s, c) == Before(e, s, c) \cup After(e, s, c)

\* The entry taken is split into the allocated run and the parts before and
\* after it, which are again entries of the pool and disjoint.
LEMMA AllocSplit ==
  ASSUME Fits, NEW X, InPool(X), NEW e \in X, NEW s \in Nat, NEW c \in Nat \ {0}
  PROVE  /\ Start(e, s, c) \in Int
         /\ e.addr <= Start(e, s, c)
         /\ Start(e, s, c) < End(e)
         /\ End(e) = e.addr + e.len
         /\ Count(e, s, c) \in 1 .. c
         /\ Start(e, s, c) + Count(e, s, c) <= e.addr + e.len
         /\ Taken(e, s, c) \subseteq Blocks(e)
         /\ InPool(Kept(e, s, c))
         /\ Disjoint(Kept(e, s, c))
         /\ Cover(Kept(e, s, c)) = Blocks(e) \ Taken(e, s, c)
<1> DEFINE st == Start(e, s, c)
           n  == Count(e, s, c)
           h  == [addr |-> e.addr, len |-> st - e.addr]
           t  == [addr |-> st + c, len |-> e.addr + e.len - (st + c)]
<1>1. /\ e.addr \in Int /\ e.len \in Int
      /\ FirstBlk <= e.addr /\ 1 <= e.len
      /\ e.len <= BlkCnt
      /\ e.addr + e.len <= FirstBlk + BlkCnt
      /\ \A b : b \in Blocks(e) <=> b \in Int /\ e.addr <= b /\ b < e.addr + e.len
  BY ExtentFacts
<1>2. End(e) = e.addr + e.len
  BY <1>1, U32Id, SpaceAssumption DEF End
<1>3. st \in Int /\ e.addr <= st /\ st < e.addr + e.len
  BY <1>1 DEF Start, Overlaps
<1>4. n \in 1 .. c /\ st + n <= e.addr + e.len
  BY <1>1, <1>2, <1>3 DEF Count
<1>5. \A b : b \in Taken(e, s, c) <=> b \in Int /\ st <= b /\ b < st + n
  BY <1>3, <1>4, InRun DEF Taken
<1>6. Taken(e, s, c) \subseteq Blocks(e)
  BY <1>1, <1>3, <1>4, <1>5
<1>7. Before(e, s, c) = IF st > e.addr THEN {h} ELSE {}
  BY DEF Before
<1>8. After(e, s, c) = IF st + c < e.addr + e.len THEN {t} ELSE {}
  BY <1>1, <1>2, <1>3 DEF After
<1>9. InPool(Before(e, s, c))
  BY <1>1, <1>3, <1>7, SpaceAssumption DEF InPool, ExtentType, Pool, Run
<1>10. InPool(After(e, s, c))
  BY <1>1, <1>3, <1>8, SpaceAssumption DEF InPool, ExtentType, Pool, Run
<1>11. InPool(Kept(e, s, c))
  BY <1>9, <1>10 DEF InPool, Kept
<1>12. \A b : b \in Cover(Before(e, s, c)) <=> b \in Int /\ e.addr <= b /\ b < st
  <2>1. CASE st > e.addr
    <3>1. Cover({h}) = Run(e.addr, st - e.addr)
      BY DEF Cover, Blocks
    <3>. QED  BY <2>1, <3>1, <1>1, <1>3, <1>7, InRun
  <2>2. CASE ~(st > e.addr)
    BY <2>2, <1>1, <1>3, <1>7 DEF Cover
  <2>. QED  BY <2>1, <2>2
<1>13. \A b : b \in Cover(After(e, s, c)) <=> b \in Int /\ st + n <= b /\ b < e.addr + e.len
  <2>1. CASE st + c < e.addr + e.len
    <3>1. n = c
      BY <2>1, <1>2 DEF Count
    <3>2. Cover({t}) = Run(st + c, e.addr + e.len - (st + c))
      BY DEF Cover, Blocks
    <3>. QED  BY <2>1, <3>1, <3>2, <1>1, <1>3, <1>8, InRun
  <2>2. CASE ~(st + c < e.addr + e.len)
    <3>1. st + n = e.addr + e.len
      BY <2>2, <1>1, <1>2, <1>3 DEF Count
    <3>. QED  BY <2>2, <3>1, <1>1, <1>3, <1>8 DEF Cover
  <2>. QED  BY <2>1, <2>2
<1>14. Cover(Kept(e, s, c)) = Cover(Before(e, s, c)) \cup Cover(After(e, s, c))
  BY DEF Cover, Kept
<1>15. Cover(Kept(e, s, c)) = Blocks(e) \ Taken(e, s, c)
  BY <1>1, <1>3, <1>4, <1>5, <1>12, <1>13, <1>14
<1>16. Cover(Before(e, s, c)) \cap Cover(After(e, s, c)) = {}
  BY <1>3, <1>4, <1>12, <1>13
<1>17. Disjoint(Kept(e, s, c))
  <2>1. \A x, y : x \in Before(e, s, c) /\ y \in Before(e, s, c) => x = y
    BY <1>7
  <2>2. \A x, y : x \in After(e, s, c) /\ y \in After(e, s, c) => x = y
    BY <1>8
  <2>3. \A x, y : x \in Before(e, s, c) /\ y \in After(e, s, c) => Blocks(x) \cap Blocks(y) = {}
    BY <1>16 DEF Cover
  <2>. QED  BY <2>1, <2>2, <2>3 DEF Disjoint, Kept
<1>. QED  BY <1>2, <1>3, <1>4, <1>6, <1>11, <1>15, <1>17

\* Every entry the search returns is an entry of the tree.
LEMMA CandidateInTree ==
  ASSUME NEW s, NEW c, NEW e \in Candidates(s, c)
  PROVE  e \in extents
BY DEF Candidates, Found, Near, Overlapping, Lowest
-----------------------------------------------------------------------------
(***************************************************************************)
(* free_space.                                                             *)
(***************************************************************************)

\* At most one entry starts at a block and at most one ends there.
LEMMA OneNeighbour ==
  ASSUME InPool(extents), Disjoint(extents), NEW s \in Int, NEW c \in Int
  PROVE  /\ \A e, f \in NextOf(s, c) : e = f
         /\ \A e, f \in PrevOf(s) : e = f
<1>1. ASSUME NEW e \in NextOf(s, c), NEW f \in NextOf(s, c)
      PROVE  e = f
  <2>1. e \in extents /\ f \in extents /\ e.addr = s + c /\ f.addr = s + c
    BY DEF NextOf
  <2>2. s + c \in Blocks(e) /\ s + c \in Blocks(f)
    BY <2>1, ExtentFacts
  <2>. QED  BY <2>1, <2>2, SharedBlock
<1>2. ASSUME NEW e \in PrevOf(s), NEW f \in PrevOf(s)
      PROVE  e = f
  <2>1. e \in extents /\ f \in extents /\ e.addr + e.len = s /\ f.addr + f.len = s
    BY DEF PrevOf
  <2>2. s - 1 \in Blocks(e) /\ s - 1 \in Blocks(f)
    BY <2>1, ExtentFacts
  <2>. QED  BY <2>1, <2>2, SharedBlock
<1>. QED  BY <1>1, <1>2

\* The merged entry covers the freed run and the entries it replaces, nothing
\* else, and is an entry of the pool.
LEMMA MergedFacts ==
  ASSUME Fits, InPool(extents), Disjoint(extents),
         NEW s \in Int, NEW c \in Nat \ {0}, Run(s, c) \subseteq Pool,
         NEW P \in MergedPrev(s, c)
  PROVE  /\ NextOf(s, c) \cup P \subseteq extents
         /\ InPool({Merged(s, c, P)})
         /\ Blocks(Merged(s, c, P)) = Cover(NextOf(s, c) \cup P) \cup Run(s, c)
<1> DEFINE N  == NextOf(s, c)
           nl == IF N = {} THEN 0 ELSE U32(Only(N).len)
           pl == IF P = {} THEN 0 ELSE U32(Only(P).len)
           lo == IF P = {} THEN s ELSE Only(P).addr
           m  == Merged(s, c, P)
<1>1. P = {} \/ P = PrevOf(s)
  BY DEF MergedPrev
<1>2. N \subseteq extents /\ P \subseteq extents
  BY <1>1 DEF NextOf, PrevOf
<1>3. \A b : b \in Run(s, c) <=> b \in Int /\ s <= b /\ b < s + c
  BY InRun
<1>4. FirstBlk <= s /\ s + c <= FirstBlk + BlkCnt
  <2>1. s \in Run(s, c) /\ s + c - 1 \in Run(s, c)
    BY <1>3
  <2>. QED  BY <2>1, SpaceAssumption DEF Pool, Run
<1>5. /\ nl \in Nat /\ s + c + nl <= FirstBlk + BlkCnt
      /\ \A b : b \in Cover(N) <=> b \in Int /\ s + c <= b /\ b < s + c + nl
  <2>1. CASE N = {}
    BY <2>1, <1>4 DEF Cover
  <2>2. CASE N # {}
    <3>1. Only(N) \in N
      BY <2>2 DEF Only
    <3>2. N = {Only(N)}
      BY <3>1, OneNeighbour
    <3>3. Only(N) \in extents /\ Only(N).addr = s + c
      BY <3>1 DEF NextOf
    <3>4. /\ Only(N).len \in Int /\ 1 <= Only(N).len /\ Only(N).len <= BlkCnt
          /\ Only(N).addr + Only(N).len <= FirstBlk + BlkCnt
          /\ \A b : b \in Blocks(Only(N)) <=>
               b \in Int /\ Only(N).addr <= b /\ b < Only(N).addr + Only(N).len
      BY <3>3, ExtentFacts
    <3>5. nl = Only(N).len
      BY <2>2, <3>4, U32Id, SpaceAssumption
    <3>6. Cover(N) = Blocks(Only(N))
      BY <3>2 DEF Cover
    <3>. HIDE DEF N, nl
    <3>. QED  BY <3>3, <3>4, <3>5, <3>6
  <2>. QED  BY <2>1, <2>2
<1>6. /\ pl \in Nat /\ lo \in Int /\ lo + pl = s /\ FirstBlk <= lo
      /\ \A b : b \in Cover(P) <=> b \in Int /\ lo <= b /\ b < s
  <2>1. CASE P = {}
    BY <2>1, <1>4 DEF Cover
  <2>2. CASE P # {}
    <3>1. Only(P) \in P
      BY <2>2 DEF Only
    <3>2. P = {Only(P)}
      BY <3>1, <1>1, OneNeighbour
    <3>3. Only(P) \in extents /\ Only(P).addr + Only(P).len = s
      BY <3>1, <1>1 DEF PrevOf
    <3>4. /\ Only(P).addr \in Int /\ FirstBlk <= Only(P).addr
          /\ Only(P).len \in Int /\ 1 <= Only(P).len /\ Only(P).len <= BlkCnt
          /\ \A b : b \in Blocks(Only(P)) <=>
               b \in Int /\ Only(P).addr <= b /\ b < Only(P).addr + Only(P).len
      BY <3>3, ExtentFacts
    <3>5. pl = Only(P).len /\ lo = Only(P).addr
      BY <2>2, <3>4, U32Id, SpaceAssumption
    <3>6. Cover(P) = Blocks(Only(P))
      BY <3>2 DEF Cover
    <3>. HIDE DEF pl, lo
    <3>. QED  BY <3>3, <3>4, <3>5, <3>6
  <2>. QED  BY <2>1, <2>2
<1>7. U32(c + nl + pl) = c + nl + pl
  <2>. HIDE DEF nl, pl, lo
  <2>1. c + nl + pl \in 0 .. BlkCnt
    BY <1>4, <1>5, <1>6, SpaceAssumption
  <2>. QED  BY <2>1, U32Id
<1>8. m = [addr |-> lo, len |-> c + nl + pl]
  BY <1>7 DEF Merged
<1>. HIDE DEF N, nl, pl, lo, m
<1>9. \A b : b \in Blocks(m) <=> b \in Int /\ lo <= b /\ b < lo + (c + nl + pl)
  BY <1>5, <1>6, <1>8, InRun DEF Blocks
<1>10. InPool({m})
  BY <1>4, <1>5, <1>6, <1>8, SpaceAssumption DEF InPool, ExtentType, Pool, Run
<1>11. Cover(N \cup P) = Cover(N) \cup Cover(P)
  BY DEF Cover
<1>12. Blocks(m) = Cover(N \cup P) \cup Run(s, c)
  <2>1. ASSUME NEW b
        PROVE  b \in Blocks(m) <=> b \in Cover(N) \/ b \in Cover(P) \/ b \in Run(s, c)
    BY <1>3, <1>5, <1>6, <1>9
  <2>. QED  BY <2>1, <1>11
<1>. QED  BY <1>2, <1>10, <1>12 DEF N, m
-----------------------------------------------------------------------------
(***************************************************************************)
(* The inductive invariant.  Disjointness alone is not inductive: that the *)
(* entry made by free_space touches no other entry follows from the freed  *)
(* run being owned, hence not free, which is Conservation.                 *)
(***************************************************************************)
IInv == TypeOK /\ ExtentsDisjoint /\ Conservation

\* The invariant in terms of sets of entries.
LEMMA IInvFacts ==
  ASSUME IInv
  PROVE  InPool(extents) /\ Disjoint(extents) /\ FreeBlocks = Cover(extents)
BY DEF IInv, TypeOK, ExtentsDisjoint, InPool, ExtentType, Disjoint, FreeBlocks, Cover

\* The same facts about the next state give the invariant back.
LEMMA IInvNext ==
  ASSUME InPool(extents'), Disjoint(extents'),
         first_free_block' \in 0 .. (FirstBlk + BlkCnt),
         total_free_blocks' \in Nat,
         used' \subseteq Pool, lost' \subseteq Pool,
         drift' \in BOOLEAN, faults' \in 0 .. MaxFaults, height' \in {1, 2},
         Cover(extents') \cup used' \cup lost' = Pool,
         Cover(extents') \cap used' = {}, Cover(extents') \cap lost' = {},
         used' \cap lost' = {}, faults' = 0 => lost' = {}
  PROVE  IInv'
BY DEF IInv, TypeOK, ExtentsDisjoint, Conservation, InPool, ExtentType, Disjoint,
       FreeBlocks, Cover

\* Replacing one entry by parts of it.
LEMMA ReplaceOne ==
  ASSUME NEW X, InPool(X), Disjoint(X), NEW e \in X,
         NEW K, InPool(K), Disjoint(K), Cover(K) \subseteq Blocks(e)
  PROVE  /\ InPool((X \ {e}) \cup K)
         /\ Disjoint((X \ {e}) \cup K)
         /\ Cover((X \ {e}) \cup K) = (Cover(X) \ Blocks(e)) \cup Cover(K)
<1>1. Cover({e}) = Blocks(e)
  BY DEF Cover
<1>2. Blocks(e) \cap Cover(X \ {e}) = {}
  BY DEF Cover, Disjoint
<1>3. /\ Disjoint((X \ {e}) \cup K)
      /\ Cover((X \ {e}) \cup K) = (Cover(X) \ Cover({e})) \cup Cover(K)
  BY <1>2, Replace, {e} \subseteq X
<1>4. InPool((X \ {e}) \cup K)
  BY DEF InPool
<1>. QED  BY <1>1, <1>3, <1>4

\* The facts of the invariant about the blocks, as the steps below use them.
LEMMA IInvBlocks ==
  ASSUME IInv
  PROVE  /\ first_free_block \in 0 .. (FirstBlk + BlkCnt)
         /\ total_free_blocks \in Nat
         /\ used \subseteq Pool /\ lost \subseteq Pool
         /\ drift \in BOOLEAN /\ faults \in 0 .. MaxFaults /\ height \in {1, 2}
         /\ Cover(extents) \cup used \cup lost = Pool
         /\ Cover(extents) \cap used = {}
         /\ Cover(extents) \cap lost = {}
         /\ used \cap lost = {}
         /\ faults = 0 => lost = {}
BY DEF IInv, TypeOK, Conservation, FreeBlocks

\* What sm_alloc_space does to the free blocks: one run leaves, nothing else.
LEMMA AllocEffect ==
  ASSUME Fits, IInv, NEW c \in 1 .. MaxCnt, sm_alloc_space(c)
  PROVE  \E a \in Int, n \in 1 .. c :
           /\ FirstBlk <= a /\ a + n <= FirstBlk + BlkCnt
           /\ Run(a, n) \subseteq Cover(extents)
           /\ InPool(extents') /\ Disjoint(extents')
           /\ Cover(extents') = Cover(extents) \ Run(a, n)
           /\ used' = used \cup Run(a, n) /\ lost' = lost /\ faults' = faults
           /\ first_free_block' = a + n
           /\ total_free_blocks' = IF total_free_blocks < n
                                   THEN total_free_blocks
                                   ELSE total_free_blocks - n
           /\ drift' = (drift \/ total_free_blocks < n \/ lost' # lost)
<1> DEFINE s == first_free_block
<1>1. InPool(extents) /\ Disjoint(extents)
  BY IInvFacts
<1>2. s \in Nat /\ c \in Nat \ {0}
  BY SpaceAssumption DEF IInv, TypeOK
<1>3. PICK e \in Candidates(s, c) :
        /\ alloc_space(e, c)
        /\ first_free_block' = Start(e, s, c) + Count(e, s, c)
        /\ total_free_blocks' = IF total_free_blocks < Count(e, s, c)
                                THEN total_free_blocks
                                ELSE total_free_blocks - Count(e, s, c)
        /\ drift' = (drift \/ total_free_blocks < Count(e, s, c) \/ lost' # lost)
  BY DEF sm_alloc_space
<1>4. e \in extents
  BY CandidateInTree
<1>. HIDE DEF s
<1>5. /\ Start(e, s, c) \in Int
      /\ e.addr <= Start(e, s, c)
      /\ Count(e, s, c) \in 1 .. c
      /\ Start(e, s, c) + Count(e, s, c) <= e.addr + e.len
      /\ Taken(e, s, c) \subseteq Blocks(e)
      /\ InPool(Kept(e, s, c))
      /\ Disjoint(Kept(e, s, c))
      /\ Cover(Kept(e, s, c)) = Blocks(e) \ Taken(e, s, c)
  BY <1>1, <1>2, <1>4, AllocSplit
<1>6. /\ extents' = (extents \ {e}) \cup Kept(e, s, c)
      /\ used' = used \cup Taken(e, s, c)
      /\ lost' = lost \cup (Blocks(e) \ (Cover(Kept(e, s, c)) \cup Taken(e, s, c)))
  BY <1>3 DEF alloc_space, Kept, Cover, s
<1>7. lost' = lost
  BY <1>5, <1>6
<1>8. /\ InPool(extents') /\ Disjoint(extents')
      /\ Cover(extents') = (Cover(extents) \ Blocks(e)) \cup Cover(Kept(e, s, c))
  <2>1. Cover(Kept(e, s, c)) \subseteq Blocks(e)
    BY <1>5
  <2>. QED  BY <2>1, <1>1, <1>4, <1>5, <1>6, ReplaceOne
<1>9. Blocks(e) \subseteq Cover(extents)
  BY <1>4 DEF Cover
<1>10. Cover(extents') = Cover(extents) \ Taken(e, s, c)
  BY <1>5, <1>8, <1>9
<1>11. e.addr \in Int /\ e.len \in Int /\ FirstBlk <= e.addr
       /\ e.addr + e.len <= FirstBlk + BlkCnt
  BY <1>1, <1>4, ExtentFacts
<1>12. FirstBlk <= Start(e, s, c) /\ Start(e, s, c) + Count(e, s, c) <= FirstBlk + BlkCnt
  BY <1>5, <1>11, SpaceAssumption
<1>13. faults' = faults
  BY DEF sm_alloc_space
<1> DEFINE a == Start(e, s, c)
           n == Count(e, s, c)
<1>14. Taken(e, s, c) = Run(a, n)
  BY DEF Taken
<1>15. a \in Int /\ n \in 1 .. c
  BY <1>5
<1>16. /\ FirstBlk <= a /\ a + n <= FirstBlk + BlkCnt
       /\ Run(a, n) \subseteq Cover(extents)
       /\ InPool(extents') /\ Disjoint(extents')
       /\ Cover(extents') = Cover(extents) \ Run(a, n)
       /\ used' = used \cup Run(a, n) /\ lost' = lost /\ faults' = faults
       /\ first_free_block' = a + n
  BY <1>3, <1>5, <1>6, <1>7, <1>8, <1>9, <1>10, <1>12, <1>13, <1>14 DEF s
<1>17. /\ total_free_blocks' = IF total_free_blocks < n
                                THEN total_free_blocks
                                ELSE total_free_blocks - n
       /\ drift' = (drift \/ total_free_blocks < n \/ lost' # lost)
  BY <1>3 DEF s
<1>. HIDE DEF a, n
<1>. QED  BY <1>15, <1>16, <1>17

\* The step of sm_alloc_space.
LEMMA AllocStepInv ==
  ASSUME Fits, IInv, NEW c \in 1 .. MaxCnt, sm_alloc_space(c),
         height' = height
  PROVE  IInv'
<1>1. PICK a \in Int, n \in 1 .. c :
        /\ FirstBlk <= a /\ a + n <= FirstBlk + BlkCnt
        /\ Run(a, n) \subseteq Cover(extents)
        /\ InPool(extents') /\ Disjoint(extents')
        /\ Cover(extents') = Cover(extents) \ Run(a, n)
        /\ used' = used \cup Run(a, n) /\ lost' = lost /\ faults' = faults
        /\ first_free_block' = a + n
        /\ total_free_blocks' = IF total_free_blocks < n
                                THEN total_free_blocks
                                ELSE total_free_blocks - n
        /\ drift' = (drift \/ total_free_blocks < n \/ lost' # lost)
  BY AllocEffect
<1>2. /\ first_free_block' \in 0 .. (FirstBlk + BlkCnt)
      /\ total_free_blocks' \in Nat
  BY <1>1, IInvBlocks, SpaceAssumption
<1>3. drift' \in BOOLEAN
  BY <1>1
<1>4. /\ Cover(extents') \cup used' \cup lost' = Pool
      /\ Cover(extents') \cap used' = {}
      /\ Cover(extents') \cap lost' = {}
      /\ used' \cap lost' = {}
      /\ used' \subseteq Pool /\ lost' \subseteq Pool
  BY <1>1, IInvBlocks
<1>. QED  BY <1>1, <1>2, <1>3, <1>4, IInvBlocks, IInvNext

\* Fewer entries are again disjoint entries of the pool.
LEMMA FewerEntries ==
  ASSUME NEW Y, InPool(Y), Disjoint(Y), NEW X, X \subseteq Y
  PROVE  InPool(X) /\ Disjoint(X) /\ Cover(X) \subseteq Cover(Y)
BY DEF InPool, Disjoint, Cover

\* What a failing allocation leaves are entries it met, or parts of the one it
\* was to take.
LEMMA AllocLeavesFacts ==
  ASSUME Fits, InPool(extents), Disjoint(extents),
         NEW e \in extents, NEW s \in Nat, NEW c \in Nat \ {0},
         NEW X \in AllocLeaves(e, s, c)
  PROVE  /\ \/ X \subseteq extents
            \/ X \subseteq (extents \ {e}) \cup Kept(e, s, c)
         /\ InPool(X) /\ Disjoint(X) /\ Cover(X) \subseteq Cover(extents)
<1> DEFINE Y == (extents \ {e}) \cup Kept(e, s, c)
<1>1. PICK l \in Left(extents \ {e}),
           k \in {{e}, {}, Before(e, s, c), Before(e, s, c) \cup After(e, s, c)} :
        X = l \cup k
  <2> DEFINE K == {{e}, {}, Before(e, s, c), Before(e, s, c) \cup After(e, s, c)}
             L == Left(extents \ {e})
  <2>1. X \in UNION {{l \cup k : l \in L} : k \in K}
    BY DEF AllocLeaves
  <2>. HIDE DEF K, L
  <2>2. \E k \in K : X \in {l \cup k : l \in L}
    BY <2>1
  <2>3. \E k \in K : \E l \in L : X = l \cup k
    BY <2>2
  <2>. QED  BY <2>3 DEF K, L
<1>2. l \subseteq extents \ {e}
  BY DEF Left
<1>3. X \subseteq extents \/ X \subseteq Y
  BY <1>1, <1>2 DEF Kept
<1>4. /\ InPool(Kept(e, s, c)) /\ Disjoint(Kept(e, s, c))
      /\ Cover(Kept(e, s, c)) \subseteq Blocks(e)
  BY AllocSplit
<1>5. /\ InPool(Y) /\ Disjoint(Y)
      /\ Cover(Y) = (Cover(extents) \ Blocks(e)) \cup Cover(Kept(e, s, c))
  BY <1>4, ReplaceOne
<1>6. Blocks(e) \subseteq Cover(extents)
  BY DEF Cover
<1>7. Cover(Y) \subseteq Cover(extents)
  BY <1>4, <1>5, <1>6
<1>. HIDE DEF Y
<1>8. CASE X \subseteq extents
  BY <1>8, FewerEntries
<1>9. CASE X \subseteq Y
  <2>1. InPool(X) /\ Disjoint(X) /\ Cover(X) \subseteq Cover(Y)
    BY <1>5, <1>9, FewerEntries
  <2>. QED  BY <2>1, <1>7, <1>9 DEF Y
<1>. QED  BY <1>3, <1>8, <1>9

\* What the failing sm_alloc_space does to the blocks.
LEMMA AllocFailsEffect ==
  ASSUME Fits, IInv, NEW c \in 1 .. MaxCnt, sm_alloc_space_fails(c)
  PROVE  /\ InPool(extents') /\ Disjoint(extents')
         /\ Cover(extents') \subseteq Cover(extents)
         /\ lost' = lost \cup (Cover(extents) \ Cover(extents'))
         /\ used' = used
<1>1. InPool(extents) /\ Disjoint(extents)
  BY IInvFacts
<1>2. first_free_block \in Nat /\ c \in Nat \ {0}
  BY SpaceAssumption DEF IInv, TypeOK
<1>3. PICK e \in Candidates(first_free_block, c) :
        extents' \in AllocLeaves(e, first_free_block, c)
  BY DEF sm_alloc_space_fails
<1>4. e \in extents
  BY CandidateInTree
<1>5. /\ InPool(extents') /\ Disjoint(extents')
      /\ Cover(extents') \subseteq Cover(extents)
  BY <1>1, <1>2, <1>3, <1>4, AllocLeavesFacts
<1>6. used' = used /\ lost' = lost \cup (Cover(extents) \ Cover(extents'))
  BY DEF sm_alloc_space_fails, FreeBlocks
<1>. QED  BY <1>5, <1>6

\* The step of sm_alloc_space whose tree operation failed.
LEMMA AllocFailsInv ==
  ASSUME Fits, IInv, NEW c \in 1 .. MaxCnt, sm_alloc_space_fails(c),
         height' = height
  PROVE  IInv'
<1>1. /\ InPool(extents') /\ Disjoint(extents')
      /\ Cover(extents') \subseteq Cover(extents)
      /\ lost' = lost \cup (Cover(extents) \ Cover(extents'))
      /\ used' = used
  BY AllocFailsEffect
<1>2. /\ faults \in Nat /\ faults < MaxFaults /\ faults' = faults + 1
      /\ drift' \in BOOLEAN
      /\ first_free_block' \in {0, first_free_block}
      /\ total_free_blocks' \in {0, total_free_blocks}
  BY IInvBlocks DEF sm_alloc_space_fails
<1>3. /\ faults' \in 0 .. MaxFaults /\ faults' # 0
      /\ first_free_block' \in 0 .. (FirstBlk + BlkCnt)
      /\ total_free_blocks' \in Nat
  BY <1>2, IInvBlocks, SpaceAssumption
<1>4. /\ Cover(extents') \cup used' \cup lost' = Pool
      /\ Cover(extents') \cap used' = {}
      /\ Cover(extents') \cap lost' = {}
      /\ used' \cap lost' = {}
      /\ used' \subseteq Pool /\ lost' \subseteq Pool
  BY <1>1, IInvBlocks
<1>. QED  BY <1>1, <1>2, <1>3, <1>4, IInvBlocks, IInvNext

\* The merged extent in the place of what it was merged with.
LEMMA MergedInPlace ==
  ASSUME Fits, IInv, NEW s \in used, NEW c \in 1 .. MaxCnt,
         Run(s, c) \subseteq used, NEW P \in MergedPrev(s, c)
  PROVE  LET R == NextOf(s, c) \cup P
             Y == (extents \ R) \cup {Merged(s, c, P)}
         IN  /\ Blocks(Merged(s, c, P)) = Cover(R) \cup Run(s, c)
             /\ InPool(Y) /\ Disjoint(Y)
             /\ Cover(Y) = Cover(extents) \cup Run(s, c)
<1>1. InPool(extents) /\ Disjoint(extents)
  BY IInvFacts
<1>2. s \in Int /\ c \in Nat \ {0} /\ Run(s, c) \subseteq Pool
  BY IInvBlocks, SpaceAssumption DEF Pool, Run
<1> DEFINE R == NextOf(s, c) \cup P
           m == Merged(s, c, P)
<1>4. /\ R \subseteq extents /\ InPool({m})
      /\ Blocks(m) = Cover(R) \cup Run(s, c)
  BY <1>1, <1>2, MergedFacts
<1>. HIDE DEF R, m
<1>6. Blocks(m) \cap Cover(extents \ R) = {}
  <2>1. Cover(R) \cap Cover(extents \ R) = {}
    BY <1>1, <1>4 DEF Cover, Disjoint
  <2>2. Run(s, c) \cap Cover(extents \ R) = {}
    BY IInvBlocks DEF Cover
  <2>. QED  BY <2>1, <2>2, <1>4
<1>7. /\ Disjoint((extents \ R) \cup {m})
      /\ Cover((extents \ R) \cup {m}) = (Cover(extents) \ Cover(R)) \cup Blocks(m)
  BY SMTT(20), <1>1, <1>4, <1>6, ReplaceByOne
<1>9. InPool((extents \ R) \cup {m})
  BY <1>1, <1>4 DEF InPool
<1>10. Cover(R) \subseteq Cover(extents)
  BY <1>4 DEF Cover
<1>11. Cover((extents \ R) \cup {m}) = Cover(extents) \cup Run(s, c)
  BY <1>4, <1>7, <1>10
<1>. QED  BY <1>4, <1>7, <1>9, <1>11 DEF R, m

\* What sm_free_space does to the free blocks: the run is added, nothing else.
LEMMA FreeEffect ==
  ASSUME Fits, IInv, NEW s \in used, NEW c \in 1 .. MaxCnt,
         Run(s, c) \subseteq used, sm_free_space(s, c)
  PROVE  /\ InPool(extents') /\ Disjoint(extents')
         /\ Cover(extents') = Cover(extents) \cup Run(s, c)
         /\ used' = used \ Run(s, c) /\ lost' = lost /\ faults' = faults
         /\ first_free_block' = first_free_block
         /\ total_free_blocks' = total_free_blocks + c
         /\ drift' = (drift \/ lost' # lost)
<1>1. PICK P \in MergedPrev(s, c) :
        /\ extents' = (extents \ (NextOf(s, c) \cup P)) \cup {Merged(s, c, P)}
        /\ used' = used \ Run(s, c)
        /\ lost' = lost \cup ((Cover(NextOf(s, c) \cup P) \cup Run(s, c))
                              \ Blocks(Merged(s, c, P)))
  BY DEF sm_free_space, free_space
<1>2. /\ Blocks(Merged(s, c, P)) = Cover(NextOf(s, c) \cup P) \cup Run(s, c)
      /\ InPool(extents') /\ Disjoint(extents')
      /\ Cover(extents') = Cover(extents) \cup Run(s, c)
  BY <1>1, MergedInPlace
<1>3. lost' = lost
  BY <1>1, <1>2
<1>. QED  BY <1>1, <1>2, <1>3 DEF sm_free_space

\* The step of sm_free_space.
LEMMA FreeStepInv ==
  ASSUME Fits, IInv, NEW s \in used, NEW c \in 1 .. MaxCnt,
         Run(s, c) \subseteq used, sm_free_space(s, c),
         height' = height
  PROVE  IInv'
<1>1. /\ InPool(extents') /\ Disjoint(extents')
      /\ Cover(extents') = Cover(extents) \cup Run(s, c)
      /\ used' = used \ Run(s, c) /\ lost' = lost /\ faults' = faults
      /\ first_free_block' = first_free_block
      /\ total_free_blocks' = total_free_blocks + c
      /\ drift' = (drift \/ lost' # lost)
  BY FreeEffect
<1>2. total_free_blocks' \in Nat
  BY <1>1, IInvBlocks, SpaceAssumption
<1>3. drift' \in BOOLEAN
  BY <1>1
<1>4. /\ Cover(extents') \cup used' \cup lost' = Pool
      /\ Cover(extents') \cap used' = {}
      /\ Cover(extents') \cap lost' = {}
      /\ used' \cap lost' = {}
      /\ used' \subseteq Pool /\ lost' \subseteq Pool
  BY <1>1, IInvBlocks
<1>. QED  BY <1>1, <1>2, <1>3, <1>4, IInvBlocks, IInvNext

\* What a failing free leaves are entries it met, with or without the merged
\* extent in the place of those it was merged with.
LEMMA FreeLeavesFacts ==
  ASSUME NEW s \in Int, NEW c \in Nat \ {0}, InPool(extents),
         NEW X \in FreeLeaves(s, c)
  PROVE  \/ X \subseteq extents
         \/ \E P \in MergedPrev(s, c) :
              X \subseteq (extents \ (NextOf(s, c) \cup P)) \cup {Merged(s, c, P)}
<1> DEFINE both == NextOf(s, c) \cup PrevOf(s)
           with(P) == (PrevOf(s) \ P) \cup {Merged(s, c, P)}
<1>1. PICK l \in Left(extents \ both),
           k \in {both, PrevOf(s), {}} \cup {with(P) : P \in MergedPrev(s, c)} :
        X = l \cup k
  <2> DEFINE K == {both, PrevOf(s), {}} \cup {with(P) : P \in MergedPrev(s, c)}
             L == Left(extents \ both)
  <2>1. X \in UNION {{l \cup k : l \in L} : k \in K}
    BY DEF FreeLeaves
  <2>. HIDE DEF K, L
  <2>2. \E k \in K : X \in {l \cup k : l \in L}
    BY <2>1
  <2>3. \E k \in K : \E l \in L : X = l \cup k
    BY <2>2
  <2>. QED  BY <2>3 DEF K, L
<1>2. l \subseteq extents \ both
  BY DEF Left
<1>3. CASE k \in {both, PrevOf(s), {}}
  BY <1>1, <1>2, <1>3 DEF NextOf, PrevOf
<1>4. CASE k \in {with(P) : P \in MergedPrev(s, c)}
  <2>1. PICK P \in MergedPrev(s, c) : k = with(P)
    BY <1>4
  <2>2. P \subseteq PrevOf(s)
    BY DEF MergedPrev
  <2>3. PrevOf(s) \subseteq extents /\ PrevOf(s) \cap NextOf(s, c) = {}
    <3>1. ASSUME NEW e \in PrevOf(s), e \in NextOf(s, c)
          PROVE  FALSE
      <4>1. e \in extents /\ e.addr + e.len = s /\ e.addr = s + c
        BY <3>1 DEF PrevOf, NextOf
      <4>. QED  BY <4>1, ExtentFacts
    <3>. QED  BY <3>1 DEF PrevOf
  <2>. QED  BY <1>1, <1>2, <2>1, <2>2, <2>3
<1>. QED  BY <1>1, <1>3, <1>4

\* What the failing sm_free_space does to the blocks.
LEMMA FreeFailsEffect ==
  ASSUME Fits, IInv, NEW s \in used, NEW c \in 1 .. MaxCnt,
         Run(s, c) \subseteq used, sm_free_space_fails(s, c)
  PROVE  /\ InPool(extents') /\ Disjoint(extents')
         /\ Cover(extents') \subseteq Cover(extents) \cup Run(s, c)
         /\ lost' = lost \cup ((Cover(extents) \cup Run(s, c)) \ Cover(extents'))
         /\ used' = used \ Run(s, c)
<1>1. InPool(extents) /\ Disjoint(extents)
  BY IInvFacts
<1>2. s \in Int /\ c \in Nat \ {0}
  BY IInvBlocks, SpaceAssumption DEF Pool, Run
<1>3. /\ extents' \in FreeLeaves(s, c)
      /\ lost' = lost \cup ((Cover(extents) \cup Run(s, c)) \ Cover(extents'))
      /\ used' = used \ Run(s, c)
  BY DEF sm_free_space_fails, FreeBlocks
<1>4. CASE extents' \subseteq extents
  BY <1>1, <1>3, <1>4, FewerEntries
<1>5. CASE \E P \in MergedPrev(s, c) :
             extents' \subseteq (extents \ (NextOf(s, c) \cup P)) \cup {Merged(s, c, P)}
  <2>1. PICK P \in MergedPrev(s, c) :
          extents' \subseteq (extents \ (NextOf(s, c) \cup P)) \cup {Merged(s, c, P)}
    BY <1>5
  <2> DEFINE Y == (extents \ (NextOf(s, c) \cup P)) \cup {Merged(s, c, P)}
  <2>2. InPool(Y) /\ Disjoint(Y) /\ Cover(Y) = Cover(extents) \cup Run(s, c)
    BY MergedInPlace
  <2>3. extents' \subseteq Y
    BY <2>1
  <2>. HIDE DEF Y
  <2>. QED  BY <1>3, <2>2, <2>3, FewerEntries
<1>. QED  BY <1>2, <1>1, <1>3, <1>4, <1>5, FreeLeavesFacts

\* The step of sm_free_space whose tree operation failed.
LEMMA FreeFailsInv ==
  ASSUME Fits, IInv, NEW s \in used, NEW c \in 1 .. MaxCnt,
         Run(s, c) \subseteq used, sm_free_space_fails(s, c),
         height' = height
  PROVE  IInv'
<1>1. /\ InPool(extents') /\ Disjoint(extents')
      /\ Cover(extents') \subseteq Cover(extents) \cup Run(s, c)
      /\ lost' = lost \cup ((Cover(extents) \cup Run(s, c)) \ Cover(extents'))
      /\ used' = used \ Run(s, c)
  BY FreeFailsEffect
<1>2. /\ faults \in Nat /\ faults < MaxFaults /\ faults' = faults + 1
      /\ drift' \in BOOLEAN
      /\ first_free_block' = first_free_block
      /\ total_free_blocks' = total_free_blocks
  BY IInvBlocks DEF sm_free_space_fails
<1>3. faults' \in 0 .. MaxFaults /\ faults' # 0
  BY <1>2, SpaceAssumption
<1>4. /\ Cover(extents') \cup used' \cup lost' = Pool
      /\ Cover(extents') \cap used' = {}
      /\ Cover(extents') \cap lost' = {}
      /\ used' \cap lost' = {}
      /\ used' \subseteq Pool /\ lost' \subseteq Pool
  BY <1>1, IInvBlocks
<1>. QED  BY <1>1, <1>2, <1>3, <1>4, IInvBlocks, IInvNext
-----------------------------------------------------------------------------
(***************************************************************************)
(* The invariant and its consequences, for callers that may also free what *)
(* is free already (AnySpec).                                              *)
(***************************************************************************)
\* At the start the pool is one extent, or all of it is used.
LEMMA InitIInv == Init => IInv
<1>. SUFFICES ASSUME Init PROVE IInv
  OBVIOUS
<1> DEFINE whole == [addr |-> FirstBlk, len |-> BlkCnt]
<1>1. CASE used = {}
  <2>1. extents = {whole}
    BY <1>1 DEF Init
  <2>2. Cover({whole}) = Pool
    BY DEF Cover, Blocks, Pool
  <2>3. InPool({whole})
    BY SpaceAssumption DEF InPool, ExtentType, Pool, Run
  <2>4. TypeOK
    <3>1. drift \in BOOLEAN
      BY DEF Init
    <3>. QED  BY <1>1, <2>1, <2>3, <3>1, SpaceAssumption DEF TypeOK, Init, InPool, ExtentType
  <2>5. ExtentsDisjoint
    BY <2>1 DEF ExtentsDisjoint
  <2>6. Conservation
    BY <1>1, <2>1, <2>2 DEF Conservation, FreeBlocks, Init
  <2>. QED  BY <2>4, <2>5, <2>6 DEF IInv
<1>2. CASE used # {}
  <2>1. extents = {} /\ used = Pool
    BY <1>2 DEF Init
  <2>2. Cover({}) = {}
    BY DEF Cover
  <2>3. TypeOK
    <3>1. drift \in BOOLEAN
      BY DEF Init
    <3>. QED  BY <1>2, <2>1, <3>1, SpaceAssumption DEF TypeOK, Init
  <2>4. ExtentsDisjoint /\ Conservation
    BY <2>1, <2>2 DEF ExtentsDisjoint, Conservation, FreeBlocks, Init
  <2>. QED  BY <2>3, <2>4 DEF IInv
<1>. QED  BY <1>1, <1>2

\* No call breaks the invariant, whatever range it is given.
LEMMA NextIInv ==
  ASSUME Fits, IInv, [AnyNext]_vars
  PROVE  IInv'
<1>1. ASSUME NEW c \in 1 .. MaxCnt, sm_alloc_space(c), height' = height
      PROVE  IInv'
  BY <1>1, AllocStepInv
<1>2. ASSUME NEW c \in 1 .. MaxCnt, sm_alloc_space_none(c), height' = height
      PROVE  IInv'
  <2>1. /\ first_free_block' \in 0 .. (FirstBlk + BlkCnt)
        /\ total_free_blocks' \in Nat
        /\ extents' = extents /\ used' = used /\ lost' = lost /\ faults' = faults
        /\ height' = height
    BY <1>2, SpaceAssumption DEF sm_alloc_space_none
  <2>2. drift' \in BOOLEAN
    BY <1>2, Zenon DEF sm_alloc_space_none
  <2>. QED  BY <2>1, <2>2, IInvFacts, IInvBlocks, IInvNext
<1>3. ASSUME NEW c \in 1 .. MaxCnt, sm_alloc_space_fails(c), height' = height
      PROVE  IInv'
  BY <1>3, AllocFailsInv
<1>4. ASSUME NEW s \in used, NEW c \in 1 .. MaxCnt, Run(s, c) \subseteq used,
             sm_free_space(s, c), height' = height
      PROVE  IInv'
  BY <1>4, FreeStepInv
<1>5. ASSUME NEW s \in used, NEW c \in 1 .. MaxCnt, Run(s, c) \subseteq used,
             sm_free_space_fails(s, c), height' = height
      PROVE  IInv'
  BY <1>5, FreeFailsInv
<1>6. ASSUME NEW s \in Pool, NEW c \in 1 .. MaxCnt,
             sm_free_space_overlap(s, c), height' = height
      PROVE  IInv'
  <2>1. /\ total_free_blocks' \in Nat /\ drift' \in BOOLEAN
        /\ first_free_block' = first_free_block
        /\ extents' = extents /\ used' = used /\ lost' = lost /\ faults' = faults
        /\ height' = height
    BY <1>6, IInvBlocks, SpaceAssumption DEF sm_free_space_overlap
  <2>. QED  BY <2>1, IInvFacts, IInvBlocks, IInvNext
<1>7. CASE UNCHANGED vars
  BY <1>7, IInvFacts, IInvBlocks, IInvNext DEF vars
<1>. QED  BY <1>1, <1>2, <1>3, <1>4, <1>5, <1>6, <1>7
          DEF AnyNext, Next, AllocStep, FreeStep, OverlapStep

\* The inductive invariant holds in every state, whatever the callers free.
THEOREM AnySpecIInv ==
  ASSUME Fits
  PROVE  AnySpec => []IInv
<1>1. Init => IInv
  BY InitIInv
<1>2. IInv /\ [AnyNext]_vars => IInv'
  BY NextIInv
<1>. QED  BY <1>1, <1>2, PTL DEF AnySpec

\* The counters, the extents and the owned blocks stay within the pool, for
\* every caller of sm_alloc_space and sm_free_space.
THEOREM AnySpecTypeOK ==
  ASSUME Fits
  PROVE  AnySpec => []TypeOK
<1>1. IInv => TypeOK
  BY DEF IInv
<1>. QED  BY <1>1, AnySpecIInv, PTL

\* No two entries of the extent tree overlap, with failed tree operations and
\* with frees of free blocks.
THEOREM AnySpecExtentsDisjoint ==
  ASSUME Fits
  PROVE  AnySpec => []ExtentsDisjoint
<1>1. IInv => ExtentsDisjoint
  BY DEF IInv
<1>. QED  BY <1>1, AnySpecIInv, PTL

\* No block is free and owned, owned twice, or dropped without a failure.
THEOREM AnySpecConservation ==
  ASSUME Fits
  PROVE  AnySpec => []Conservation
<1>1. IInv => Conservation
  BY DEF IInv
<1>. QED  BY <1>1, AnySpecIInv, PTL

\* alloc_space never trips over its assertions: the entry the search returns
\* has a length and the allocation starts inside it.
THEOREM AnySpecAllocAssertsHold ==
  ASSUME Fits
  PROVE  AnySpec => []AllocAssertsHold
<1>1. IInv => AllocAssertsHold
  <2>. SUFFICES ASSUME IInv, NEW c \in 1 .. MaxCnt,
                       NEW e \in Candidates(first_free_block, c)
                PROVE  AllocAsserts(e, first_free_block, c)
    BY DEF AllocAssertsHold
  <2>1. e \in extents /\ InPool(extents)
    BY CandidateInTree, IInvFacts
  <2>2. first_free_block \in Nat /\ c \in Nat \ {0}
    BY IInvBlocks, SpaceAssumption
  <2>3. Start(e, first_free_block, c) < End(e)
    BY <2>1, <2>2, AllocSplit
  <2>4. U32(e.len) # 0
    <3>1. e.len \in 1 .. BlkCnt
      BY <2>1 DEF InPool, ExtentType
    <3>. QED  BY <3>1, U32Id, SpaceAssumption
  <2>. QED  BY <2>3, <2>4 DEF AllocAsserts
<1>. QED  BY <1>1, AnySpecIInv, PTL
-----------------------------------------------------------------------------
(***************************************************************************)
(* The counter.                                                            *)
(***************************************************************************)
\* A run has as many blocks as its length says.
LEMMA RunCardinality ==
  ASSUME NEW a \in Int, NEW n \in Nat
  PROVE  IsFiniteSet(Run(a, n)) /\ Cardinality(Run(a, n)) = n
<1>1. a + n - 1 \in Int
  OBVIOUS
<1>2. /\ IsFiniteSet(a .. (a + n - 1))
      /\ Cardinality(a .. (a + n - 1)) = IF a > a + n - 1 THEN 0 ELSE (a + n - 1) - a + 1
  BY <1>1, FS_Interval
<1>. QED  BY <1>2 DEF Run

\* The free blocks can be counted.
LEMMA FreeFinite ==
  ASSUME IInv
  PROVE  IsFiniteSet(FreeBlocks) /\ Cardinality(FreeBlocks) \in Nat
<1>1. IsFiniteSet(Pool)
  BY RunCardinality, SpaceAssumption DEF Pool
<1>2. FreeBlocks \subseteq Pool
  BY IInvBlocks, IInvFacts
<1>3. IsFiniteSet(FreeBlocks)
  BY <1>1, <1>2, FS_Subset
<1>. QED  BY <1>3, FS_CardinalityType

\* At the start the counter is the number of free blocks.
LEMMA InitTotal == Init => TotalExact
<1>. SUFFICES ASSUME Init PROVE total_free_blocks = Cardinality(FreeBlocks)
  BY DEF TotalExact
<1>1. CASE used = {}
  <2>1. FreeBlocks = Pool
    BY <1>1 DEF Init, FreeBlocks, Cover, Blocks, Pool
  <2>2. Cardinality(Pool) = BlkCnt
    BY RunCardinality, SpaceAssumption DEF Pool
  <2>. QED  BY <1>1, <2>1, <2>2 DEF Init
<1>2. CASE used # {}
  <2>1. FreeBlocks = {}
    BY <1>2 DEF Init, FreeBlocks, Cover
  <2>. QED  BY <1>2, <2>1, FS_EmptySet DEF Init
<1>. QED  BY <1>1, <1>2

\* A call changes the counter by the blocks it gives or takes, unless it drifted.
LEMMA NextTotal ==
  ASSUME Fits, IInv, TotalExact, [AnyNext]_vars
  PROVE  TotalExact'
<1>. SUFFICES ASSUME ~drift'
              PROVE  total_free_blocks' = Cardinality(FreeBlocks')
  BY DEF TotalExact
<1>1. ASSUME NEW c \in 1 .. MaxCnt, sm_alloc_space(c)
      PROVE  total_free_blocks' = Cardinality(FreeBlocks')
  <2>1. PICK a \in Int, n \in 1 .. c :
          /\ Run(a, n) \subseteq Cover(extents)
          /\ Cover(extents') = Cover(extents) \ Run(a, n)
          /\ total_free_blocks' = IF total_free_blocks < n
                                  THEN total_free_blocks
                                  ELSE total_free_blocks - n
          /\ drift' = (drift \/ total_free_blocks < n \/ lost' # lost)
    BY <1>1, AllocEffect
  <2>2. ~drift /\ ~(total_free_blocks < n)
    BY <2>1
  <2>3. total_free_blocks = Cardinality(FreeBlocks)
    BY <2>2 DEF TotalExact
  <2>4. FreeBlocks' = FreeBlocks \ Run(a, n) /\ Run(a, n) \subseteq FreeBlocks
    BY <2>1 DEF FreeBlocks
  <2>5. IsFiniteSet(FreeBlocks) /\ Cardinality(FreeBlocks) \in Nat
    BY FreeFinite
  <2>6. n \in Nat /\ IsFiniteSet(Run(a, n)) /\ Cardinality(Run(a, n)) = n
    BY RunCardinality, SpaceAssumption
  <2>7. FreeBlocks \cap Run(a, n) = Run(a, n)
    BY <2>4
  <2>8. Cardinality(FreeBlocks \ Run(a, n)) = Cardinality(FreeBlocks) - n
    <3>. DEFINE F == FreeBlocks
                R == Run(a, n)
    <3>1. IsFiniteSet(F) /\ F \cap R = R /\ Cardinality(R) = n
      BY <2>5, <2>6, <2>7
    <3>. HIDE DEF F, R
    <3>2. Cardinality(F \ R) = Cardinality(F) - Cardinality(F \cap R)
      BY <3>1, FS_Difference, Zenon
    <3>3. Cardinality(F \ R) = Cardinality(F) - n
      BY <3>1, <3>2
    <3>. QED  BY <3>3 DEF F, R
  <2>. QED  BY <2>1, <2>2, <2>3, <2>4, <2>8
<1>2. ASSUME NEW c \in 1 .. MaxCnt, sm_alloc_space_none(c)
      PROVE  total_free_blocks' = Cardinality(FreeBlocks')
  <2>1. FreeBlocks' = {} /\ total_free_blocks' = 0
    BY <1>2 DEF sm_alloc_space_none, FreeBlocks, Cover
  <2>. QED  BY <2>1, FS_EmptySet
<1>3. ASSUME NEW c \in 1 .. MaxCnt, sm_alloc_space_fails(c)
      PROVE  total_free_blocks' = Cardinality(FreeBlocks')
  BY <1>3 DEF sm_alloc_space_fails, TotalExact, FreeBlocks
<1>4. ASSUME NEW s \in used, NEW c \in 1 .. MaxCnt, Run(s, c) \subseteq used,
             sm_free_space(s, c)
      PROVE  total_free_blocks' = Cardinality(FreeBlocks')
  <2>1. /\ Cover(extents') = Cover(extents) \cup Run(s, c)
        /\ total_free_blocks' = total_free_blocks + c
        /\ drift' = (drift \/ lost' # lost)
    BY <1>4, FreeEffect
  <2>2. total_free_blocks = Cardinality(FreeBlocks)
    BY <2>1 DEF TotalExact
  <2>3. FreeBlocks' = FreeBlocks \cup Run(s, c) /\ FreeBlocks \cap Run(s, c) = {}
    BY <1>4, <2>1, IInvBlocks DEF FreeBlocks
  <2>4. IsFiniteSet(FreeBlocks) /\ Cardinality(FreeBlocks) \in Nat
    BY FreeFinite
  <2>5. s \in Int /\ c \in Nat
    BY IInvBlocks, SpaceAssumption DEF Pool, Run
  <2>6. IsFiniteSet(Run(s, c)) /\ Cardinality(Run(s, c)) = c
    BY <2>5, RunCardinality
  <2>7. Cardinality(FreeBlocks \cup Run(s, c)) = Cardinality(FreeBlocks) + c - Cardinality({})
    BY <2>3, <2>4, <2>6, FS_Union
  <2>8. Cardinality({}) = 0
    BY FS_EmptySet
  <2>. QED  BY <2>1, <2>2, <2>3, <2>4, <2>5, <2>7, <2>8
<1>5. ASSUME NEW s \in used, NEW c \in 1 .. MaxCnt, sm_free_space_fails(s, c)
      PROVE  total_free_blocks' = Cardinality(FreeBlocks')
  BY <1>5 DEF sm_free_space_fails, TotalExact, FreeBlocks
<1>6. ASSUME NEW s \in Pool, NEW c \in 1 .. MaxCnt, sm_free_space_overlap(s, c)
      PROVE  total_free_blocks' = Cardinality(FreeBlocks')
  BY <1>6 DEF sm_free_space_overlap
<1>7. CASE UNCHANGED vars
  <2>1. drift' = drift /\ total_free_blocks' = total_free_blocks /\ FreeBlocks' = FreeBlocks
    BY <1>7 DEF vars, FreeBlocks
  <2>. QED  BY <2>1 DEF TotalExact
<1>. QED  BY <1>1, <1>2, <1>3, <1>4, <1>5, <1>6, <1>7
          DEF AnyNext, Next, AllocStep, FreeStep, OverlapStep

\* total_free_blocks is the number of free blocks until a free of free blocks
\* is credited or a tree operation fails, and again once it was reset.
THEOREM AnySpecTotalExact ==
  ASSUME Fits
  PROVE  AnySpec => []TotalExact
<1>1. Init => IInv /\ TotalExact
  BY InitIInv, InitTotal
<1>2. IInv /\ TotalExact /\ [AnyNext]_vars => IInv' /\ TotalExact'
  BY NextIInv, NextTotal
<1>. QED  BY <1>1, <1>2, PTL DEF AnySpec
-----------------------------------------------------------------------------
(***************************************************************************)
(* Neighbours are merged, in a tree of one node.                           *)
(***************************************************************************)
Apart(X) == \A e, f \in X : e.addr + e.len # f.addr

\* Parts of an entry in its place touch no other entry that it did not touch.
LEMMA ReplaceApart ==
  ASSUME NEW X, InPool(X), Disjoint(X), Apart(X), NEW e \in X,
         NEW K, InPool(K), Apart(K), Cover(K) \subseteq Blocks(e)
  PROVE  Apart((X \ {e}) \cup K)
<1>1. ASSUME NEW f \in X, f # e, NEW k \in K
      PROVE  f.addr + f.len # k.addr /\ k.addr + k.len # f.addr
  <2>1. /\ f.addr \in Int /\ f.len \in Int /\ 1 <= f.len
        /\ \A b : b \in Blocks(f) <=> b \in Int /\ f.addr <= b /\ b < f.addr + f.len
    BY ExtentFacts
  <2>2. /\ e.addr \in Int /\ e.len \in Int
        /\ \A b : b \in Blocks(e) <=> b \in Int /\ e.addr <= b /\ b < e.addr + e.len
    BY ExtentFacts
  <2>3. /\ k.addr \in Int /\ k.len \in Int /\ 1 <= k.len
        /\ \A b : b \in Blocks(k) <=> b \in Int /\ k.addr <= b /\ b < k.addr + k.len
    BY ExtentFacts
  <2>4. Blocks(k) \subseteq Blocks(e) /\ Blocks(f) \cap Blocks(e) = {}
    BY <1>1 DEF Cover, Disjoint
  <2>5. f.addr + f.len # e.addr /\ e.addr + e.len # f.addr
    BY DEF Apart
  <2>6. f.addr + f.len # k.addr
    <3>. SUFFICES ASSUME f.addr + f.len = k.addr
                  PROVE  FALSE
      OBVIOUS
    <3>1. k.addr \in Blocks(e) /\ k.addr - 1 \notin Blocks(e)
      BY <2>1, <2>3, <2>4
    <3>. QED  BY <3>1, <2>2, <2>3, <2>5
  <2>7. k.addr + k.len # f.addr
    <3>. SUFFICES ASSUME k.addr + k.len = f.addr
                  PROVE  FALSE
      OBVIOUS
    <3>1. f.addr - 1 \in Blocks(e) /\ f.addr \notin Blocks(e)
      BY <2>1, <2>3, <2>4
    <3>. QED  BY <3>1, <2>1, <2>2, <2>5
  <2>. QED  BY <2>6, <2>7
<1>. QED  BY <1>1 DEF Apart

\* Fewer entries do not become neighbours.
LEMMA FewerApart ==
  ASSUME NEW Y, Apart(Y), NEW X, X \subseteq Y
  PROVE  Apart(X)
BY DEF Apart

\* What alloc_space keeps of an entry lies on both sides of what it takes.
LEMMA KeptApart ==
  ASSUME Fits, NEW X, InPool(X), NEW e \in X, NEW s \in Nat, NEW c \in Nat \ {0}
  PROVE  Apart(Kept(e, s, c))
<1>1. /\ Start(e, s, c) \in Int /\ e.addr <= Start(e, s, c)
      /\ End(e) = e.addr + e.len
  BY AllocSplit
<1>2. e.addr \in Int /\ e.len \in Int
  BY ExtentFacts
<1>3. \A f \in Before(e, s, c) :
        f.addr = e.addr /\ f.addr + f.len = Start(e, s, c) /\ f.addr < f.addr + f.len
  BY <1>1, <1>2 DEF Before
<1>4. \A f \in After(e, s, c) :
        /\ f.addr = Start(e, s, c) + c /\ f.addr + f.len = e.addr + e.len
        /\ f.addr < f.addr + f.len
  BY <1>1, <1>2 DEF After
<1>. HIDE DEF Before, After
<1>. QED  BY <1>1, <1>2, <1>3, <1>4 DEF Apart, Kept

\* The merged entry touches no other one.
LEMMA MergedApart ==
  ASSUME Fits, IInv, Coalesced, height = 1,
         NEW s \in used, NEW c \in 1 .. MaxCnt, Run(s, c) \subseteq used,
         NEW P \in MergedPrev(s, c)
  PROVE  Apart((extents \ (NextOf(s, c) \cup P)) \cup {Merged(s, c, P)})
<1> DEFINE R == NextOf(s, c) \cup P
           m == Merged(s, c, P)
<1>1. InPool(extents) /\ Disjoint(extents) /\ Apart(extents)
  BY IInvFacts DEF Coalesced, Apart
<1>2. s \in Int /\ c \in Nat \ {0} /\ Run(s, c) \subseteq Pool
  BY IInvBlocks, SpaceAssumption DEF Pool, Run
<1>3. R = NextOf(s, c) \cup PrevOf(s)
  BY DEF MergedPrev
<1>4. /\ R \subseteq extents /\ InPool({m})
      /\ Blocks(m) = Cover(R) \cup Run(s, c)
  BY <1>1, <1>2, MergedFacts
<1>. HIDE DEF R, m
<1>5. /\ m.addr \in Int /\ m.len \in Int /\ 1 <= m.len
      /\ \A b : b \in Blocks(m) <=> b \in Int /\ m.addr <= b /\ b < m.addr + m.len
  BY <1>4, ExtentFacts
<1>6. \A b : b \in Run(s, c) <=> b \in Int /\ s <= b /\ b < s + c
  BY <1>2, InRun
<1>7. ASSUME NEW f \in extents \ R
      PROVE  f.addr + f.len # m.addr /\ m.addr + m.len # f.addr
  <2>1. /\ f.addr \in Int /\ f.len \in Int /\ 1 <= f.len
        /\ \A b : b \in Blocks(f) <=> b \in Int /\ f.addr <= b /\ b < f.addr + f.len
    BY <1>1, ExtentFacts
  <2>2. Blocks(f) \cap Run(s, c) = {}
    BY IInvBlocks DEF Cover
  <2>3. f.addr # s + c /\ f.addr + f.len # s
    BY <1>3 DEF NextOf, PrevOf
  <2>4. ASSUME NEW b \in Int, b \in Blocks(m), b - 1 \in Blocks(f)
        PROVE  f.addr + f.len # b
    <3>1. CASE b \in Run(s, c)
      <4>1. b - 1 \notin Run(s, c)
        BY <2>2, <2>4
      <4>. QED  BY <3>1, <4>1, <1>2, <1>6, <2>3
    <3>2. CASE b \in Cover(R)
      <4>1. PICK g \in R : b \in Blocks(g)
        BY <3>2 DEF Cover
      <4>2. g \in extents /\ g # f
        BY <1>4
      <4>3. b - 1 \notin Blocks(g) /\ f.addr + f.len # g.addr
        BY <4>2, <2>4, <1>1 DEF Disjoint, Apart
      <4>4. /\ g.addr \in Int /\ g.len \in Int
            /\ \A x : x \in Blocks(g) <=> x \in Int /\ g.addr <= x /\ x < g.addr + g.len
        BY <4>2, <1>1, ExtentFacts
      <4>. QED  BY <4>1, <4>3, <4>4
    <3>. QED  BY <3>1, <3>2, <2>4, <1>4
  <2>5. ASSUME NEW b \in Int, b - 1 \in Blocks(m), b \in Blocks(f)
        PROVE  f.addr # b
    <3>1. CASE b - 1 \in Run(s, c)
      <4>1. b \notin Run(s, c)
        BY <2>2, <2>5
      <4>. QED  BY <3>1, <4>1, <1>2, <1>6, <2>3
    <3>2. CASE b - 1 \in Cover(R)
      <4>1. PICK g \in R : b - 1 \in Blocks(g)
        BY <3>2 DEF Cover
      <4>2. g \in extents /\ g # f
        BY <1>4
      <4>3. b \notin Blocks(g) /\ g.addr + g.len # f.addr
        BY <4>2, <2>5, <1>1 DEF Disjoint, Apart
      <4>4. /\ g.addr \in Int /\ g.len \in Int
            /\ \A x : x \in Blocks(g) <=> x \in Int /\ g.addr <= x /\ x < g.addr + g.len
        BY <4>2, <1>1, ExtentFacts
      <4>. QED  BY <4>1, <4>3, <4>4
    <3>. QED  BY <3>1, <3>2, <2>5, <1>4
  <2>6. f.addr + f.len # m.addr
    BY <2>1, <2>4, <1>5
  <2>7. m.addr + m.len # f.addr
    BY <2>1, <2>5, <1>5
  <2>. QED  BY <2>6, <2>7
<1>8. m.addr + m.len # m.addr
  BY <1>5
<1>9. Apart((extents \ R) \cup {m})
  BY <1>1, <1>7, <1>8 DEF Apart
<1>. QED  BY <1>9 DEF R, m

\* No step leaves two neighbours apart.
LEMMA NextCoalesced ==
  ASSUME Fits, IInv, Coalesced, [AnyNext]_vars
  PROVE  Coalesced'
<1> DEFINE s == first_free_block
<1>. SUFFICES ASSUME height' = 1
              PROVE  Apart(extents')
  BY DEF Coalesced, Apart
<1>1. height = 1
  BY DEF AnyNext, Next, AllocStep, FreeStep, OverlapStep, vars
<1>2. InPool(extents) /\ Disjoint(extents) /\ Apart(extents) /\ s \in Nat
  BY <1>1, IInvFacts, IInvBlocks, SpaceAssumption DEF Coalesced, Apart
<1>. HIDE DEF s
<1>3. ASSUME NEW c \in 1 .. MaxCnt, sm_alloc_space(c)
      PROVE  Apart(extents')
  <2>1. PICK e \in Candidates(s, c) : extents' = (extents \ {e}) \cup Kept(e, s, c)
    BY <1>3 DEF sm_alloc_space, alloc_space, Kept, s
  <2>2. e \in extents /\ c \in Nat \ {0}
    BY CandidateInTree, SpaceAssumption
  <2>3. InPool(Kept(e, s, c)) /\ Cover(Kept(e, s, c)) \subseteq Blocks(e)
    BY <1>2, <2>2, AllocSplit
  <2>4. Apart(Kept(e, s, c))
    BY <1>2, <2>2, KeptApart
  <2>. QED  BY <1>2, <2>1, <2>2, <2>3, <2>4, ReplaceApart
<1>4. ASSUME NEW c \in 1 .. MaxCnt, sm_alloc_space_fails(c)
      PROVE  Apart(extents')
  <2>1. PICK e \in Candidates(s, c) : extents' \in AllocLeaves(e, s, c)
    BY <1>4 DEF sm_alloc_space_fails, s
  <2>2. e \in extents /\ c \in Nat \ {0}
    BY CandidateInTree, SpaceAssumption
  <2>3. \/ extents' \subseteq extents
        \/ extents' \subseteq (extents \ {e}) \cup Kept(e, s, c)
    BY <1>2, <2>1, <2>2, AllocLeavesFacts
  <2>4. Apart((extents \ {e}) \cup Kept(e, s, c))
    <3>1. InPool(Kept(e, s, c)) /\ Cover(Kept(e, s, c)) \subseteq Blocks(e)
      BY <1>2, <2>2, AllocSplit
    <3>2. Apart(Kept(e, s, c))
      BY <1>2, <2>2, KeptApart
    <3>. QED  BY <1>2, <2>2, <3>1, <3>2, ReplaceApart
  <2>. QED  BY <1>2, <2>3, <2>4, FewerApart
<1>5. ASSUME NEW b \in used, NEW c \in 1 .. MaxCnt, Run(b, c) \subseteq used,
             sm_free_space(b, c)
      PROVE  Apart(extents')
  <2>1. PICK P \in MergedPrev(b, c) :
          extents' = (extents \ (NextOf(b, c) \cup P)) \cup {Merged(b, c, P)}
    BY <1>5 DEF sm_free_space, free_space
  <2>. QED  BY <1>1, <1>5, <2>1, MergedApart
<1>6. ASSUME NEW b \in used, NEW c \in 1 .. MaxCnt, Run(b, c) \subseteq used,
             sm_free_space_fails(b, c)
      PROVE  Apart(extents')
  <2>1. b \in Int /\ c \in Nat \ {0}
    BY IInvBlocks, SpaceAssumption DEF Pool, Run
  <2>2. \/ extents' \subseteq extents
        \/ \E P \in MergedPrev(b, c) :
             extents' \subseteq (extents \ (NextOf(b, c) \cup P)) \cup {Merged(b, c, P)}
    BY <1>2, <1>6, <2>1, FreeLeavesFacts DEF sm_free_space_fails
  <2>3. ASSUME NEW P \in MergedPrev(b, c)
        PROVE  Apart((extents \ (NextOf(b, c) \cup P)) \cup {Merged(b, c, P)})
    BY <1>1, <1>6, MergedApart
  <2>. QED  BY <1>2, <2>2, <2>3, FewerApart
<1>7. CASE extents' = extents
  BY <1>2, <1>7
<1>. QED  BY <1>3, <1>4, <1>5, <1>6, <1>7
          DEF AnyNext, Next, AllocStep, FreeStep, OverlapStep, sm_alloc_space_none,
              sm_free_space_overlap, vars

\* free_space merges with both neighbours, and what alloc_space splits it cuts
\* where it takes blocks: in a tree of one node no two entries are adjacent.
THEOREM AnySpecCoalesced ==
  ASSUME Fits
  PROVE  AnySpec => []Coalesced
<1>1. Init => IInv /\ Coalesced
  <2>1. SpaceAssumption /\ Init => Coalesced
    BY DEF SpaceAssumption, Init, Coalesced
  <2>. QED  BY <2>1, InitIInv, SpaceAssumption
<1>2. IInv /\ Coalesced /\ [AnyNext]_vars => IInv' /\ Coalesced'
  BY NextIInv, NextCoalesced
<1>. QED  BY <1>1, <1>2, PTL DEF AnySpec
-----------------------------------------------------------------------------
(***************************************************************************)
(* The refinement: the extents are read as the set of blocks they cover.   *)
(***************************************************************************)
\* At the start the extents cover the blocks of the pool that nobody has.
LEMMA InitPool == Init => Abstract!Init
<1>. SUFFICES ASSUME Init PROVE Abstract!Init
  OBVIOUS
<1>1. CASE used = {}
  <2>1. FreeBlocks = Pool
    BY <1>1 DEF Init, FreeBlocks, Cover, Blocks, Pool
  <2>. QED  BY <1>1, <2>1 DEF Init, Abstract!Init
<1>2. CASE used # {}
  <2>1. FreeBlocks = {}
    BY <1>2 DEF Init, FreeBlocks, Cover
  <2>. QED  BY <1>2, <2>1 DEF Init, Abstract!Init
<1>. QED  BY <1>1, <1>2

\* The run that leaves the free blocks is one that the pool may hand out.
LEMMA AllocPool ==
  ASSUME Fits, IInv, NEW c \in 1 .. MaxCnt, sm_alloc_space(c)
  PROVE  Abstract!Alloc
<1>1. PICK a \in Int, n \in 1 .. c :
        /\ Run(a, n) \subseteq Cover(extents)
        /\ Cover(extents') = Cover(extents) \ Run(a, n)
        /\ used' = used \cup Run(a, n) /\ lost' = lost
  BY AllocEffect
<1> DEFINE t == a + n - 1
<1>2. Run(a, n) = a .. t /\ t \in Int /\ a <= t /\ t - a < MaxCnt
  BY SpaceAssumption DEF Run
<1>. HIDE DEF t
<1>3. a \in FreeBlocks /\ t \in FreeBlocks
  BY <1>1, <1>2 DEF FreeBlocks
<1>4. /\ a .. t \subseteq FreeBlocks
      /\ FreeBlocks' = FreeBlocks \ (a .. t)
      /\ used' = used \cup (a .. t)
  BY <1>1, <1>2 DEF FreeBlocks
<1>. QED  BY <1>1, <1>2, <1>3, <1>4 DEF Abstract!Alloc

\* The run that is freed comes back whole.
LEMMA FreePool ==
  ASSUME Fits, IInv, NEW s \in used, NEW c \in 1 .. MaxCnt,
         Run(s, c) \subseteq used, sm_free_space(s, c)
  PROVE  Abstract!Release
<1>1. /\ Cover(extents') = Cover(extents) \cup Run(s, c)
      /\ used' = used \ Run(s, c) /\ lost' = lost
  BY FreeEffect
<1> DEFINE t == s + c - 1
<1>2. s \in Int
  BY IInvBlocks, SpaceAssumption DEF Pool, Run
<1>3. Run(s, c) = s .. t /\ t \in Int /\ s <= t
  BY <1>2, SpaceAssumption DEF Run
<1>. HIDE DEF t
<1>4. t \in used
  BY <1>2, <1>3
<1>5. /\ s .. t \subseteq used
      /\ FreeBlocks' = FreeBlocks \cup (s .. t)
      /\ used' = used \ (s .. t)
  BY <1>1, <1>3 DEF FreeBlocks
<1>. QED  BY <1>1, <1>3, <1>4, <1>5 DEF Abstract!Release

\* A failed allocation drops free blocks, a failed free also those returned.
LEMMA FailsPool ==
  ASSUME Fits, IInv, NEW c \in 1 .. MaxCnt
  PROVE  /\ sm_alloc_space_fails(c) => Abstract!Drop
         /\ \A s \in used : Run(s, c) \subseteq used /\ sm_free_space_fails(s, c)
                            => Abstract!Drop
<1>1. ASSUME sm_alloc_space_fails(c)
      PROVE  Abstract!Drop
  <2>1. /\ Cover(extents') \subseteq Cover(extents)
        /\ lost' = lost \cup (Cover(extents) \ Cover(extents'))
        /\ used' = used
    BY <1>1, AllocFailsEffect
  <2>2. Cover(extents) \ Cover(extents') = (Cover(extents) \cup used) \ (Cover(extents') \cup used')
    BY <2>1, IInvBlocks
  <2>. QED  BY <2>1, <2>2 DEF Abstract!Drop, FreeBlocks
<1>2. ASSUME NEW s \in used, Run(s, c) \subseteq used, sm_free_space_fails(s, c)
      PROVE  Abstract!Drop
  <2>1. /\ Cover(extents') \subseteq Cover(extents) \cup Run(s, c)
        /\ lost' = lost \cup ((Cover(extents) \cup Run(s, c)) \ Cover(extents'))
        /\ used' = used \ Run(s, c)
    BY <1>2, FreeFailsEffect
  <2>2. (Cover(extents) \cup Run(s, c)) \ Cover(extents')
          = (Cover(extents) \cup used) \ (Cover(extents') \cup used')
    BY <1>2, <2>1, IInvBlocks
  <2>3. used' \subseteq used /\ Cover(extents') \subseteq Cover(extents) \cup (used \ used')
    BY <1>2, <2>1
  <2>. QED  BY <2>1, <2>2, <2>3 DEF Abstract!Drop, FreeBlocks
<1>. QED  BY <1>1, <1>2

\* Every step of the space manager is a step of the pool or leaves it alone.
LEMMA NextPool ==
  ASSUME Fits, IInv, [AnyNext]_vars
  PROVE  [Abstract!Next]_(Abstract!vars)
<1>1. ASSUME NEW c \in 1 .. MaxCnt, sm_alloc_space(c)
      PROVE  Abstract!Next
  BY <1>1, AllocPool DEF Abstract!Next
<1>2. ASSUME NEW c \in 1 .. MaxCnt, sm_alloc_space_fails(c)
      PROVE  Abstract!Next
  BY <1>2, FailsPool DEF Abstract!Next
<1>3. ASSUME NEW s \in used, NEW c \in 1 .. MaxCnt, Run(s, c) \subseteq used,
             sm_free_space(s, c)
      PROVE  Abstract!Next
  BY <1>3, FreePool DEF Abstract!Next
<1>4. ASSUME NEW s \in used, NEW c \in 1 .. MaxCnt, Run(s, c) \subseteq used,
             sm_free_space_fails(s, c)
      PROVE  Abstract!Next
  BY <1>4, FailsPool DEF Abstract!Next
<1>5. ASSUME UNCHANGED <<extents, used, lost>>
      PROVE  UNCHANGED Abstract!vars
  BY <1>5 DEF Abstract!vars, FreeBlocks
<1>6. ASSUME NEW c, sm_alloc_space_none(c)
      PROVE  UNCHANGED Abstract!vars
  BY <1>5, <1>6 DEF sm_alloc_space_none
<1>7. ASSUME NEW s, NEW c, sm_free_space_overlap(s, c)
      PROVE  UNCHANGED Abstract!vars
  BY <1>5, <1>7 DEF sm_free_space_overlap
<1>8. CASE UNCHANGED vars
  BY <1>5, <1>8 DEF vars
<1>. QED  BY <1>1, <1>2, <1>3, <1>4, <1>6, <1>7, <1>8
          DEF AnyNext, Next, AllocStep, FreeStep, OverlapStep

\* The extent manager implements a pool of blocks: whatever split, merge or
\* failure a caller meets, it is handed one run of free blocks, gives one back,
\* or loses some.
THEOREM AnySpecImplementsPool ==
  ASSUME Fits
  PROVE  AnySpec => ImplementsPool
<1>1. Init => Abstract!Init
  BY InitPool
<1>2. IInv /\ [AnyNext]_vars => [Abstract!Next]_(Abstract!vars)
  BY NextPool
<1>. QED  BY <1>1, <1>2, AnySpecIInv, PTL DEF AnySpec, ImplementsPool, Abstract!Spec
=============================================================================
