--------------------------- MODULE BaseSpaceProofs ---------------------------
(***************************************************************************)
(* Proofs about the two space managers of a container: with any number of  *)
(* threads and blocks, whatever the order in which they refill bsm, copy   *)
(* roots and split nodes, no block is ever in two places (OneOwner), and   *)
(* none disappears as long as requests come one after the other            *)
(* (NothingLost), but for those whose free fails.  Second part: base_blk   *)
(* is there whenever the root of bsm moves, and bsm runs dry only if more  *)
(* than MIN_BLK_NUM splits come between two refills (ReserveEnough).       *)
(***************************************************************************)
EXTENDS BaseSpace, FiniteSetTheorems, TLAPS

-----------------------------------------------------------------------------
(***************************************************************************)
(* Who has a block: a place, a request that runs, or the failed frees.     *)
(***************************************************************************)
PlaceNames == {"sm_free", "bsm_free", "sm_nodes", "user",
               "sm_root", "bsm_root", "base_blk", "leaked"}
HoldNames == {"run", "brun", "old", "blk"}

Owners == ({None} \X PlaceNames) \cup (Threads \X HoldNames)

\* A request keeps the block it frees until it asks sm to take it.
Pending(t) == th[t].job = "free" /\ th[t].call # "free"

Holds(t, name) ==
  IF name = "run" THEN th[t].run
  ELSE IF name = "brun" THEN th[t].brun
  ELSE IF name = "old" THEN {th[t].old} \ {0}
  ELSE IF Pending(t) THEN {th[t].blk} ELSE {}

PlaceOf(name) ==
  IF name = "sm_free" THEN sm_free
  ELSE IF name = "bsm_free" THEN bsm_free
  ELSE IF name = "sm_nodes" THEN sm_nodes
  ELSE IF name = "user" THEN user
  ELSE IF name = "sm_root" THEN {sm_root}
  ELSE IF name = "bsm_root" THEN {bsm_root}
  ELSE IF name = "leaked" THEN leaked
  ELSE {base_blk} \ {0}

Has(o) == IF o[1] = None THEN PlaceOf(o[2]) ELSE Holds(o[1], o[2])

Owned == [o \in Owners |-> Has(o)]

Disjoint(f) == \A o, p \in Owners : o # p => f[o] \cap f[p] = {}

Covers(f) == \A x \in Block : \E o \in Owners : x \in f[o]
-----------------------------------------------------------------------------
(***************************************************************************)
(* The inductive invariant.                                                *)
(***************************************************************************)
InTree == {"sm_tree", "sm_copy", "sm_cow", "sm_node"}
InBsm == {"bsm_cow", "bsm_old", "bsm_tree"}
Between == {"idle", "reserve", "check", "count"}
After == {"set_base", "give", "done"}
Labels == InTree \cup InBsm \cup Between \cup After \cup {"sm", "bsm"}

\* A thread that asks bsm for something, and what it does so for.
CallsBsm(t) == th[t].pc \in InBsm \cup {"bsm"}
InSm(t) == th[t].pc \in InTree \/ (CallsBsm(t) /\ th[t].bback # "check")
CallsSm(t) == th[t].pc = "sm" \/ InSm(t)

Thread == [pc : Labels, job : {"none", "create", "alloc", "free"},
           blk : Block \cup {0}, call : Calls, cnt : 0 .. LenMod - 1,
           run : SUBSET Block, back : After \cup {"idle"},
           old : Block \cup {0}, bcall : Calls, brun : SUBSET Block,
           bback : InTree \cup {"check", "idle"}, node : Block \cup {0}]

SharedOK ==
  /\ sm_free \subseteq Block /\ bsm_free \subseteq Block
  /\ sm_nodes \subseteq Block /\ sm_clean \subseteq sm_nodes
  /\ user \subseteq Block /\ leaked \subseteq Block
  /\ base_blk \in {0} \cup Block
  /\ sm_root \in Block /\ bsm_root \in Block
  /\ sm_dirty \in BOOLEAN /\ bsm_dirty \in BOOLEAN
  /\ sm_lock \in Threads \cup {None} /\ bsm_lock \in Threads \cup {None}
  /\ phase \in {"new", "creating", "open", "unusable", "aborted", "dry"}

TypeInv == SharedOK /\ th \in [Threads -> Thread]

\* What the local variables of a thread hold where.
LocalInv(t) ==
  /\ th[t].pc = "idle" => th[t] = Idle
  /\ th[t].job = "free" => th[t].blk \in Block
  /\ th[t].pc \in Between => /\ th[t].run = {}
                             /\ th[t].call # "free"
  /\ th[t].pc \in Between \cup After \cup {"sm", "sm_tree"} => th[t].brun = {}
  /\ th[t].pc # "bsm_old" => th[t].old = 0
  /\ th[t].pc \in {"set_base", "give"} => th[t].call = "alloc"
  /\ th[t].pc = "done" => /\ th[t].call \in {"alloc", "free"}
                          /\ (th[t].call = "free") = (th[t].job = "free")
                          /\ th[t].call = "free" => th[t].run = {}
  /\ th[t].pc = "set_base" => \E b \in Block : th[t].run \subseteq {b}
  /\ CallsSm(t) =>
       /\ th[t].call \in {"alloc", "free"}
       /\ th[t].back \in After
       /\ th[t].call = "alloc" => th[t].run = {}
       /\ th[t].call = "free" => th[t].back = "done"
       /\ th[t].back = "done" => (th[t].call = "free") = (th[t].job = "free")
       /\ th[t].back = "set_base" => th[t].cnt = 1
  /\ th[t].pc = "sm_cow" => \E b \in Block : th[t].brun \subseteq {b}
  /\ CallsBsm(t) =>
       /\ \/ th[t].bcall = "free" /\ th[t].bback \in {"check", "sm_tree"}
          \/ th[t].bcall = "alloc" /\ th[t].brun = {}
             /\ th[t].bback \in {"sm_copy", "sm_cow", "sm_node"}
       /\ th[t].bback = "check" => th[t].run = {} /\ th[t].call # "free"

\* The lock of sm is held while its tree changes: the node that moves stays
\* in the tree.
LockInv(t) ==
  /\ InSm(t) => sm_lock = t
  /\ th[t].pc = "sm_copy" \/ (CallsBsm(t) /\ th[t].bback = "sm_copy") =>
       th[t].node \in sm_nodes

\* Without overlap one request runs at most, and no block is out of reach.
SerialInv ==
  ~overlap =>
    /\ \A t, u \in Threads : th[t].pc # "idle" /\ th[u].pc # "idle" => t = u
    /\ Covers(Owned)
    /\ \A t \in Threads :
         th[t].pc = "set_base" \/ (CallsSm(t) /\ th[t].back = "set_base") =>
           base_blk = 0 /\ th[t].pc # "bsm_old"

NewInv == phase = "new" => \A t \in Threads : th[t].pc = "idle"

IInv ==
  /\ TypeInv
  /\ \A t \in Threads : LocalInv(t) /\ LockInv(t)
  /\ overlap \in BOOLEAN
  /\ Disjoint(Owned)
  /\ SerialInv
  /\ NewInv
-----------------------------------------------------------------------------
(***************************************************************************)
(* Blocks that move from owner to owner.                                   *)
(***************************************************************************)

\* From f to g the blocks X move to owner p and the blocks Y to owner q.
Moves(f, g, X, p, Y, q) ==
  \A o \in Owners :
    g[o] = (f[o] \ (X \cup Y)) \cup (IF o = p THEN X ELSE {})
                               \cup (IF o = q THEN Y ELSE {})

\* Blocks that move from an owner to another keep one owner.
LEMMA MovesKeepDisjoint ==
  ASSUME NEW f, NEW g, NEW a \in Owners, NEW b \in Owners, a # b,
         NEW X, X \subseteq f[a], NEW Y, Y \subseteq f[b],
         NEW p \in Owners, NEW q \in Owners,
         Disjoint(f), Moves(f, g, X, p, Y, q)
  PROVE  Disjoint(g)
<1>. SUFFICES ASSUME NEW o \in Owners, NEW u \in Owners, o # u,
                     NEW x, x \in g[o], x \in g[u]
              PROVE  FALSE
  BY DEF Disjoint
<1>1. X \cap Y = {}
  BY DEF Disjoint
<1>2. \/ x \in f[o] /\ x \notin X /\ x \notin Y
      \/ o = p /\ x \in X
      \/ o = q /\ x \in Y
  BY DEF Moves
<1>3. \/ x \in f[u] /\ x \notin X /\ x \notin Y
      \/ u = p /\ x \in X
      \/ u = q /\ x \in Y
  BY DEF Moves
<1>. QED BY <1>1, <1>2, <1>3 DEF Disjoint

\* Blocks that move to an owner are not lost.
LEMMA MovesKeepAll ==
  ASSUME NEW f, NEW g, NEW X, NEW Y, NEW p \in Owners, NEW q \in Owners,
         Covers(f), Moves(f, g, X, p, Y, q)
  PROVE  Covers(g)
<1>. SUFFICES ASSUME NEW x \in Block PROVE \E o \in Owners : x \in g[o]
  BY DEF Covers
<1>1. CASE x \in X
  BY <1>1 DEF Moves
<1>2. CASE x \in Y
  BY <1>2 DEF Moves
<1>3. CASE x \notin X \cup Y
  BY <1>3 DEF Moves, Covers
<1>. QED BY <1>1, <1>2, <1>3

\* The owners are the places and what the requests hold.
LEMMA OwnerCases ==
  ASSUME NEW o \in Owners
  PROVE  \/ o \in {<<None, "sm_free">>, <<None, "bsm_free">>, <<None, "sm_nodes">>,
                   <<None, "user">>, <<None, "sm_root">>, <<None, "bsm_root">>,
                   <<None, "base_blk">>, <<None, "leaked">>}
         \/ \E t \in Threads : o \in {<<t, "run">>, <<t, "brun">>, <<t, "old">>, <<t, "blk">>}
BY DEF Owners, PlaceNames, HoldNames

\* The blocks of each owner.
LEMMA OwnedFacts ==
  /\ Owned[<<None, "sm_free">>] = sm_free
  /\ Owned[<<None, "bsm_free">>] = bsm_free
  /\ Owned[<<None, "sm_nodes">>] = sm_nodes
  /\ Owned[<<None, "user">>] = user
  /\ Owned[<<None, "sm_root">>] = {sm_root}
  /\ Owned[<<None, "bsm_root">>] = {bsm_root}
  /\ Owned[<<None, "base_blk">>] = {base_blk} \ {0}
  /\ Owned[<<None, "leaked">>] = leaked
  /\ \A t \in Threads :
       /\ Owned[<<t, "run">>] = th[t].run
       /\ Owned[<<t, "brun">>] = th[t].brun
       /\ Owned[<<t, "old">>] = {th[t].old} \ {0}
       /\ Owned[<<t, "blk">>] = IF Pending(t) THEN {th[t].blk} ELSE {}
BY BaseSpaceAssumption DEF Owned, Owners, PlaceNames, HoldNames, Has, PlaceOf, Holds

\* No two places overlap.
LEMMA DisjointPlaces == Disjoint(Owned) => OneOwner
<1> DEFINE name == <<"sm_free", "bsm_free", "sm_nodes", "user",
                     "sm_root", "bsm_root", "base_blk">>
<1>. SUFFICES ASSUME Disjoint(Owned), NEW i \in 1 .. 7, NEW j \in 1 .. 7, i # j
              PROVE  Places[i] \cap Places[j] = {}
  BY DEF OneOwner
<1>1. ASSUME NEW k \in 1 .. 7
      PROVE  <<None, name[k]>> \in Owners /\ Places[k] = Owned[<<None, name[k]>>]
  <2>1. k \in {1, 2, 3, 4, 5, 6, 7}
    OBVIOUS
  <2>2. <<None, name[k]>> \in Owners
    BY <2>1 DEF Owners, PlaceNames
  <2>3. Places[k] = Owned[<<None, name[k]>>]
    <3>1. /\ Places[1] = sm_free /\ Places[2] = bsm_free /\ Places[3] = sm_nodes
          /\ Places[4] = user /\ Places[5] = {sm_root} /\ Places[6] = {bsm_root}
          /\ Places[7] = {base_blk} \ {0}
      BY DEF Places
    <3>2. /\ name[1] = "sm_free" /\ name[2] = "bsm_free" /\ name[3] = "sm_nodes"
          /\ name[4] = "user" /\ name[5] = "sm_root" /\ name[6] = "bsm_root"
          /\ name[7] = "base_blk"
      OBVIOUS
    <3>. HIDE DEF name
    <3>. QED BY <2>1, <3>1, <3>2, OwnedFacts
  <2>. QED BY <2>2, <2>3
<1>2. name[i] # name[j]
  <2>1. i \in {1, 2, 3, 4, 5, 6, 7} /\ j \in {1, 2, 3, 4, 5, 6, 7}
    OBVIOUS
  <2>. QED BY <2>1
<1>. QED BY <1>1, <1>2 DEF Disjoint

\* The types of the inductive invariant are those that the runs check.
LEMMA TypeInvTypes == TypeInv => TypeOK
BY DEF TypeInv, SharedOK, TypeOK, Thread
-----------------------------------------------------------------------------
(***************************************************************************)
(* What all steps of a thread have in common.                              *)
(***************************************************************************)

\* A step of t leaves the local variables of the other threads alone.
OnlyThread(t) ==
  /\ th' \in [Threads -> Thread]
  /\ \A u \in Threads : u # t => th'[u] = th[u]

\* The tree of sm changes in the hands of the thread that has its lock.
TreeKept(t) ==
  \/ sm_lock' = sm_lock /\ sm_nodes' = sm_nodes
  \/ sm_lock = None /\ sm_nodes' = sm_nodes
  \/ InSm(t)

\* A request that fetches a block for base_blk finds none there meanwhile.
BaseWanted(t) == th[t].pc = "set_base" \/ (CallsSm(t) /\ th[t].back = "set_base")

\* What is left to show of a step of a request that runs.
LEMMA StepInv ==
  ASSUME IInv, NEW t \in Threads, th[t].pc # "idle",
         SharedOK', OnlyThread(t), LocalInv(t)', LockInv(t)', TreeKept(t),
         phase' # "new", overlap' = overlap,
         Disjoint(Owned'), ~overlap => Covers(Owned'),
         ~overlap /\ BaseWanted(t)' => base_blk' = 0 /\ th'[t].pc # "bsm_old"
  PROVE  IInv'
<1>1. TypeInv'
  BY DEF TypeInv, OnlyThread
<1>2. ASSUME NEW u \in Threads PROVE LocalInv(u)' /\ LockInv(u)'
  <2>1. CASE u = t
    BY <2>1
  <2>2. CASE u # t
    <3>1. th'[u] = th[u] /\ LocalInv(u) /\ LockInv(u) /\ LockInv(t)
      BY <2>2 DEF OnlyThread, IInv
    <3>2. LocalInv(u)'
      BY <3>1 DEF LocalInv, CallsSm, InSm, CallsBsm
    <3>3. InSm(u)' = InSm(u) /\ CallsBsm(u)' = CallsBsm(u)
      BY <3>1 DEF InSm, CallsBsm
    <3>4. th[u].pc = "sm_copy" \/ (CallsBsm(u) /\ th[u].bback = "sm_copy") => InSm(u)
      BY DEF InSm, InTree
    <3>5. InSm(u) => sm_lock' = sm_lock /\ sm_nodes' = sm_nodes
      BY <2>2, <3>1, BaseSpaceAssumption DEF TreeKept, LockInv
    <3>. QED BY <3>1, <3>2, <3>3, <3>4, <3>5 DEF LockInv
  <2>. QED BY <2>1, <2>2
<1>3. SerialInv'
  <2>1. SUFFICES ASSUME ~overlap
                 PROVE  /\ \A u, v \in Threads :
                             th'[u].pc # "idle" /\ th'[v].pc # "idle" => u = v
                        /\ Covers(Owned')
                        /\ \A u \in Threads : BaseWanted(u)' =>
                             base_blk' = 0 /\ th'[u].pc # "bsm_old"
    BY DEF SerialInv, BaseWanted, Covers
  <2>2. \A u \in Threads : u # t => th'[u].pc = "idle"
    BY <2>1 DEF OnlyThread, IInv, SerialInv
  <2>3. \A u \in Threads : th'[u].pc = "idle" => ~BaseWanted(u)'
    BY DEF BaseWanted, CallsSm, InSm, CallsBsm, InTree, InBsm
  <2>. QED BY <2>1, <2>2, <2>3
<1>4. NewInv'
  BY DEF NewInv
<1>. QED BY <1>1, <1>2, <1>3, <1>4 DEF IInv, Disjoint

\* The same for a step that moves blocks and loses none.
LEMMA MoveInv ==
  ASSUME IInv, NEW t \in Threads, th[t].pc # "idle",
         SharedOK', OnlyThread(t), LocalInv(t)', LockInv(t)', TreeKept(t),
         phase' # "new", overlap' = overlap,
         NEW a \in Owners, NEW b \in Owners, a # b,
         NEW X, X \subseteq Owned[a], NEW Y, Y \subseteq Owned[b],
         NEW p \in Owners, NEW q \in Owners, Moves(Owned, Owned', X, p, Y, q),
         ~overlap /\ BaseWanted(t)' => base_blk' = 0 /\ th'[t].pc # "bsm_old"
  PROVE  IInv'
<1>1. Disjoint(Owned')
  BY MovesKeepDisjoint DEF IInv
<1>2. ~overlap => Covers(Owned')
  BY MovesKeepAll DEF IInv, SerialInv
<1>. QED BY <1>1, <1>2, StepInv

\* And for a step that only changes where a thread is.
LEMMA StayInv ==
  ASSUME IInv, NEW t \in Threads, th[t].pc # "idle",
         SharedOK', OnlyThread(t), LocalInv(t)', LockInv(t)', TreeKept(t),
         phase' # "new", overlap' = overlap,
         UNCHANGED <<sm_free, bsm_free, sm_nodes, user, sm_root, bsm_root, base_blk, leaked>>,
         th'[t].run = th[t].run, th'[t].brun = th[t].brun, th'[t].old = th[t].old,
         Pending(t)' = Pending(t), th'[t].blk = th[t].blk,
         ~overlap /\ BaseWanted(t)' => base_blk' = 0 /\ th'[t].pc # "bsm_old"
  PROVE  IInv'
<1>1. \A o \in Owners : Has(o)' = Has(o)
  <2>. SUFFICES ASSUME NEW o \in Owners PROVE Has(o)' = Has(o)
    OBVIOUS
  <2>1. CASE o[1] = None
    BY <2>1 DEF Has, PlaceOf
  <2>2. CASE o[1] # None
    <3>1. o[1] \in Threads
      BY <2>2 DEF Owners
    <3>2. CASE o[1] = t
      BY <2>2, <3>2 DEF Has, Holds
    <3>3. CASE o[1] # t
      <4>1. th'[o[1]] = th[o[1]]
        BY <3>1, <3>3 DEF OnlyThread
      <4>. QED BY <2>2, <4>1 DEF Has, Holds, Pending
    <3>. QED BY <3>2, <3>3
  <2>. QED BY <2>1, <2>2
<1>2. Owned' = Owned
  BY <1>1 DEF Owned
<1>. QED BY <1>2, StepInv DEF IInv, SerialInv

\* What the inductive invariant says of one thread.
LEMMA ThreadFacts ==
  ASSUME IInv, NEW t \in Threads
  PROVE  /\ th \in [Threads -> Thread] /\ th[t] \in Thread /\ SharedOK
         /\ LocalInv(t) /\ LockInv(t)
BY DEF IInv, TypeInv

\* Local variables that a step of t leaves alone.
SameJob(t) == th'[t].job = th[t].job /\ th'[t].blk = th[t].blk
SameSm(t) ==
  th'[t].call = th[t].call /\ th'[t].cnt = th[t].cnt /\ th'[t].back = th[t].back
SameBsm(t) ==
  th'[t].bcall = th[t].bcall /\ th'[t].bback = th[t].bback /\ th'[t].node = th[t].node

\* CallSm: a request to sm begins, the one to bsm is left alone.
LEMMA CallSmIs ==
  ASSUME IInv, NEW t \in Threads, NEW call \in Calls, NEW cnt \in 0 .. LenMod - 1,
         NEW run \in SUBSET Block, NEW back \in After,
         CallSm(t, call, cnt, run, back)
  PROVE  /\ OnlyThread(t)
         /\ th'[t].pc = "sm" /\ th'[t].call = call /\ th'[t].cnt = cnt
         /\ th'[t].run = run /\ th'[t].back = back
         /\ th'[t].brun = th[t].brun /\ th'[t].old = th[t].old
         /\ SameJob(t) /\ SameBsm(t)
<1>1. th \in [Threads -> Thread] /\ th[t] \in Thread
  BY ThreadFacts
<1>2. th'[t] = [th[t] EXCEPT !.pc = "sm", !.call = call, !.cnt = cnt,
                             !.run = run, !.back = back]
  BY <1>1 DEF CallSm
<1>3. th'[t] \in Thread
  BY ZenonT(60), <1>1, <1>2 DEF Thread, Labels
<1>4. OnlyThread(t)
  BY <1>1, <1>3 DEF CallSm, OnlyThread
<1>. QED BY <1>1, <1>2, <1>4 DEF Thread, SameJob, SameBsm

\* CallBsm: a request to bsm begins, the one to sm is left alone.
LEMMA CallBsmIs ==
  ASSUME IInv, NEW t \in Threads, NEW call \in Calls,
         NEW run \in SUBSET Block, NEW back \in InTree, NEW node \in Block \cup {0},
         CallBsm(t, call, run, back, node)
  PROVE  /\ OnlyThread(t)
         /\ th'[t].pc = "bsm" /\ th'[t].bcall = call /\ th'[t].brun = run
         /\ th'[t].bback = back /\ th'[t].node = node
         /\ th'[t].run = th[t].run /\ th'[t].old = th[t].old
         /\ SameJob(t) /\ SameSm(t)
<1>1. th \in [Threads -> Thread] /\ th[t] \in Thread
  BY ThreadFacts
<1>2. th'[t] = [th[t] EXCEPT !.pc = "bsm", !.bcall = call, !.brun = run,
                             !.bback = back, !.node = node]
  BY <1>1 DEF CallBsm
<1>3. th'[t] \in Thread
  BY ZenonT(60), <1>1, <1>2 DEF Thread, Labels
<1>4. OnlyThread(t)
  BY <1>1, <1>3 DEF CallBsm, OnlyThread
<1>. QED BY <1>1, <1>2, <1>4 DEF Thread, SameJob, SameSm

\* Goto: only the step changes.
LEMMA GotoIs ==
  ASSUME IInv, NEW t \in Threads, NEW label \in Labels, Goto(t, label)
  PROVE  /\ OnlyThread(t)
         /\ th'[t].pc = label
         /\ th'[t].run = th[t].run /\ th'[t].brun = th[t].brun
         /\ th'[t].old = th[t].old
         /\ SameJob(t) /\ SameSm(t) /\ SameBsm(t)
<1>1. th \in [Threads -> Thread] /\ th[t] \in Thread
  BY ThreadFacts
<1>2. th'[t] = [th[t] EXCEPT !.pc = label]
  BY <1>1 DEF Goto
<1>3. th'[t] \in Thread
  BY <1>1, <1>2 DEF Thread, Labels
<1>4. OnlyThread(t)
  BY <1>1, <1>3 DEF Goto, OnlyThread
<1>. QED BY <1>1, <1>2, <1>4 DEF Thread, SameJob, SameSm, SameBsm

\* Finish: the thread is idle again.
LEMMA FinishIs ==
  ASSUME IInv, NEW t \in Threads, Finish(t)
  PROVE  /\ OnlyThread(t) /\ th'[t] = Idle /\ LocalInv(t)'
         /\ ~InSm(t)' /\ ~CallsBsm(t)' /\ ~BaseWanted(t)'
<1>1. th \in [Threads -> Thread]
  BY ThreadFacts
<1>2. Idle \in Thread
  BY BaseSpaceAssumption DEF Idle, Thread, Labels, Between, After, Calls, InTree
<1>3. th'[t] = Idle
  BY <1>1 DEF Finish
<1>4. OnlyThread(t)
  BY <1>1, <1>2 DEF Finish, OnlyThread
<1>5. LocalInv(t)' /\ ~InSm(t)' /\ ~CallsBsm(t)' /\ ~BaseWanted(t)'
  BY <1>3 DEF Idle, LocalInv, CallsSm, InSm, CallsBsm, BaseWanted, InTree, InBsm,
              Between, After
<1>. QED BY <1>3, <1>4, <1>5

\* The blocks that a step of t may move: those of the places and its own.
LEMMA OwnedNext ==
  ASSUME NEW t \in Threads, OnlyThread(t), NEW o \in Owners
  PROVE  \/ Owned'[o] = Owned[o]
         \/ o = <<None, "sm_free">> /\ sm_free' # sm_free
         \/ o = <<None, "bsm_free">> /\ bsm_free' # bsm_free
         \/ o = <<None, "sm_nodes">> /\ sm_nodes' # sm_nodes
         \/ o = <<None, "user">> /\ user' # user
         \/ o = <<None, "sm_root">> /\ sm_root' # sm_root
         \/ o = <<None, "bsm_root">> /\ bsm_root' # bsm_root
         \/ o = <<None, "base_blk">> /\ base_blk' # base_blk
         \/ o = <<None, "leaked">> /\ leaked' # leaked
         \/ o = <<t, "run">> /\ th'[t].run # th[t].run
         \/ o = <<t, "brun">> /\ th'[t].brun # th[t].brun
         \/ o = <<t, "old">> /\ th'[t].old # th[t].old
         \/ o = <<t, "blk">> /\ (Pending(t)' # Pending(t) \/ ~SameJob(t))
<1>1. Owned[o] = Has(o) /\ Owned'[o] = Has(o)'
  BY DEF Owned
<1>2. CASE o[1] = None
  <2>1. o \in {None} \X PlaceNames
    BY <1>2, BaseSpaceAssumption DEF Owners
  <2>2. Has(o) = PlaceOf(o[2]) /\ Has(o)' = PlaceOf(o[2])'
    BY <1>2 DEF Has
  <2>3. PICK name \in PlaceNames : o = <<None, name>>
    BY <2>1
  <2>. QED BY <1>1, <2>2, <2>3 DEF PlaceOf, PlaceNames
<1>3. CASE o[1] # None
  <2>1. PICK u \in Threads, name \in HoldNames : o = <<u, name>>
    BY <1>3 DEF Owners
  <2>2. Has(o) = Holds(u, name) /\ Has(o)' = Holds(u, name)'
    BY <1>3, <2>1 DEF Has
  <2>3. CASE u # t
    <3>1. th'[u] = th[u]
      BY <2>3 DEF OnlyThread
    <3>. QED BY <1>1, <2>2, <3>1 DEF Holds, Pending
  <2>4. CASE u = t
    BY <1>1, <2>1, <2>2, <2>4 DEF Holds, HoldNames, SameJob
  <2>. QED BY <2>3, <2>4
<1>. QED BY <1>2, <1>3

\* Blocks X move from one owner to another.
LEMMA OneMove ==
  ASSUME IInv, NEW a \in Owners, NEW p \in Owners, a # p, NEW X, X \subseteq Owned[a],
         Owned'[a] = Owned[a] \ X, Owned'[p] = Owned[p] \cup X,
         \A o \in Owners : o # a /\ o # p => Owned'[o] = Owned[o]
  PROVE  Moves(Owned, Owned', X, p, {}, p)
<1>. SUFFICES ASSUME NEW o \in Owners
              PROVE  Owned'[o] = (Owned[o] \ X) \cup (IF o = p THEN X ELSE {})
  BY DEF Moves
<1>1. o # a => Owned[o] \cap X = {}
  BY DEF IInv, Disjoint
<1>. QED BY <1>1

\* X and Y change places.
LEMMA Exchange ==
  ASSUME IInv, NEW a \in Owners, NEW b \in Owners, a # b,
         NEW X, X \subseteq Owned[a], NEW Y, Y \subseteq Owned[b],
         Owned'[a] = (Owned[a] \ X) \cup Y, Owned'[b] = (Owned[b] \ Y) \cup X,
         \A o \in Owners : o # a /\ o # b => Owned'[o] = Owned[o]
  PROVE  Moves(Owned, Owned', X, b, Y, a)
<1>. SUFFICES ASSUME NEW o \in Owners
              PROVE  Owned'[o] = (Owned[o] \ (X \cup Y))
                                   \cup (IF o = b THEN X ELSE {})
                                   \cup (IF o = a THEN Y ELSE {})
  BY DEF Moves
<1>1. /\ o # a => Owned[o] \cap X = {}
      /\ o # b => Owned[o] \cap Y = {}
  BY DEF IInv, Disjoint
<1>. QED BY <1>1

\* X takes the place of Y, which moves on.
LEMMA Chain ==
  ASSUME IInv, NEW a \in Owners, NEW b \in Owners, NEW q \in Owners,
         a # b, a # q, b # q,
         NEW X, X \subseteq Owned[a], NEW Y, Y \subseteq Owned[b],
         Owned'[a] = Owned[a] \ X, Owned'[b] = (Owned[b] \ Y) \cup X,
         Owned'[q] = Owned[q] \cup Y,
         \A o \in Owners : o # a /\ o # b /\ o # q => Owned'[o] = Owned[o]
  PROVE  Moves(Owned, Owned', X, b, Y, q)
<1>. SUFFICES ASSUME NEW o \in Owners
              PROVE  Owned'[o] = (Owned[o] \ (X \cup Y))
                                   \cup (IF o = b THEN X ELSE {})
                                   \cup (IF o = q THEN Y ELSE {})
  BY DEF Moves
<1>1. /\ o # a => Owned[o] \cap X = {}
      /\ o # b => Owned[o] \cap Y = {}
  BY DEF IInv, Disjoint
<1>. QED BY <1>1

\* The places and the holdings of threads are owners.
LEMMA OwnersOf ==
  /\ \A name \in PlaceNames : <<None, name>> \in Owners
  /\ \A t \in Threads, name \in HoldNames : <<t, name>> \in Owners
  /\ \A t \in Threads : t # None
  /\ 0 \notin Block
BY BaseSpaceAssumption DEF Owners, Block

\* OwnedFacts, after a step.
LEMMA OwnedFactsNext == OwnedFacts!:'
BY OwnedFacts, PTL
-----------------------------------------------------------------------------
(***************************************************************************)
(* reserve_base_space keeps the invariant.                                 *)
(***************************************************************************)
\* Is a block for base_blk needed? The thread holds none either way.
LEMMA ReserveInv ==
  ASSUME NEW t \in Threads, IInv, reserve_base(t) PROVE IInv'
<1>1. /\ th[t].pc = "reserve" /\ SharedOK /\ LocalInv(t) /\ NewInv
      /\ th[t].run = {} /\ th[t].brun = {} /\ th[t].old = 0 /\ th[t].call # "free"
  BY ThreadFacts DEF IInv, reserve_base, At, LocalInv, Between
<1>2. /\ 1 \in 0 .. LenMod - 1 /\ "alloc" \in Calls /\ {} \in SUBSET Block
      /\ "set_base" \in After /\ "check" \in Labels
  BY BaseSpaceAssumption DEF Calls, After, Labels, Between
<1>3. /\ OnlyThread(t) /\ SameJob(t) /\ SameBsm(t)
      /\ th'[t].run = {} /\ th'[t].brun = {} /\ th'[t].old = 0
      /\ \/ /\ base_blk = 0 /\ th'[t].pc = "sm" /\ th'[t].call = "alloc"
            /\ th'[t].cnt = 1 /\ th'[t].back = "set_base"
         \/ th'[t].pc = "check" /\ SameSm(t)
  <2>1. CASE base_blk = 0
    <3>1. CallSm(t, "alloc", 1, {}, "set_base")
      BY <2>1 DEF reserve_base
    <3>. QED BY <1>1, <1>2, <2>1, <3>1, CallSmIs
  <2>2. CASE base_blk # 0
    <3>1. Goto(t, "check")
      BY <2>2 DEF reserve_base
    <3>. QED BY <1>1, <1>2, <3>1, GotoIs
  <2>. QED BY <2>1, <2>2
<1>4. ~InSm(t)' /\ ~CallsBsm(t)'
  BY <1>3 DEF InSm, CallsBsm, InTree, InBsm
<1>5. LocalInv(t)' /\ LockInv(t)'
  BY <1>1, <1>3, <1>4 DEF LocalInv, LockInv, CallsSm, Between, After, SameSm, SameJob
<1>6. Pending(t)' = Pending(t) /\ (BaseWanted(t)' => base_blk = 0)
  BY <1>1, <1>3, <1>4 DEF Pending, SameJob, SameSm, BaseWanted, CallsSm
<1>. QED BY <1>1, <1>3, <1>5, <1>6, StayInv
         DEF reserve_base, pools, roots, locks, counters, SharedOK, NewInv, TreeKept, SameJob

\* The block that sm gave becomes base_blk.
LEMMA SetBaseInv ==
  ASSUME NEW t \in Threads, IInv, set_base(t) PROVE IInv'
<1> DEFINE a == <<t, "run">>
           p == <<None, "base_blk">>
<1>1. /\ th[t].pc = "set_base" /\ SharedOK /\ LocalInv(t) /\ LockInv(t) /\ NewInv
      /\ th[t].brun = {} /\ th[t].old = 0 /\ th[t].call = "alloc"
      /\ th \in [Threads -> Thread] /\ th[t] \in Thread
  BY ThreadFacts DEF IInv, set_base, At, LocalInv, After
<1>2. /\ OnlyThread(t) /\ SameJob(t) /\ SameBsm(t) /\ SameSm(t)
      /\ th'[t].run = {} /\ th'[t].brun = {} /\ th'[t].old = 0
      /\ th'[t].pc = "check"
  <2>1. th'[t] = [th[t] EXCEPT !.pc = "check", !.run = {}]
    BY <1>1 DEF set_base
  <2>2. th'[t] \in Thread
    BY ZenonT(60), <1>1, <2>1 DEF Thread, Labels, Between
  <2>3. OnlyThread(t)
    BY <1>1, <2>2 DEF set_base, OnlyThread
  <2>. QED BY <1>1, <2>1, <2>3 DEF Thread, SameJob, SameBsm, SameSm
<1>3. base_blk' \in Block /\ {base_blk'} = th[t].run
  <2>1. PICK b \in Block : th[t].run \subseteq {b}
    BY <1>1 DEF LocalInv
  <2>. QED BY <2>1 DEF set_base
<1>4. ~InSm(t)' /\ ~CallsBsm(t)'
  BY <1>2 DEF InSm, CallsBsm, InTree, InBsm
<1>5. LocalInv(t)' /\ LockInv(t)'
  BY <1>1, <1>2, <1>4 DEF LocalInv, LockInv, CallsSm, Between, After, SameSm, SameJob
<1>6. ~BaseWanted(t)'
  BY <1>2, <1>4 DEF BaseWanted, CallsSm
<1>7. a \in Owners /\ p \in Owners /\ a # p
  BY OwnersOf DEF PlaceNames, HoldNames
<1>8. /\ Owned'[p] = th[t].run /\ Owned'[a] = {} /\ Owned[a] = th[t].run
      /\ Owned[p] = {base_blk} \ {0}
  <2>1. Owned'[p] = {base_blk'} \ {0} /\ Owned'[a] = th'[t].run
    BY OwnedFactsNext
  <2>2. Owned[a] = th[t].run /\ Owned[p] = {base_blk} \ {0}
    BY OwnedFacts
  <2>. QED BY <1>2, <1>3, <2>1, <2>2, OwnersOf
<1>9. \A o \in Owners : o # a /\ o # p => Owned'[o] = Owned[o]
  <2>1. Pending(t)' = Pending(t)
    BY <1>2 DEF Pending, SameSm, SameJob
  <2>. QED BY <1>1, <1>2, <2>1, OwnedNext DEF counters, set_base, pools, roots
<1>10. Disjoint(Owned')
  BY <1>7, <1>8, <1>9 DEF IInv, Disjoint
<1>11. ~overlap => Covers(Owned')
  <2>1. SUFFICES ASSUME ~overlap PROVE Covers(Owned')
    OBVIOUS
  <2>2. base_blk = 0
    BY <1>1, <2>1 DEF IInv, SerialInv
  <2>3. Owned[p] = {}
    BY <1>8, <2>2
  <2>4. Covers(Owned)
    BY <2>1 DEF IInv, SerialInv
  <2>. QED BY <1>7, <1>8, <1>9, <2>3, <2>4 DEF Covers
<1>12. SharedOK' /\ phase' # "new" /\ overlap' = overlap /\ TreeKept(t)
  BY <1>1, <1>3 DEF set_base, pools, roots, locks, counters, SharedOK, NewInv, TreeKept
<1>. QED BY <1>1, <1>2, <1>5, <1>6, <1>10, <1>11, <1>12, StepInv

\* No block was found: the request ends, a block to be freed leaks.
LEMMA NoSpaceInv ==
  ASSUME NEW t \in Threads, IInv, no_space(t) PROVE IInv'
<1> DEFINE a == <<t, "blk">>
           p == <<None, "leaked">>
<1>1. /\ th[t].pc \in After /\ SharedOK /\ LocalInv(t) /\ NewInv
      /\ th[t].run = {} /\ th[t].brun = {} /\ th[t].old = 0
      /\ Pending(t) = (th[t].job = "free")
      /\ th[t].job = "free" => th[t].blk \in Block
  BY ThreadFacts DEF IInv, no_space, At, LocalInv, After, Pending
<1>2. /\ Finish(t)
      /\ leaked' = IF th[t].job = "free" THEN leaked \cup {th[t].blk} ELSE leaked
  BY DEF no_space, fail
<1>3. /\ OnlyThread(t) /\ th'[t] = Idle /\ LocalInv(t)'
      /\ ~InSm(t)' /\ ~CallsBsm(t)' /\ ~BaseWanted(t)'
  BY <1>2, FinishIs
<1>4. LockInv(t)'
  BY <1>3 DEF LockInv, Idle
<1>5. a \in Owners /\ p \in Owners /\ a # p
  BY OwnersOf DEF PlaceNames, HoldNames
<1>6. /\ Owned'[a] = {} /\ Owned'[p] = Owned[p] \cup Owned[a]
  <2>1. Owned'[p] = leaked' /\ Owned[p] = leaked
    BY OwnedFacts, OwnedFactsNext
  <2>2. Owned[a] = IF th[t].job = "free" THEN {th[t].blk} ELSE {}
    BY <1>1, OwnedFacts
  <2>3. ~Pending(t)'
    BY <1>3 DEF Pending, Idle
  <2>4. Owned'[a] = {}
    BY <2>3, OwnedFactsNext
  <2>. QED BY <1>2, <2>1, <2>2, <2>4
<1>7. \A o \in Owners : o # a /\ o # p => Owned'[o] = Owned[o]
  <2>1. th'[t].run = {} /\ th'[t].brun = {} /\ th'[t].old = 0
    BY <1>3 DEF Idle
  <2>. QED BY <1>1, <1>3, <2>1, OwnedNext DEF no_space, pools, roots
<1>8. Moves(Owned, Owned', Owned[a], p, {}, p)
  BY <1>5, <1>6, <1>7, OneMove
<1>9. SharedOK' /\ phase' # "new" /\ overlap' = overlap /\ TreeKept(t)
  BY <1>1, <1>2 DEF no_space, fail, pools, roots, locks, SharedOK, NewInv, TreeKept, After
<1>10. {} \subseteq Owned[p]
  OBVIOUS
<1>. QED BY <1>1, <1>3, <1>4, <1>5, <1>8, <1>9, <1>10, MoveInv DEF After

\* The while loop ends: the request itself goes to sm.
LEMMA CheckInv ==
  ASSUME NEW t \in Threads, IInv, check(t) PROVE IInv'
<1> DEFINE a == <<t, "blk">>
           p == <<t, "run">>
<1>1. /\ th[t].pc = "check" /\ SharedOK /\ LocalInv(t) /\ NewInv
      /\ th[t].run = {} /\ th[t].brun = {} /\ th[t].old = 0 /\ th[t].call # "free"
      /\ th[t].job = "free" => th[t].blk \in Block
  BY ThreadFacts DEF IInv, check, At, LocalInv, Between
<1>2. /\ 1 \in 0 .. LenMod - 1 /\ "alloc" \in Calls /\ "free" \in Calls
      /\ {} \in SUBSET Block /\ "done" \in After /\ "count" \in Labels
  BY BaseSpaceAssumption DEF Calls, After, Labels, Between
<1>3. \/ Goto(t, "count")
      \/ th[t].job = "free" /\ CallSm(t, "free", 1, {th[t].blk}, "done")
      \/ th[t].job # "free" /\ CallSm(t, "alloc", 1, {}, "done")
  BY DEF check
<1>4. SharedOK' /\ phase' # "new" /\ overlap' = overlap /\ TreeKept(t)
  BY <1>1 DEF check, pools, roots, locks, counters, SharedOK, NewInv, TreeKept
<1>5. CASE Goto(t, "count") \/ (th[t].job # "free" /\ CallSm(t, "alloc", 1, {}, "done"))
  <2>1. /\ OnlyThread(t) /\ SameJob(t) /\ SameBsm(t)
        /\ th'[t].run = {} /\ th'[t].brun = {} /\ th'[t].old = 0
        /\ \/ /\ th[t].job # "free" /\ th'[t].pc = "sm" /\ th'[t].call = "alloc"
              /\ th'[t].back = "done"
           \/ th'[t].pc = "count" /\ SameSm(t)
    BY <1>1, <1>2, <1>5, CallSmIs, GotoIs
  <2>2. ~InSm(t)' /\ ~CallsBsm(t)'
    BY <2>1 DEF InSm, CallsBsm, InTree, InBsm
  <2>3. LocalInv(t)' /\ LockInv(t)'
    BY <1>1, <2>1, <2>2 DEF LocalInv, LockInv, CallsSm, Between, After, SameSm, SameJob
  <2>4. Pending(t)' = Pending(t) /\ ~BaseWanted(t)'
    BY <1>1, <2>1, <2>2 DEF Pending, SameJob, SameSm, BaseWanted, CallsSm
  <2>. QED BY <1>1, <1>4, <2>1, <2>3, <2>4, StayInv DEF check, pools, roots, SameJob
<1>6. CASE th[t].job = "free" /\ CallSm(t, "free", 1, {th[t].blk}, "done")
  <2>1. /\ OnlyThread(t) /\ SameJob(t) /\ SameBsm(t)
        /\ th'[t].run = {th[t].blk} /\ th'[t].brun = {} /\ th'[t].old = 0
        /\ th'[t].pc = "sm" /\ th'[t].call = "free" /\ th'[t].back = "done"
    <3>1. {th[t].blk} \in SUBSET Block
      BY <1>1, <1>6
    <3>. QED BY <1>1, <1>2, <1>6, <3>1, CallSmIs
  <2>2. ~InSm(t)' /\ ~CallsBsm(t)' /\ ~BaseWanted(t)'
    BY <2>1 DEF InSm, CallsBsm, InTree, InBsm, BaseWanted
  <2>3. LocalInv(t)' /\ LockInv(t)'
    BY <1>1, <1>6, <2>1, <2>2
       DEF LocalInv, LockInv, CallsSm, Between, After, SameJob
  <2>4. a \in Owners /\ p \in Owners /\ a # p
    BY OwnersOf DEF HoldNames
  <2>5. Owned'[a] = {} /\ Owned'[p] = {th[t].blk} /\ Owned[p] = {} /\ Owned[a] = {th[t].blk}
    <3>1. Pending(t) /\ ~Pending(t)'
      BY <1>1, <1>6, <2>1 DEF Pending, SameJob
    <3>2. Owned[a] = {th[t].blk} /\ Owned[p] = th[t].run
      BY <3>1, OwnedFacts
    <3>3. Owned'[a] = {} /\ Owned'[p] = th'[t].run
      BY <3>1, OwnedFactsNext
    <3>. QED BY <1>1, <2>1, <3>2, <3>3
  <2>6. \A o \in Owners : o # a /\ o # p => Owned'[o] = Owned[o]
    BY <1>1, <2>1, OwnedNext DEF counters, check, pools, roots
  <2>7. Moves(Owned, Owned', Owned[a], p, {}, p)
    BY <2>4, <2>5, <2>6, OneMove
  <2>8. {} \subseteq Owned[p]
    OBVIOUS
  <2>. QED BY <1>1, <1>4, <2>1, <2>2, <2>3, <2>4, <2>7, <2>8, MoveInv
<1>. QED BY <1>3, <1>5, <1>6

\* The refill asks sm for the blocks that bsm lacks.
LEMMA CountInv ==
  ASSUME NEW t \in Threads, IInv, count(t) PROVE IInv'
<1>1. /\ th[t].pc = "count" /\ SharedOK /\ LocalInv(t) /\ LockInv(t) /\ NewInv
      /\ th[t].run = {} /\ th[t].brun = {} /\ th[t].old = 0 /\ th[t].call # "free"
  BY ThreadFacts DEF IInv, count, At, LocalInv, Between
<1>2. SharedOK' /\ phase' # "new" /\ overlap' = overlap /\ TreeKept(t)
  BY <1>1 DEF count, pools, roots, locks, counters, SharedOK, NewInv, TreeKept
<1>3. CASE Missing = 0
  <2>1. th' = th
    BY <1>3 DEF count
  <2>2. OnlyThread(t)
    BY <2>1, ThreadFacts DEF OnlyThread
  <2>3. LocalInv(t)' /\ LockInv(t)' /\ ~BaseWanted(t)' /\ Pending(t)' = Pending(t)
    BY <1>1, <2>1 DEF LocalInv, LockInv, CallsSm, InSm, CallsBsm, BaseWanted, Pending,
                      InTree, InBsm
  <2>. QED BY <1>1, <1>2, <2>1, <2>2, <2>3, StayInv DEF count, pools, roots, counters
<1>4. CASE Missing # 0
  <2>1. Missing \in 0 .. LenMod - 1
    <3>1. IsFiniteSet(bsm_free)
      <4>1. IsFiniteSet(1 .. Total - 1)
        BY FS_Interval, BaseSpaceAssumption
      <4>2. bsm_free \in SUBSET (1 .. Total - 1)
        BY <1>1 DEF SharedOK, Block
      <4>. QED BY <4>1, <4>2, FS_Subset
    <3>2. MAX_BLK_NUM - Cardinality(bsm_free) \in Int
      BY <3>1, FS_CardinalityType, BaseSpaceAssumption
    <3>. QED BY <3>2, BaseSpaceAssumption DEF Missing, U32
  <2>2. "alloc" \in Calls /\ {} \in SUBSET Block /\ "give" \in After
    BY DEF Calls, After
  <2>3. /\ OnlyThread(t) /\ SameJob(t) /\ SameBsm(t)
        /\ th'[t].run = {} /\ th'[t].brun = {} /\ th'[t].old = 0
        /\ th'[t].pc = "sm" /\ th'[t].call = "alloc" /\ th'[t].back = "give"
    BY <1>1, <1>4, <2>1, <2>2, CallSmIs DEF count
  <2>4. ~InSm(t)' /\ ~CallsBsm(t)' /\ ~BaseWanted(t)'
    BY <2>3 DEF InSm, CallsBsm, InTree, InBsm, BaseWanted
  <2>5. LocalInv(t)' /\ LockInv(t)'
    BY <1>1, <2>3, <2>4 DEF LocalInv, LockInv, CallsSm, Between, After, SameJob
  <2>6. Pending(t)' = Pending(t)
    BY <1>1, <2>3 DEF Pending, SameJob
  <2>. QED BY <1>1, <1>2, <2>3, <2>4, <2>5, <2>6, StayInv
           DEF count, pools, roots, counters, SameJob
<1>. QED BY <1>3, <1>4

\* The blocks that were found go to bsm.
LEMMA GiveInv ==
  ASSUME NEW t \in Threads, IInv, give(t) PROVE IInv'
<1> DEFINE a == <<t, "run">>
           p == <<t, "brun">>
<1>1. /\ th[t].pc = "give" /\ SharedOK /\ LocalInv(t) /\ NewInv
      /\ th[t].brun = {} /\ th[t].old = 0 /\ th[t].call = "alloc"
      /\ th \in [Threads -> Thread] /\ th[t] \in Thread
  BY ThreadFacts DEF IInv, give, At, LocalInv, After
<1>2. /\ OnlyThread(t) /\ SameJob(t) /\ SameSm(t)
      /\ th'[t].run = {} /\ th'[t].brun = th[t].run /\ th'[t].old = 0
      /\ th'[t].pc = "bsm" /\ th'[t].bcall = "free" /\ th'[t].bback = "check"
  <2>1. th'[t] = [th[t] EXCEPT !.pc = "bsm", !.bcall = "free", !.brun = th[t].run,
                               !.run = {}, !.bback = "check"]
    BY <1>1 DEF give
  <2>2. th'[t] \in Thread
    <3>1. th[t].run \in SUBSET Block
      BY <1>1 DEF Thread
    <3>2. "bsm" \in Labels /\ "free" \in Calls
      BY DEF Labels, Calls
    <3>. QED BY ZenonT(60), <1>1, <2>1, <3>1, <3>2 DEF Thread
  <2>3. OnlyThread(t)
    BY <1>1, <2>2 DEF give, OnlyThread
  <2>. QED BY <1>1, <2>1, <2>3 DEF Thread, SameJob, SameSm
<1>3. ~InSm(t)' /\ CallsBsm(t)' /\ ~BaseWanted(t)'
  BY <1>2 DEF InSm, CallsBsm, InTree, InBsm, BaseWanted, CallsSm
<1>4. LocalInv(t)' /\ LockInv(t)'
  BY <1>1, <1>2, <1>3 DEF LocalInv, LockInv, CallsSm, Between, After, SameSm, SameJob
<1>5. a \in Owners /\ p \in Owners /\ a # p
  BY OwnersOf DEF HoldNames
<1>6. Owned'[a] = {} /\ Owned'[p] = th[t].run /\ Owned[p] = {} /\ Owned[a] = th[t].run
  BY <1>1, <1>2, OwnedFacts, OwnedFactsNext
<1>7. \A o \in Owners : o # a /\ o # p => Owned'[o] = Owned[o]
  <2>1. Pending(t)' = Pending(t)
    BY <1>2 DEF Pending, SameSm, SameJob
  <2>. QED BY <1>1, <1>2, <2>1, OwnedNext DEF counters, give, pools, roots
<1>8. Moves(Owned, Owned', Owned[a], p, {}, p)
  BY <1>5, <1>6, <1>7, OneMove
<1>9. SharedOK' /\ phase' # "new" /\ overlap' = overlap /\ TreeKept(t)
  BY <1>1 DEF give, pools, roots, locks, counters, SharedOK, NewInv, TreeKept
<1>10. {} \subseteq Owned[p]
  OBVIOUS
<1>. QED BY <1>1, <1>2, <1>3, <1>4, <1>5, <1>8, <1>9, <1>10, MoveInv

\* The request ends.
LEMMA DoneInv ==
  ASSUME NEW t \in Threads, IInv, done(t) PROVE IInv'
<1> DEFINE a == <<t, "run">>
           p == <<None, "user">>
<1>1. /\ th[t].pc = "done" /\ SharedOK /\ LocalInv(t) /\ NewInv
      /\ th[t].brun = {} /\ th[t].old = 0 /\ ~Pending(t)
      /\ th[t] \in Thread
  BY ThreadFacts DEF IInv, done, At, LocalInv, After, Pending
<1>2. Finish(t) /\ user' = user \cup th[t].run
  BY DEF done
<1>3. /\ OnlyThread(t) /\ th'[t] = Idle /\ LocalInv(t)'
      /\ ~InSm(t)' /\ ~CallsBsm(t)' /\ ~BaseWanted(t)'
  BY <1>2, FinishIs
<1>4. LockInv(t)'
  BY <1>3 DEF LockInv, Idle
<1>5. a \in Owners /\ p \in Owners /\ a # p
  BY OwnersOf DEF PlaceNames, HoldNames
<1>6. Owned'[a] = {} /\ Owned'[p] = Owned[p] \cup Owned[a] /\ ~Pending(t)'
  <2>1. Owned'[p] = user' /\ Owned[p] = user
    BY OwnedFacts, OwnedFactsNext
  <2>2. Owned[a] = th[t].run /\ Owned'[a] = th'[t].run
    BY OwnedFacts, OwnedFactsNext
  <2>. QED BY <1>2, <1>3, <2>1, <2>2 DEF Idle, Pending
<1>7. \A o \in Owners : o # a /\ o # p => Owned'[o] = Owned[o]
  <2>1. Owned[<<t, "blk">>] = {} /\ Owned'[<<t, "blk">>] = {}
    BY <1>1, <1>6, OwnedFacts, OwnedFactsNext
  <2>2. th'[t].run = {} /\ th'[t].brun = {} /\ th'[t].old = 0
    BY <1>3 DEF Idle
  <2>. QED BY <1>1, <1>3, <2>1, <2>2, OwnedNext DEF counters, done, roots
<1>8. Moves(Owned, Owned', Owned[a], p, {}, p)
  BY <1>5, <1>6, <1>7, OneMove
<1>9. SharedOK' /\ phase' # "new" /\ overlap' = overlap /\ TreeKept(t)
  BY <1>1, <1>2 DEF done, roots, locks, counters, SharedOK, NewInv, TreeKept, Thread
<1>10. {} \subseteq Owned[p]
  OBVIOUS
<1>. QED BY <1>1, <1>3, <1>4, <1>5, <1>8, <1>9, <1>10, MoveInv
-----------------------------------------------------------------------------
(***************************************************************************)
(* The requests to sm.                                                     *)
(***************************************************************************)

\* What a thread knows when it waits for sm or has its lock.
LEMMA SmFacts ==
  ASSUME IInv, NEW t \in Threads, CallsSm(t)
  PROVE  /\ SharedOK /\ LocalInv(t) /\ LockInv(t)
         /\ phase # "new" /\ th[t].pc # "idle"
         /\ th[t].call \in {"alloc", "free"} /\ th[t].back \in After
         /\ th[t].call = "alloc" => th[t].run = {}
         /\ th[t].pc # "bsm_old" => th[t].old = 0
         /\ th[t].pc \in {"sm", "sm_tree"} => th[t].brun = {}
         /\ ~overlap /\ BaseWanted(t) => base_blk = 0 /\ th[t].pc # "bsm_old"
<1>1. SharedOK /\ LocalInv(t) /\ LockInv(t)
  BY ThreadFacts
<1>2. th[t].pc # "idle"
  BY DEF CallsSm, InSm, CallsBsm, InTree, InBsm
<1>3. phase # "new"
  BY <1>2 DEF IInv, NewInv
<1>4. ~overlap /\ BaseWanted(t) => base_blk = 0 /\ th[t].pc # "bsm_old"
  BY DEF IInv, SerialInv, BaseWanted
<1>. QED BY <1>1, <1>2, <1>3, <1>4 DEF LocalInv

\* A request keeps its conditions while it waits, walks the tree and calls bsm.
LEMMA SmLocal ==
  ASSUME IInv, NEW t \in Threads, CallsSm(t), CallsSm(t)',
         SameSm(t), SameJob(t), th'[t].run = th[t].run,
         th'[t].pc \in {"sm", "sm_tree"} => th'[t].brun = {},
         th'[t].pc # "bsm_old" => th'[t].old = 0,
         th'[t].pc = "sm_cow" => \E b \in Block : th'[t].brun \subseteq {b},
         CallsBsm(t)' =>
           /\ th'[t].bback # "check"
           /\ \/ th'[t].bcall = "free" /\ th'[t].bback = "sm_tree"
              \/ /\ th'[t].bcall = "alloc" /\ th'[t].brun = {}
                 /\ th'[t].bback \in {"sm_copy", "sm_cow", "sm_node"}
  PROVE  /\ LocalInv(t)'
         /\ Pending(t)' = Pending(t)
         /\ BaseWanted(t)' = BaseWanted(t)
<1>1. /\ LocalInv(t) /\ th[t].call \in {"alloc", "free"} /\ th[t].back \in After
  BY SmFacts
<1>2. th'[t].pc \notin Between \cup After /\ th'[t].pc # "idle"
  BY DEF CallsSm, InSm, CallsBsm, InTree, InBsm, Between, After
<1>3. th[t].pc \notin Between \cup After /\ th[t].pc # "idle"
  BY DEF CallsSm, InSm, CallsBsm, InTree, InBsm, Between, After
<1>4. LocalInv(t)'
  BY <1>1, <1>2 DEF LocalInv, SameSm, SameJob, After, Between
<1>. QED BY <1>2, <1>3, <1>4 DEF Pending, SameSm, SameJob, BaseWanted, After

\* sm has no block: the request ends before it takes the lock.
LEMMA SmEmptyInv ==
  ASSUME NEW t \in Threads, IInv, sm_empty(t) PROVE IInv'
<1>1. th[t].pc = "sm" /\ CallsSm(t) /\ th[t].call = "alloc"
  BY DEF sm_empty, At, CallsSm
<1>2. /\ SharedOK /\ LocalInv(t) /\ LockInv(t) /\ phase # "new"
      /\ th[t].back \in After /\ th[t].run = {} /\ th[t].brun = {} /\ th[t].old = 0
      /\ th \in [Threads -> Thread] /\ th[t] \in Thread
  BY <1>1, SmFacts, ThreadFacts
<1>3. /\ OnlyThread(t) /\ SameJob(t) /\ SameSm(t) /\ SameBsm(t)
      /\ th'[t].run = {} /\ th'[t].brun = {} /\ th'[t].old = 0
      /\ th'[t].pc = th[t].back
  <2>1. th'[t] = [th[t] EXCEPT !.pc = th[t].back, !.run = {}]
    BY <1>2 DEF sm_empty
  <2>2. th'[t] \in Thread
    BY ZenonT(60), <1>2, <2>1 DEF Thread, Labels
  <2>3. OnlyThread(t)
    BY <1>2, <2>2 DEF sm_empty, OnlyThread
  <2>. QED BY <1>2, <2>1, <2>3 DEF Thread, SameJob, SameSm, SameBsm
<1>4. ~InSm(t)' /\ ~CallsBsm(t)' /\ ~CallsSm(t)' /\ th'[t].pc \in After
  BY <1>2, <1>3 DEF InSm, CallsBsm, CallsSm, InTree, InBsm, After
<1>5. LocalInv(t)' /\ LockInv(t)'
  <2>1. 1 \in Block
    BY BaseSpaceAssumption DEF Block
  <2>2. /\ th[t].back = "done" => th[t].job # "free"
        /\ th[t].job = "free" => th[t].blk \in Block
    BY <1>1, <1>2 DEF LocalInv
  <2>. QED BY <1>1, <1>2, <1>3, <1>4, <2>1, <2>2
           DEF LocalInv, LockInv, Between, After, SameSm, SameJob
<1>6. Pending(t)' = Pending(t) /\ (BaseWanted(t)' => BaseWanted(t))
  BY <1>1, <1>3, <1>4 DEF Pending, SameJob, SameSm, BaseWanted
<1>7. ~overlap /\ BaseWanted(t)' => base_blk' = 0 /\ th'[t].pc # "bsm_old"
  BY <1>1, <1>4, <1>6, SmFacts DEF sm_empty, After
<1>8. SharedOK' /\ phase' # "new" /\ overlap' = overlap /\ TreeKept(t)
  BY <1>2 DEF sm_empty, pools, roots, locks, counters, SharedOK, TreeKept
<1>. QED BY <1>1, <1>2, <1>3, <1>5, <1>6, <1>7, <1>8, StayInv
         DEF counters, sm_empty, pools, roots, SameJob

\* A request takes the lock of sm.
LEMMA SmEnterInv ==
  ASSUME NEW t \in Threads, IInv, sm_enter(t) PROVE IInv'
<1>1. th[t].pc = "sm" /\ CallsSm(t)
  BY DEF sm_enter, At, CallsSm
<1>2. /\ SharedOK /\ phase # "new" /\ th[t].brun = {} /\ th[t].old = 0
  BY <1>1, SmFacts
<1>3. /\ OnlyThread(t) /\ SameJob(t) /\ SameSm(t)
      /\ th'[t].run = th[t].run /\ th'[t].brun = {} /\ th'[t].old = 0
      /\ th'[t].pc = "sm_tree"
  <2>1. "sm_tree" \in Labels
    BY DEF Labels, InTree
  <2>. QED BY <1>2, <2>1, GotoIs DEF sm_enter
<1>4. InSm(t)' /\ ~CallsBsm(t)' /\ CallsSm(t)'
  BY <1>3 DEF InSm, CallsBsm, CallsSm, InTree, InBsm
<1>5. LocalInv(t)' /\ Pending(t)' = Pending(t) /\ BaseWanted(t)' = BaseWanted(t)
  BY <1>1, <1>3, <1>4, SmLocal
<1>6. LockInv(t)'
  BY <1>3, <1>4 DEF LockInv, sm_enter
<1>7. ~overlap /\ BaseWanted(t)' => base_blk' = 0 /\ th'[t].pc # "bsm_old"
  BY <1>1, <1>3, <1>5, SmFacts DEF sm_enter
<1>8. SharedOK' /\ phase' # "new" /\ overlap' = overlap /\ TreeKept(t)
  BY <1>2 DEF sm_enter, pools, roots, counters, SharedOK, TreeKept
<1>. QED BY <1>1, <1>2, <1>3, <1>5, <1>6, <1>7, <1>8, StayInv
         DEF counters, sm_enter, pools, roots, SameJob

\* A thread in the tree of sm has the lock.
LEMMA TreeFacts ==
  ASSUME IInv, NEW t \in Threads, th[t].pc \in InTree
  PROVE  /\ CallsSm(t) /\ InSm(t) /\ sm_lock = t /\ ~CallsBsm(t) /\ th[t].old = 0
         /\ SharedOK /\ LocalInv(t) /\ LockInv(t) /\ phase # "new"
         /\ th[t].pc # "idle" /\ th \in [Threads -> Thread] /\ th[t] \in Thread
         /\ th[t].pc = "sm_tree" => th[t].brun = {}
<1>1. CallsSm(t) /\ InSm(t) /\ ~CallsBsm(t) /\ th[t].pc # "bsm_old"
  BY DEF CallsSm, InSm, CallsBsm, InTree, InBsm
<1>. QED BY <1>1, SmFacts, ThreadFacts DEF LockInv

\* It calls bsm for a block, or gives one back.
LEMMA TreeCallsBsm ==
  ASSUME IInv, NEW t \in Threads, th[t].pc \in InTree,
         NEW call \in Calls, NEW run \in SUBSET Block, NEW back \in InTree,
         NEW node \in Block \cup {0},
         CallBsm(t, call, run, back, node),
         \/ call = "free" /\ back = "sm_tree"
         \/ call = "alloc" /\ run = {} /\ back \in {"sm_copy", "sm_cow", "sm_node"},
         back = "sm_copy" => node \in sm_nodes',
         sm_lock' = sm_lock, base_blk' = base_blk
  PROVE  /\ OnlyThread(t) /\ SameJob(t) /\ SameSm(t)
         /\ th'[t].run = th[t].run /\ th'[t].brun = run /\ th'[t].old = 0
         /\ LocalInv(t)' /\ LockInv(t)' /\ Pending(t)' = Pending(t)
         /\ ~overlap /\ BaseWanted(t)' => base_blk' = 0 /\ th'[t].pc # "bsm_old"
<1>1. CallsSm(t) /\ sm_lock = t /\ th[t].old = 0
  BY TreeFacts
<1>2. /\ OnlyThread(t) /\ SameJob(t) /\ SameSm(t)
      /\ th'[t].run = th[t].run /\ th'[t].brun = run /\ th'[t].old = 0
      /\ th'[t].pc = "bsm" /\ th'[t].bcall = call /\ th'[t].bback = back
      /\ th'[t].node = node
  BY <1>1, CallBsmIs
<1>3. CallsBsm(t)' /\ InSm(t)' /\ CallsSm(t)'
  BY <1>2 DEF InSm, CallsBsm, CallsSm, InTree, InBsm
<1>4. LocalInv(t)' /\ Pending(t)' = Pending(t) /\ BaseWanted(t)' = BaseWanted(t)
  <2>1. back # "check"
    BY DEF InTree
  <2>. QED BY <1>1, <1>2, <1>3, <2>1, SmLocal
<1>5. LockInv(t)'
  BY <1>1, <1>2, <1>3 DEF LockInv
<1>. QED BY <1>1, <1>2, <1>4, <1>5, SmFacts

\* A node or the root of sm is to move: bsm is asked for a block.
LEMMA DirtyPathInv ==
  ASSUME NEW t \in Threads, IInv, sm_dirty_path(t) PROVE IInv'
<1>1. th[t].pc = "sm_tree" /\ th[t].pc \in InTree
  BY DEF sm_dirty_path, At, InTree
<1>2. th[t].brun = {} /\ SharedOK /\ phase # "new"
  BY <1>1, TreeFacts
<1>3. PICK back \in InTree, node \in Block \cup {0} :
        /\ CallBsm(t, "alloc", {}, back, node)
        /\ back \in {"sm_copy", "sm_cow"}
        /\ back = "sm_copy" => node \in sm_nodes
  BY <1>2 DEF sm_dirty_path, SharedOK, InTree
<1>4. /\ OnlyThread(t) /\ SameJob(t)
      /\ th'[t].run = th[t].run /\ th'[t].brun = {} /\ th'[t].old = 0
      /\ LocalInv(t)' /\ LockInv(t)' /\ Pending(t)' = Pending(t)
      /\ ~overlap /\ BaseWanted(t)' => base_blk' = 0 /\ th'[t].pc # "bsm_old"
  BY <1>1, <1>3, TreeCallsBsm DEF Calls, sm_dirty_path, pools, locks
<1>5. SharedOK' /\ phase' # "new" /\ overlap' = overlap /\ TreeKept(t)
  BY <1>2 DEF sm_dirty_path, pools, roots, locks, counters, SharedOK, TreeKept
<1>. QED BY <1>1, <1>2, <1>4, <1>5, TreeFacts, StayInv
         DEF counters, sm_dirty_path, pools, roots, SameJob

\* The tree of sm needs another node: bsm is asked for a block.
LEMMA GrowInv ==
  ASSUME NEW t \in Threads, IInv, sm_grow(t) PROVE IInv'
<1>1. th[t].pc = "sm_tree" /\ th[t].pc \in InTree
  BY DEF sm_grow, At, InTree
<1>2. th[t].brun = {} /\ SharedOK /\ phase # "new"
  BY <1>1, TreeFacts
<1>3. /\ OnlyThread(t) /\ SameJob(t)
      /\ th'[t].run = th[t].run /\ th'[t].brun = {} /\ th'[t].old = 0
      /\ LocalInv(t)' /\ LockInv(t)' /\ Pending(t)' = Pending(t)
      /\ ~overlap /\ BaseWanted(t)' => base_blk' = 0 /\ th'[t].pc # "bsm_old"
  BY <1>1, TreeCallsBsm DEF Calls, InTree, sm_grow, pools, locks
<1>4. SharedOK' /\ phase' # "new" /\ overlap' = overlap /\ TreeKept(t)
  BY <1>2 DEF sm_grow, pools, roots, locks, counters, SharedOK, TreeKept
<1>. QED BY <1>1, <1>2, <1>3, <1>4, TreeFacts, StayInv
         DEF sm_grow, pools, roots, SameJob

\* A node of sm that was not dirty moves to a new block.
LEMMA CopyInv ==
  ASSUME NEW t \in Threads, IInv, sm_copy(t) PROVE IInv'
<1> DEFINE a == <<None, "sm_nodes">>
           b == <<t, "brun">>
<1>1. th[t].pc = "sm_copy" /\ th[t].pc \in InTree
  BY DEF sm_copy, At, InTree
<1>2. /\ SharedOK /\ phase # "new" /\ th[t] \in Thread /\ th[t].old = 0 /\ InSm(t)
      /\ th[t].node \in sm_nodes
  BY <1>1, TreeFacts DEF LockInv
<1>3. /\ OnlyThread(t) /\ SameJob(t)
      /\ th'[t].run = th[t].run /\ th'[t].brun = {th[t].node} /\ th'[t].old = 0
      /\ LocalInv(t)' /\ LockInv(t)' /\ Pending(t)' = Pending(t)
      /\ ~overlap /\ BaseWanted(t)' => base_blk' = 0 /\ th'[t].pc # "bsm_old"
  <2>1. {th[t].node} \in SUBSET Block
    BY <1>2 DEF SharedOK
  <2>. QED BY <1>1, <2>1, TreeCallsBsm DEF Calls, InTree, sm_copy, locks
<1>4. a \in Owners /\ b \in Owners /\ a # b
  BY OwnersOf DEF PlaceNames, HoldNames
<1>5. /\ Owned[a] = sm_nodes /\ Owned[b] = th[t].brun
      /\ Owned'[a] = (sm_nodes \ {th[t].node}) \cup th[t].brun
      /\ Owned'[b] = {th[t].node}
  BY <1>3, OwnedFacts, OwnedFactsNext DEF sm_copy
<1>6. \A o \in Owners : o # a /\ o # b => Owned'[o] = Owned[o]
  BY <1>2, <1>3, OwnedNext DEF counters, sm_copy, roots
<1>7. Moves(Owned, Owned', {th[t].node}, b, th[t].brun, a)
  BY <1>2, <1>4, <1>5, <1>6, Exchange
<1>8. SharedOK' /\ phase' # "new" /\ overlap' = overlap /\ TreeKept(t)
  BY <1>2 DEF sm_copy, roots, locks, counters, SharedOK, TreeKept, Thread
<1>9. {th[t].node} \subseteq Owned[a] /\ th[t].brun \subseteq Owned[b] /\ th[t].pc # "idle"
  BY <1>1, <1>2, <1>5
<1>. QED BY <1>3, <1>4, <1>7, <1>8, <1>9, MoveInv

\* The root of sm moves to a new block.
LEMMA CowInv ==
  ASSUME NEW t \in Threads, IInv, sm_cow(t) PROVE IInv'
<1> DEFINE a == <<None, "sm_root">>
           b == <<t, "brun">>
<1>1. th[t].pc = "sm_cow" /\ th[t].pc \in InTree
  BY DEF sm_cow, At, InTree
<1>2. /\ SharedOK /\ phase # "new" /\ th[t] \in Thread /\ th[t].old = 0 /\ InSm(t)
      /\ LocalInv(t)
  BY <1>1, TreeFacts
<1>3. /\ OnlyThread(t) /\ SameJob(t)
      /\ th'[t].run = th[t].run /\ th'[t].brun = {sm_root} /\ th'[t].old = 0
      /\ LocalInv(t)' /\ LockInv(t)' /\ Pending(t)' = Pending(t)
      /\ ~overlap /\ BaseWanted(t)' => base_blk' = 0 /\ th'[t].pc # "bsm_old"
  <2>1. {sm_root} \in SUBSET Block
    BY <1>2 DEF SharedOK
  <2>. QED BY <1>1, <2>1, TreeCallsBsm DEF Calls, InTree, sm_cow, locks
<1>4. a \in Owners /\ b \in Owners /\ a # b
  BY OwnersOf DEF PlaceNames, HoldNames
<1>5. {sm_root'} = th[t].brun
  BY <1>1, <1>2 DEF LocalInv, sm_cow
<1>6. /\ Owned[a] = {sm_root} /\ Owned[b] = th[t].brun
      /\ Owned'[a] = th[t].brun /\ Owned'[b] = {sm_root}
  BY <1>3, <1>5, OwnedFacts, OwnedFactsNext
<1>7. \A o \in Owners : o # a /\ o # b => Owned'[o] = Owned[o]
  BY <1>2, <1>3, OwnedNext DEF counters, sm_cow, pools
<1>8. Moves(Owned, Owned', {sm_root}, b, th[t].brun, a)
  BY <1>4, <1>6, <1>7, Exchange
<1>9. SharedOK' /\ phase' # "new" /\ overlap' = overlap /\ TreeKept(t)
  BY <1>2, <1>5 DEF sm_cow, pools, locks, counters, SharedOK, TreeKept, Thread
<1>10. {sm_root} \subseteq Owned[a] /\ th[t].brun \subseteq Owned[b] /\ th[t].pc # "idle"
  BY <1>1, <1>6
<1>. QED BY <1>3, <1>4, <1>8, <1>9, <1>10, MoveInv

\* A split adds a node.
LEMMA NodeInv ==
  ASSUME NEW t \in Threads, IInv, sm_node(t) PROVE IInv'
<1> DEFINE a == <<t, "brun">>
           p == <<None, "sm_nodes">>
<1>1. th[t].pc = "sm_node" /\ th[t].pc \in InTree
  BY DEF sm_node, At, InTree
<1>2. /\ SharedOK /\ phase # "new" /\ th[t] \in Thread /\ th[t].old = 0 /\ InSm(t)
      /\ CallsSm(t) /\ th \in [Threads -> Thread] /\ sm_lock = t
  BY <1>1, TreeFacts
<1>3. /\ OnlyThread(t) /\ SameJob(t) /\ SameSm(t)
      /\ th'[t].run = th[t].run /\ th'[t].brun = {} /\ th'[t].old = 0
      /\ th'[t].pc = "sm_tree"
  <2>1. th'[t] = [th[t] EXCEPT !.pc = "sm_tree", !.brun = {}]
    BY <1>2 DEF sm_node
  <2>2. th'[t] \in Thread
    <3>1. "sm_tree" \in Labels /\ {} \in SUBSET Block
      BY DEF Labels, InTree
    <3>. QED BY ZenonT(60), <1>2, <2>1, <3>1 DEF Thread
  <2>3. OnlyThread(t)
    BY <1>2, <2>2 DEF sm_node, OnlyThread
  <2>. QED BY <1>2, <2>1, <2>3 DEF Thread, SameJob, SameSm
<1>4. InSm(t)' /\ ~CallsBsm(t)' /\ CallsSm(t)'
  BY <1>3 DEF InSm, CallsBsm, CallsSm, InTree, InBsm
<1>5. LocalInv(t)' /\ Pending(t)' = Pending(t) /\ BaseWanted(t)' = BaseWanted(t)
  BY <1>2, <1>3, <1>4, SmLocal
<1>6. LockInv(t)'
  BY <1>2, <1>3, <1>4 DEF LockInv, sm_node, locks
<1>7. ~overlap /\ BaseWanted(t)' => base_blk' = 0 /\ th'[t].pc # "bsm_old"
  BY <1>2, <1>3, <1>5, SmFacts DEF sm_node
<1>8. a \in Owners /\ p \in Owners /\ a # p
  BY OwnersOf DEF PlaceNames, HoldNames
<1>9. /\ Owned[a] = th[t].brun /\ Owned[p] = sm_nodes
      /\ Owned'[a] = {} /\ Owned'[p] = sm_nodes \cup th[t].brun
  BY <1>3, OwnedFacts, OwnedFactsNext DEF sm_node
<1>10. \A o \in Owners : o # a /\ o # p => Owned'[o] = Owned[o]
  BY <1>2, <1>3, <1>5, OwnedNext DEF counters, sm_node, roots
<1>11. Moves(Owned, Owned', Owned[a], p, {}, p)
  BY <1>8, <1>9, <1>10, OneMove
<1>12. SharedOK' /\ phase' # "new" /\ overlap' = overlap /\ TreeKept(t)
  BY <1>2 DEF sm_node, roots, locks, counters, SharedOK, TreeKept, Thread
<1>13. {} \subseteq Owned[p] /\ th[t].pc # "idle"
  BY <1>1
<1>. QED BY <1>3, <1>5, <1>6, <1>7, <1>8, <1>11, <1>12, <1>13, MoveInv

\* An emptied node goes back to bsm.
LEMMA ShrinkInv ==
  ASSUME NEW t \in Threads, IInv, sm_shrink(t) PROVE IInv'
<1> DEFINE a == <<None, "sm_nodes">>
           p == <<t, "brun">>
<1>1. th[t].pc = "sm_tree" /\ th[t].pc \in InTree
  BY DEF sm_shrink, At, InTree
<1>2. /\ SharedOK /\ phase # "new" /\ th[t].old = 0 /\ InSm(t) /\ th[t].brun = {}
  BY <1>1, TreeFacts
<1>3. PICK b \in sm_nodes \ sm_clean :
        sm_nodes' = sm_nodes \ {b} /\ CallBsm(t, "free", {b}, "sm_tree", 0)
  BY DEF sm_shrink
<1>4. /\ OnlyThread(t) /\ SameJob(t)
      /\ th'[t].run = th[t].run /\ th'[t].brun = {b} /\ th'[t].old = 0
      /\ LocalInv(t)' /\ LockInv(t)' /\ Pending(t)' = Pending(t)
      /\ ~overlap /\ BaseWanted(t)' => base_blk' = 0 /\ th'[t].pc # "bsm_old"
  <2>1. {b} \in SUBSET Block
    BY <1>2 DEF SharedOK
  <2>. QED BY <1>1, <1>3, <2>1, TreeCallsBsm DEF Calls, InTree, sm_shrink, locks
<1>5. a \in Owners /\ p \in Owners /\ a # p
  BY OwnersOf DEF PlaceNames, HoldNames
<1>6. /\ Owned[a] = sm_nodes /\ Owned[p] = {}
      /\ Owned'[a] = sm_nodes \ {b} /\ Owned'[p] = {b}
  BY <1>2, <1>3, <1>4, OwnedFacts, OwnedFactsNext
<1>7. \A o \in Owners : o # a /\ o # p => Owned'[o] = Owned[o]
  BY <1>2, <1>4, OwnedNext DEF counters, sm_shrink, roots
<1>8. Moves(Owned, Owned', {b}, p, {}, p)
  BY <1>5, <1>6, <1>7, OneMove
<1>9. SharedOK' /\ phase' # "new" /\ overlap' = overlap /\ TreeKept(t)
  BY <1>2, <1>3 DEF sm_shrink, roots, locks, SharedOK, TreeKept
<1>10. {b} \subseteq Owned[a] /\ {} \subseteq Owned[p] /\ th[t].pc # "idle"
  BY <1>1, <1>3, <1>6
<1>. QED BY <1>4, <1>5, <1>8, <1>9, <1>10, MoveInv

\* A request for one block gets one.
LEMMA RunOfOne ==
  ASSUME NEW free \in SUBSET Block, NEW run \in RunsOf(free, 1)
  PROVE  \E b \in Block : run = {b}
<1>1. run \in SUBSET free /\ Cardinality(run) \in 1 .. 1
  BY DEF RunsOf
<1>2. IsFiniteSet(1 .. Total - 1)
  BY FS_Interval, BaseSpaceAssumption
<1>3. IsFiniteSet(run)
  BY <1>1, <1>2, FS_Subset DEF Block
<1>4. Cardinality(run) = 1
  BY <1>1
<1>. QED BY <1>1, <1>3, <1>4, FS_Singleton

\* The request itself: blocks leave the tree of sm, or come back to it.
LEMMA SmDoInv ==
  ASSUME NEW t \in Threads, IInv, sm_do(t) PROVE IInv'
<1> DEFINE a == <<None, "sm_free">>
           b == <<t, "run">>
<1>1. th[t].pc = "sm_tree" /\ th[t].pc \in InTree
  BY DEF sm_do, At, InTree
<1>2. /\ SharedOK /\ phase # "new" /\ th[t].old = 0 /\ InSm(t) /\ th[t].brun = {}
      /\ CallsSm(t) /\ LocalInv(t) /\ th[t].pc # "idle"
      /\ th \in [Threads -> Thread] /\ th[t] \in Thread
  BY <1>1, TreeFacts
<1>3. PICK run \in SUBSET Block :
        /\ th' = [th EXCEPT ![t].pc = th[t].back, ![t].run = run]
        /\ \/ /\ th[t].call = "alloc" /\ th[t].run = {}
              /\ run \in RunsOf(sm_free, th[t].cnt)
              /\ run \subseteq sm_free
              /\ sm_free' = sm_free \ run
           \/ /\ th[t].call = "free" /\ run = {}
              /\ sm_free' = sm_free \cup th[t].run
  BY <1>2, SmFacts DEF sm_do, RunsOf, SharedOK
<1>4. /\ OnlyThread(t) /\ SameJob(t) /\ SameSm(t)
      /\ th'[t].run = run /\ th'[t].brun = {} /\ th'[t].old = 0
      /\ th'[t].pc = th[t].back
  <2>1. th'[t] = [th[t] EXCEPT !.pc = th[t].back, !.run = run]
    BY <1>2, <1>3
  <2>2. th[t].back \in Labels
    BY <1>2, SmFacts DEF Labels
  <2>3. th'[t] \in Thread
    BY ZenonT(60), <1>2, <2>1, <2>2 DEF Thread
  <2>4. OnlyThread(t)
    BY <1>2, <1>3, <2>3 DEF OnlyThread
  <2>. QED BY <1>2, <2>1, <2>4 DEF Thread, SameJob, SameSm
<1>5. /\ ~InSm(t)' /\ ~CallsBsm(t)' /\ ~CallsSm(t)' /\ th'[t].pc \in After
      /\ BaseWanted(t)' => BaseWanted(t)
  <2>1. th[t].back \in After
    BY <1>2, SmFacts
  <2>2. ~InSm(t)' /\ ~CallsBsm(t)' /\ ~CallsSm(t)'
    BY <1>4, <2>1 DEF InSm, CallsBsm, CallsSm, InTree, InBsm, After
  <2>. QED BY <1>2, <1>4, <2>1, <2>2 DEF BaseWanted
<1>6. LocalInv(t)'
  <2>1. /\ th[t].call \in {"alloc", "free"}
        /\ th[t].call = "free" => th[t].back = "done"
        /\ th[t].back = "done" => (th[t].call = "free") = (th[t].job = "free")
        /\ th[t].job = "free" => th[t].blk \in Block
    BY <1>2 DEF LocalInv
  <2>2. th[t].back = "set_base" => \E x \in Block : run \subseteq {x}
    <3>1. SUFFICES ASSUME th[t].back = "set_base" PROVE \E x \in Block : run \subseteq {x}
      OBVIOUS
    <3>2. th[t].cnt = 1 /\ th[t].call = "alloc"
      BY <1>2, <2>1, <3>1 DEF LocalInv
    <3>. QED BY <1>2, <1>3, <3>2, RunOfOne DEF SharedOK
  <2>. QED BY <1>3, <1>4, <1>5, <2>1, <2>2
           DEF LocalInv, Between, After, SameSm, SameJob
<1>7. LockInv(t)'
  BY <1>4, <1>5 DEF LockInv, After
<1>8. ~overlap /\ BaseWanted(t)' => base_blk' = 0 /\ th'[t].pc # "bsm_old"
  BY <1>2, <1>5, SmFacts DEF sm_do, After
<1>9. a \in Owners /\ b \in Owners /\ a # b
  BY OwnersOf DEF PlaceNames, HoldNames
<1>10. /\ Owned[a] = sm_free /\ Owned[b] = th[t].run
       /\ Owned'[a] = sm_free' /\ Owned'[b] = run
  BY <1>4, OwnedFacts, OwnedFactsNext
<1>11. \A o \in Owners : o # a /\ o # b => Owned'[o] = Owned[o]
  <2>1. Pending(t)' = Pending(t)
    BY <1>4 DEF Pending, SameJob, SameSm
  <2>. QED BY <1>2, <1>4, <2>1, OwnedNext DEF counters, sm_do, roots
<1>12. SharedOK' /\ phase' # "new" /\ overlap' = overlap /\ TreeKept(t)
  BY <1>2, <1>3 DEF sm_do, roots, counters, SharedOK, TreeKept, Thread
<1>13. CASE th[t].call = "alloc"
  <2>1. Owned'[a] = Owned[a] \ run /\ Owned'[b] = Owned[b] \cup run
        /\ run \subseteq Owned[a] /\ {} \subseteq Owned[b]
    BY <1>3, <1>10, <1>13
  <2>2. Moves(Owned, Owned', run, b, {}, b)
    BY <1>9, <1>11, <2>1, OneMove
  <2>. QED BY <1>2, <1>4, <1>6, <1>7, <1>8, <1>9, <1>12, <2>1, <2>2, MoveInv
<1>14. CASE th[t].call = "free"
  <2>1. Owned'[b] = Owned[b] \ th[t].run /\ Owned'[a] = Owned[a] \cup th[t].run
        /\ th[t].run \subseteq Owned[b] /\ {} \subseteq Owned[a]
    BY <1>3, <1>10, <1>14
  <2>2. Moves(Owned, Owned', th[t].run, a, {}, a)
    BY <1>9, <1>11, <2>1, OneMove
  <2>. QED BY <1>2, <1>4, <1>6, <1>7, <1>8, <1>9, <1>12, <2>1, <2>2, MoveInv
<1>. QED BY <1>3, <1>13, <1>14
-----------------------------------------------------------------------------
(***************************************************************************)
(* The requests to bsm.                                                    *)
(***************************************************************************)

\* What a thread knows when it waits for bsm or has its lock.
LEMMA BsmFacts ==
  ASSUME IInv, NEW t \in Threads, CallsBsm(t)
  PROVE  /\ SharedOK /\ LocalInv(t) /\ LockInv(t)
         /\ phase # "new" /\ th[t].pc # "idle"
         /\ th \in [Threads -> Thread] /\ th[t] \in Thread
         /\ th[t].pc # "bsm_old" => th[t].old = 0
         /\ ~overlap /\ BaseWanted(t) => base_blk = 0 /\ th[t].pc # "bsm_old"
<1>1. th[t].pc # "idle"
  BY DEF CallsBsm, InBsm
<1>2. phase # "new"
  BY <1>1 DEF IInv, NewInv
<1>3. ~overlap /\ BaseWanted(t) => base_blk = 0 /\ th[t].pc # "bsm_old"
  BY DEF IInv, SerialInv, BaseWanted
<1>. QED BY <1>1, <1>2, <1>3, ThreadFacts DEF LocalInv

\* A step inside bsm keeps the conditions of the request to sm around it.
LEMMA BsmLocal ==
  ASSUME IInv, NEW t \in Threads, CallsBsm(t), CallsBsm(t)',
         SameSm(t), SameBsm(t), SameJob(t), th'[t].run = th[t].run,
         th'[t].brun = th[t].brun, th'[t].pc # "bsm_old" => th'[t].old = 0,
         sm_lock' = sm_lock, sm_nodes' = sm_nodes
  PROVE  /\ LocalInv(t)' /\ LockInv(t)'
         /\ Pending(t)' = Pending(t)
         /\ BaseWanted(t)' = BaseWanted(t)
<1>1. LocalInv(t) /\ LockInv(t)
  BY BsmFacts
<1>2. th'[t].pc \in InBsm \cup {"bsm"} /\ th[t].pc \in InBsm \cup {"bsm"}
  BY DEF CallsBsm
<1>3. InSm(t)' = InSm(t) /\ CallsSm(t)' = CallsSm(t)
  BY <1>2 DEF InSm, CallsSm, CallsBsm, SameBsm, InTree, InBsm
<1>4. LocalInv(t)'
  BY <1>1, <1>2, <1>3 DEF LocalInv, SameSm, SameBsm, SameJob, After, Between, InBsm
<1>5. LockInv(t)'
  BY <1>1, <1>2, <1>3 DEF LockInv, SameBsm, InBsm
<1>. QED BY <1>2, <1>3, <1>4, <1>5 DEF Pending, SameSm, SameJob, BaseWanted, InBsm

\* What the blocks belong to does not depend on what is dirty.
LEMMA OwnedSame ==
  UNCHANGED <<sm_free, bsm_free, sm_nodes, user, sm_root, bsm_root, base_blk, leaked, th>>
    => Owned' = Owned
BY DEF Owned, Has, PlaceOf, Holds, Pending

\* bsm has no block: nothing changes hands.
LEMMA BsmEmptyInv ==
  ASSUME NEW t \in Threads, IInv, bsm_empty(t) PROVE IInv'
<1>1. Owned' = Owned
  BY OwnedSame DEF bsm_empty, pools, roots, counters
<1>2. TypeInv'
  BY DEF bsm_empty, pools, roots, locks, counters, IInv, TypeInv, SharedOK
<1>3. \A u \in Threads : LocalInv(u)' /\ LockInv(u)'
  BY DEF bsm_empty, pools, locks, IInv, LocalInv, LockInv, CallsSm, InSm, CallsBsm
<1>4. SerialInv' /\ NewInv' /\ overlap' \in BOOLEAN
  BY <1>1 DEF bsm_empty, counters, IInv, SerialInv, NewInv, CallsSm, InSm, CallsBsm, Covers
<1>5. Disjoint(Owned')
  BY <1>1 DEF IInv
<1>. QED BY <1>2, <1>3, <1>4, <1>5 DEF IInv, Disjoint

\* A request takes the lock of bsm.
LEMMA BsmEnterInv ==
  ASSUME NEW t \in Threads, IInv, bsm_enter(t) PROVE IInv'
<1>1. th[t].pc = "bsm" /\ CallsBsm(t)
  BY DEF bsm_enter, At, CallsBsm
<1>2. SharedOK /\ phase # "new" /\ th[t].pc # "idle" /\ th[t].old = 0
  BY <1>1, BsmFacts
<1>3. /\ OnlyThread(t) /\ SameJob(t) /\ SameSm(t) /\ SameBsm(t)
      /\ th'[t].run = th[t].run /\ th'[t].brun = th[t].brun /\ th'[t].old = 0
      /\ th'[t].pc \in {"bsm_tree", "bsm_cow"}
  <2>1. PICK label \in {"bsm_tree", "bsm_cow"} : Goto(t, label)
    BY DEF bsm_enter
  <2>2. label \in Labels
    BY DEF Labels, InBsm
  <2>. QED BY <1>2, <2>1, <2>2, GotoIs
<1>4. CallsBsm(t)' /\ sm_lock' = sm_lock /\ sm_nodes' = sm_nodes
  BY <1>3 DEF CallsBsm, InBsm, bsm_enter, pools
<1>5. LocalInv(t)' /\ LockInv(t)' /\ Pending(t)' = Pending(t)
      /\ BaseWanted(t)' = BaseWanted(t)
  BY <1>1, <1>3, <1>4, BsmLocal
<1>6. ~overlap /\ BaseWanted(t)' => base_blk' = 0 /\ th'[t].pc # "bsm_old"
  BY <1>1, <1>3, <1>5, BsmFacts DEF bsm_enter
<1>7. SharedOK' /\ phase' # "new" /\ overlap' = overlap /\ TreeKept(t)
  BY <1>2 DEF bsm_enter, pools, roots, counters, SharedOK, TreeKept
<1>. QED BY <1>2, <1>3, <1>5, <1>6, <1>7, StayInv
         DEF counters, bsm_enter, pools, roots, SameJob

\* The root of bsm moves to base_blk.
LEMMA BsmCowInv ==
  ASSUME NEW t \in Threads, IInv, bsm_cow(t) PROVE IInv'
<1> DEFINE a == <<None, "base_blk">>
           b == <<None, "bsm_root">>
           q == <<t, "old">>
<1>1. th[t].pc = "bsm_cow" /\ CallsBsm(t)
  BY DEF bsm_cow, At, CallsBsm, InBsm
<1>2. /\ SharedOK /\ phase # "new" /\ th[t].pc # "idle" /\ th[t].old = 0
      /\ th \in [Threads -> Thread] /\ th[t] \in Thread
      /\ bsm_root \in Block /\ base_blk \in Block
  BY <1>1, BsmFacts DEF SharedOK, bsm_cow
<1>3. /\ OnlyThread(t) /\ SameJob(t) /\ SameSm(t) /\ SameBsm(t)
      /\ th'[t].run = th[t].run /\ th'[t].brun = th[t].brun /\ th'[t].old = bsm_root
      /\ th'[t].pc = "bsm_old"
  <2>1. th'[t] = [th[t] EXCEPT !.pc = "bsm_old", !.old = bsm_root]
    BY <1>2 DEF bsm_cow
  <2>2. th'[t] \in Thread
    <3>1. "bsm_old" \in Labels
      BY DEF Labels, InBsm
    <3>. QED BY ZenonT(60), <1>2, <2>1, <3>1 DEF Thread
  <2>3. OnlyThread(t)
    BY <1>2, <2>2 DEF bsm_cow, OnlyThread
  <2>. QED BY <1>2, <2>1, <2>3 DEF Thread, SameJob, SameSm, SameBsm
<1>4. CallsBsm(t)' /\ sm_lock' = sm_lock /\ sm_nodes' = sm_nodes
  BY <1>3 DEF CallsBsm, InBsm, bsm_cow, pools, locks
<1>5. LocalInv(t)' /\ LockInv(t)' /\ Pending(t)' = Pending(t)
      /\ BaseWanted(t)' = BaseWanted(t)
  BY <1>1, <1>3, <1>4, BsmLocal
<1>6. ~overlap => ~BaseWanted(t)'
  BY <1>1, <1>5, BsmFacts DEF bsm_cow
<1>7. a \in Owners /\ b \in Owners /\ q \in Owners /\ a # b /\ a # q /\ b # q
  BY OwnersOf DEF PlaceNames, HoldNames
<1>8. /\ Owned[a] = {base_blk} /\ Owned[b] = {bsm_root} /\ Owned[q] = {}
      /\ Owned'[a] = {} /\ Owned'[b] = {base_blk} /\ Owned'[q] = {bsm_root}
  <2>1. /\ Owned[a] = {base_blk} \ {0} /\ Owned[b] = {bsm_root}
        /\ Owned[q] = {th[t].old} \ {0}
    BY OwnedFacts
  <2>2. /\ Owned'[a] = {base_blk'} \ {0} /\ Owned'[b] = {bsm_root'}
        /\ Owned'[q] = {th'[t].old} \ {0}
    BY OwnedFactsNext
  <2>3. base_blk' = 0 /\ bsm_root' = base_blk
    BY DEF bsm_cow
  <2>. QED BY <1>2, <1>3, <2>1, <2>2, <2>3, OwnersOf
<1>9. \A o \in Owners : o # a /\ o # b /\ o # q => Owned'[o] = Owned[o]
  BY <1>3, <1>5, OwnedNext DEF counters, bsm_cow, pools
<1>10. Moves(Owned, Owned', {base_blk}, b, {bsm_root}, q)
  BY <1>7, <1>8, <1>9, Chain
<1>11. SharedOK' /\ phase' # "new" /\ overlap' = overlap /\ TreeKept(t)
  BY <1>2 DEF bsm_cow, pools, locks, counters, SharedOK, TreeKept
<1>12. {base_blk} \subseteq Owned[a] /\ {bsm_root} \subseteq Owned[b]
  BY <1>8
<1>. QED BY <1>2, <1>3, <1>5, <1>6, <1>7, <1>10, <1>11, <1>12, MoveInv

\* The block that the root of bsm left becomes base_blk.
LEMMA BsmOldInv ==
  ASSUME NEW t \in Threads, IInv, bsm_old(t) PROVE IInv'
<1> DEFINE a == <<t, "old">>
           p == <<None, "base_blk">>
<1>1. th[t].pc = "bsm_old" /\ CallsBsm(t)
  BY DEF bsm_old, At, CallsBsm, InBsm
<1>2. /\ SharedOK /\ phase # "new" /\ th[t].pc # "idle" /\ base_blk = 0
      /\ th \in [Threads -> Thread] /\ th[t] \in Thread
  BY <1>1, BsmFacts DEF bsm_old
<1>3. /\ OnlyThread(t) /\ SameJob(t) /\ SameSm(t) /\ SameBsm(t)
      /\ th'[t].run = th[t].run /\ th'[t].brun = th[t].brun /\ th'[t].old = 0
      /\ th'[t].pc = "bsm_tree"
  <2>1. th'[t] = [th[t] EXCEPT !.pc = "bsm_tree", !.old = 0]
    BY <1>2 DEF bsm_old
  <2>2. th'[t] \in Thread
    <3>1. "bsm_tree" \in Labels
      BY DEF Labels, InBsm
    <3>. QED BY <1>2, <2>1, <3>1 DEF Thread
  <2>3. OnlyThread(t)
    BY <1>2, <2>2 DEF bsm_old, OnlyThread
  <2>. QED BY <1>2, <2>1, <2>3 DEF Thread, SameJob, SameSm, SameBsm
<1>4. CallsBsm(t)' /\ sm_lock' = sm_lock /\ sm_nodes' = sm_nodes
  BY <1>3 DEF CallsBsm, InBsm, bsm_old, pools, locks
<1>5. LocalInv(t)' /\ LockInv(t)' /\ Pending(t)' = Pending(t)
      /\ BaseWanted(t)' = BaseWanted(t)
  BY <1>1, <1>3, <1>4, BsmLocal
<1>6. ~overlap => ~BaseWanted(t)'
  BY <1>1, <1>5, BsmFacts
<1>7. a \in Owners /\ p \in Owners /\ a # p
  BY OwnersOf DEF PlaceNames, HoldNames
<1>8. /\ Owned[a] = {th[t].old} \ {0} /\ Owned[p] = {}
      /\ Owned'[a] = {} /\ Owned'[p] = {th[t].old} \ {0}
  <2>1. Owned[a] = {th[t].old} \ {0} /\ Owned[p] = {base_blk} \ {0}
    BY OwnedFacts
  <2>2. Owned'[a] = {th'[t].old} \ {0} /\ Owned'[p] = {base_blk'} \ {0}
    BY OwnedFactsNext
  <2>. QED BY <1>2, <1>3, <2>1, <2>2 DEF bsm_old
<1>9. \A o \in Owners : o # a /\ o # p => Owned'[o] = Owned[o]
  BY <1>3, <1>5, OwnedNext DEF counters, bsm_old, pools, roots
<1>10. Moves(Owned, Owned', Owned[a], p, {}, p)
  BY <1>7, <1>8, <1>9, OneMove
<1>11. SharedOK' /\ phase' # "new" /\ overlap' = overlap /\ TreeKept(t)
  BY <1>2 DEF bsm_old, pools, roots, locks, counters, SharedOK, TreeKept, Thread
<1>12. {} \subseteq Owned[p]
  OBVIOUS
<1>. QED BY <1>2, <1>3, <1>5, <1>6, <1>7, <1>10, <1>11, <1>12, MoveInv

\* The request itself: one block leaves the tree of bsm, or some come back.
LEMMA BsmDoInv ==
  ASSUME NEW t \in Threads, IInv, bsm_do(t) PROVE IInv'
<1> DEFINE a == <<None, "bsm_free">>
           b == <<t, "brun">>
<1>1. th[t].pc = "bsm_tree" /\ CallsBsm(t)
  BY DEF bsm_do, At, CallsBsm, InBsm
<1>2. /\ SharedOK /\ phase # "new" /\ th[t].pc # "idle" /\ th[t].old = 0
      /\ th \in [Threads -> Thread] /\ th[t] \in Thread /\ LocalInv(t) /\ LockInv(t)
  BY <1>1, BsmFacts
<1>3. /\ \/ th[t].bcall = "free" /\ th[t].bback \in {"check", "sm_tree"}
         \/ th[t].bcall = "alloc" /\ th[t].brun = {}
            /\ th[t].bback \in {"sm_copy", "sm_cow", "sm_node"}
      /\ th[t].bback = "check" => th[t].run = {} /\ th[t].call # "free"
      /\ th[t].job = "free" => th[t].blk \in Block
  BY <1>1, <1>2 DEF LocalInv
<1>4. PICK run \in SUBSET Block :
        /\ th' = [th EXCEPT ![t].pc = th[t].bback, ![t].brun = run]
        /\ \/ /\ th[t].bcall = "alloc" /\ th[t].brun = {}
              /\ run \in RunsOf(bsm_free, 1)
              /\ run \subseteq bsm_free
              /\ bsm_free' = bsm_free \ run
           \/ /\ th[t].bcall = "free" /\ run = {}
              /\ bsm_free' = bsm_free \cup th[t].brun
  BY <1>2, <1>3 DEF bsm_do, RunsOf, SharedOK
<1>5. /\ OnlyThread(t) /\ SameJob(t) /\ SameSm(t) /\ SameBsm(t)
      /\ th'[t].run = th[t].run /\ th'[t].brun = run /\ th'[t].old = 0
      /\ th'[t].pc = th[t].bback
  <2>1. th'[t] = [th[t] EXCEPT !.pc = th[t].bback, !.brun = run]
    BY <1>2, <1>4
  <2>2. th[t].bback \in Labels
    BY <1>3 DEF Labels, InTree, Between
  <2>3. th'[t] \in Thread
    BY ZenonT(60), <1>2, <2>1, <2>2 DEF Thread
  <2>4. OnlyThread(t)
    BY <1>2, <1>4, <2>3 DEF OnlyThread
  <2>. QED BY <1>2, <2>1, <2>4 DEF Thread, SameJob, SameSm, SameBsm
<1>6. ~CallsBsm(t)'
  BY <1>3, <1>5 DEF CallsBsm, InBsm
<1>7. /\ LocalInv(t)' /\ Pending(t)' = Pending(t)
      /\ BaseWanted(t)' => BaseWanted(t)
  <2>1. CASE th[t].bback = "check"
    <3>1. ~CallsSm(t)' /\ ~BaseWanted(t)'
      BY <1>5, <1>6, <2>1 DEF CallsSm, InSm, InTree, BaseWanted
    <3>2. LocalInv(t)'
      BY <1>3, <1>4, <1>5, <1>6, <2>1, <3>1
         DEF LocalInv, Between, After, SameSm, SameJob, InTree
    <3>. QED BY <1>5, <3>1, <3>2 DEF Pending, SameJob, SameSm
  <2>2. CASE th[t].bback # "check"
    <3>1. CallsSm(t) /\ CallsSm(t)'
      BY <1>1, <1>3, <1>5, <2>2 DEF CallsSm, InSm, InTree
    <3>2. th'[t].pc = "sm_cow" => \E x \in Block : th'[t].brun \subseteq {x}
      BY <1>2, <1>3, <1>4, <1>5, RunOfOne DEF SharedOK
    <3>3. th'[t].pc \in {"sm", "sm_tree"} => th'[t].brun = {}
      BY <1>3, <1>4, <1>5
    <3>. QED BY <1>5, <1>6, <3>1, <3>2, <3>3, SmLocal
  <2>. QED BY <2>1, <2>2
<1>8. LockInv(t)'
  <2>1. InSm(t)' => InSm(t)
    BY <1>1, <1>3, <1>5, <1>6 DEF InSm, InTree
  <2>2. th'[t].pc = "sm_copy" => th[t].bback = "sm_copy"
    BY <1>5
  <2>. QED BY <1>1, <1>2, <1>5, <1>6, <2>1, <2>2 DEF LockInv, bsm_do, SameBsm
<1>9. ~overlap /\ BaseWanted(t)' => base_blk' = 0 /\ th'[t].pc # "bsm_old"
  BY <1>1, <1>3, <1>5, <1>7, BsmFacts DEF bsm_do
<1>10. a \in Owners /\ b \in Owners /\ a # b
  BY OwnersOf DEF PlaceNames, HoldNames
<1>11. /\ Owned[a] = bsm_free /\ Owned[b] = th[t].brun
       /\ Owned'[a] = bsm_free' /\ Owned'[b] = run
  BY <1>5, OwnedFacts, OwnedFactsNext
<1>12. \A o \in Owners : o # a /\ o # b => Owned'[o] = Owned[o]
  BY <1>2, <1>5, <1>7, OwnedNext DEF counters, bsm_do, roots
<1>13. SharedOK' /\ phase' # "new" /\ overlap' = overlap /\ TreeKept(t)
  BY <1>2, <1>4 DEF bsm_do, roots, counters, SharedOK, TreeKept, Thread
<1>14. CASE th[t].bcall = "alloc"
  <2>1. Owned'[a] = Owned[a] \ run /\ Owned'[b] = Owned[b] \cup run
        /\ run \subseteq Owned[a] /\ {} \subseteq Owned[b]
    BY <1>4, <1>11, <1>14
  <2>2. Moves(Owned, Owned', run, b, {}, b)
    BY <1>10, <1>12, <2>1, OneMove
  <2>. QED BY <1>2, <1>5, <1>7, <1>8, <1>9, <1>10, <1>13, <2>1, <2>2, MoveInv
<1>15. CASE th[t].bcall = "free"
  <2>1. Owned'[b] = Owned[b] \ th[t].brun /\ Owned'[a] = Owned[a] \cup th[t].brun
        /\ th[t].brun \subseteq Owned[b] /\ {} \subseteq Owned[a]
    BY <1>4, <1>11, <1>15
  <2>2. Moves(Owned, Owned', th[t].brun, a, {}, a)
    BY <1>10, <1>12, <2>1, OneMove
  <2>. QED BY <1>2, <1>5, <1>7, <1>8, <1>9, <1>10, <1>13, <2>1, <2>2, MoveInv
<1>. QED BY <1>4, <1>14, <1>15
-----------------------------------------------------------------------------
(***************************************************************************)
(* Requests begin; the container is closed and opened again.               *)
(***************************************************************************)
\* A thread that was idle begins a request; it may hold the block to free.
LEMMA BeginInv ==
  ASSUME IInv, NEW t \in Threads, th[t].pc = "idle",
         SharedOK', OnlyThread(t),
         th'[t].pc = "reserve", th'[t].call # "free",
         th'[t].run = {}, th'[t].brun = {}, th'[t].old = 0,
         th'[t].job = "free" => th'[t].blk \in Block,
         phase' # "new", overlap' \in BOOLEAN,
         UNCHANGED <<sm_nodes, sm_lock, base_blk>>,
         ~overlap' => ~overlap /\ \A u \in Threads : u # t => th[u].pc = "idle",
         Disjoint(Owned'), ~overlap => Covers(Owned')
  PROVE  IInv'
<1>1. TypeInv'
  BY DEF TypeInv, OnlyThread
<1>2. ASSUME NEW u \in Threads PROVE LocalInv(u)' /\ LockInv(u)'
  <2>1. CASE u = t
    <3>1. ~InSm(t)' /\ ~CallsBsm(t)' /\ ~CallsSm(t)'
      BY DEF InSm, CallsBsm, CallsSm, InTree, InBsm
    <3>. QED BY <2>1, <3>1 DEF LocalInv, LockInv, Between, After
  <2>2. CASE u # t
    <3>1. th'[u] = th[u] /\ LocalInv(u) /\ LockInv(u)
      BY <2>2 DEF OnlyThread, IInv
    <3>. QED BY <3>1 DEF LocalInv, LockInv, CallsSm, InSm, CallsBsm
  <2>. QED BY <2>1, <2>2
<1>3. SerialInv'
  <2>1. SUFFICES ASSUME ~overlap'
                 PROVE  /\ \A u, v \in Threads :
                             th'[u].pc # "idle" /\ th'[v].pc # "idle" => u = v
                        /\ Covers(Owned')
                        /\ \A u \in Threads : BaseWanted(u)' =>
                             base_blk' = 0 /\ th'[u].pc # "bsm_old"
    BY DEF SerialInv, BaseWanted, Covers
  <2>2. \A u \in Threads : u # t => th'[u].pc = "idle"
    BY <2>1 DEF OnlyThread
  <2>3. \A u \in Threads : th'[u].pc \in {"idle", "reserve"} => ~BaseWanted(u)'
    BY DEF BaseWanted, CallsSm, InSm, CallsBsm, InTree, InBsm
  <2>. QED BY <2>1, <2>2, <2>3
<1>4. NewInv'
  BY DEF NewInv
<1>. QED BY <1>1, <1>2, <1>3, <1>4 DEF IInv, Disjoint

\* An idle thread holds nothing.
LEMMA IdleFacts ==
  ASSUME IInv, NEW t \in Threads, th[t].pc = "idle"
  PROVE  /\ th[t] = Idle /\ SharedOK /\ ~Pending(t)
         /\ th \in [Threads -> Thread] /\ th[t] \in Thread
<1>1. th[t] = Idle
  BY ThreadFacts DEF LocalInv
<1>. QED BY <1>1, ThreadFacts DEF Pending, Idle

\* A container is created: the first request.
LEMMA CreateInv ==
  ASSUME NEW t \in Threads, IInv, create_system_objects(t) PROVE IInv'
<1>1. \A u \in Threads : th[u].pc = "idle"
  BY DEF create_system_objects, IInv, NewInv
<1>2. /\ th[t] = Idle /\ SharedOK /\ ~Pending(t)
      /\ th \in [Threads -> Thread] /\ th[t] \in Thread
  BY <1>1, IdleFacts
<1>3. /\ OnlyThread(t) /\ th'[t].pc = "reserve" /\ th'[t].job = "create"
      /\ th'[t].call = "none" /\ th'[t].run = {} /\ th'[t].brun = {}
      /\ th'[t].old = 0 /\ th'[t].blk = th[t].blk
  <2>1. th'[t] = [Idle EXCEPT !.pc = "reserve", !.job = "create"]
    BY <1>2 DEF create_system_objects
  <2>2. th'[t] \in Thread
    <3>1. "reserve" \in Labels
      BY DEF Labels, Between
    <3>. QED BY <1>2, <2>1, <3>1 DEF Thread
  <2>3. OnlyThread(t)
    BY <1>2, <2>2 DEF create_system_objects, OnlyThread
  <2>. QED BY <1>2, <2>1, <2>3 DEF Idle
<1>4. Owned' = Owned
  <2>1. Owned[<<t, "blk">>] = {} /\ Owned'[<<t, "blk">>] = {}
    BY <1>2, <1>3, OwnedFacts, OwnedFactsNext DEF Pending
  <2>2. th'[t].run = th[t].run /\ th'[t].brun = th[t].brun /\ th'[t].old = th[t].old
    BY <1>2, <1>3 DEF Idle
  <2>3. \A o \in Owners : Owned'[o] = Owned[o]
    BY <1>3, <2>1, <2>2, OwnedNext DEF counters, create_system_objects, pools, roots
  <2>. QED BY <2>3 DEF Owned
<1>5. SharedOK'
  BY <1>2 DEF create_system_objects, pools, roots, counters, locks, SharedOK
<1>. QED BY <1>1, <1>2, <1>3, <1>4, <1>5, BeginInv
         DEF create_system_objects, pools, locks, counters, IInv, SerialInv

\* A request for blocks begins.
LEMMA AllocInv ==
  ASSUME NEW t \in Threads, IInv, ofs_alloc_space(t) PROVE IInv'
<1>1. /\ th[t].pc = "idle" /\ phase = "open"
      /\ overlap' = (overlap \/ \E u \in Threads : th[u].pc # "idle")
  BY DEF ofs_alloc_space, Begin
<1>2. /\ th[t] = Idle /\ SharedOK /\ ~Pending(t)
      /\ th \in [Threads -> Thread] /\ th[t] \in Thread
  BY <1>1, IdleFacts
<1>3. /\ OnlyThread(t) /\ th'[t].pc = "reserve" /\ th'[t].job = "alloc"
      /\ th'[t].call = "none" /\ th'[t].run = {} /\ th'[t].brun = {}
      /\ th'[t].old = 0 /\ th'[t].blk = th[t].blk
  <2>1. th'[t] = [Idle EXCEPT !.pc = "reserve", !.job = "alloc"]
    BY <1>2 DEF ofs_alloc_space
  <2>2. th'[t] \in Thread
    <3>1. "reserve" \in Labels
      BY DEF Labels, Between
    <3>. QED BY <1>2, <2>1, <3>1 DEF Thread
  <2>3. OnlyThread(t)
    BY <1>2, <2>2 DEF ofs_alloc_space, OnlyThread
  <2>. QED BY <1>2, <2>1, <2>3 DEF Idle
<1>4. Owned' = Owned
  <2>1. Owned[<<t, "blk">>] = {} /\ Owned'[<<t, "blk">>] = {}
    BY <1>2, <1>3, OwnedFacts, OwnedFactsNext DEF Pending
  <2>2. th'[t].run = th[t].run /\ th'[t].brun = th[t].brun /\ th'[t].old = th[t].old
    BY <1>2, <1>3 DEF Idle
  <2>3. \A o \in Owners : Owned'[o] = Owned[o]
    BY <1>3, <2>1, <2>2, OwnedNext DEF ofs_alloc_space, Begin, pools, roots
  <2>. QED BY <2>3 DEF Owned
<1>5. SharedOK'
  BY <1>2 DEF ofs_alloc_space, Begin, pools, roots, locks, SharedOK
<1>. QED BY <1>1, <1>2, <1>3, <1>4, <1>5, BeginInv
         DEF ofs_alloc_space, pools, locks, IInv, SerialInv

\* The caller gives up the block it frees.
LEMMA FreeInv ==
  ASSUME NEW t \in Threads, IInv, ofs_free_space(t) PROVE IInv'
<1> DEFINE a == <<None, "user">>
           p == <<t, "blk">>
<1>1. /\ th[t].pc = "idle" /\ phase = "open"
      /\ overlap' = (overlap \/ \E u \in Threads : th[u].pc # "idle")
  BY DEF ofs_free_space, Begin
<1>2. /\ th[t] = Idle /\ SharedOK /\ ~Pending(t)
      /\ th \in [Threads -> Thread] /\ th[t] \in Thread
  BY <1>1, IdleFacts
<1>3. PICK b \in user :
        /\ user' = user \ {b}
        /\ th' = [th EXCEPT ![t].pc = "reserve", ![t].job = "free", ![t].blk = b]
  BY DEF ofs_free_space
<1>4. b \in Block
  BY <1>2 DEF SharedOK
<1>5. /\ OnlyThread(t) /\ th'[t].pc = "reserve" /\ th'[t].job = "free"
      /\ th'[t].call = "none" /\ th'[t].run = {} /\ th'[t].brun = {}
      /\ th'[t].old = 0 /\ th'[t].blk = b
  <2>1. th'[t] = [Idle EXCEPT !.pc = "reserve", !.job = "free", !.blk = b]
    BY <1>2, <1>3
  <2>2. th'[t] \in Thread
    <3>1. "reserve" \in Labels
      BY DEF Labels, Between
    <3>. QED BY ZenonT(60), <1>2, <1>4, <2>1, <3>1 DEF Thread
  <2>3. OnlyThread(t)
    BY <1>2, <1>3, <2>2 DEF OnlyThread
  <2>. QED BY <1>2, <2>1, <2>3 DEF Idle
<1>6. a \in Owners /\ p \in Owners /\ a # p
  BY OwnersOf DEF PlaceNames, HoldNames
<1>7. /\ Owned[a] = user /\ Owned[p] = {}
      /\ Owned'[a] = user \ {b} /\ Owned'[p] = {b}
  BY <1>2, <1>3, <1>5, OwnedFacts, OwnedFactsNext DEF Pending
<1>8. \A o \in Owners : o # a /\ o # p => Owned'[o] = Owned[o]
  <2>1. th'[t].run = th[t].run /\ th'[t].brun = th[t].brun /\ th'[t].old = th[t].old
    BY <1>2, <1>5 DEF Idle
  <2>. QED BY <1>5, <2>1, OwnedNext DEF ofs_free_space, Begin, roots
<1>9. Moves(Owned, Owned', {b}, p, {}, p)
  BY <1>6, <1>7, <1>8, OneMove
<1>10. {b} \subseteq Owned[a] /\ {} \subseteq Owned[p]
  BY <1>7
<1>11. Disjoint(Owned')
  BY <1>6, <1>9, <1>10, MovesKeepDisjoint DEF IInv
<1>12. ~overlap => Covers(Owned')
  BY <1>6, <1>9, MovesKeepAll DEF IInv, SerialInv
<1>13. SharedOK'
  BY <1>2, <1>3 DEF ofs_free_space, Begin, roots, locks, SharedOK
<1>14. ~overlap' => ~overlap /\ \A u \in Threads : u # t => th[u].pc = "idle"
  BY <1>1
<1>15. phase' # "new" /\ overlap' \in BOOLEAN /\ UNCHANGED <<sm_nodes, sm_lock, base_blk>>
  BY <1>1 DEF ofs_free_space, locks, IInv
<1>. QED BY <1>1, <1>4, <1>5, <1>11, <1>12, <1>13, <1>14, <1>15, BeginInv

\* close and open: the marks of dirty blocks go, the blocks stay.
LEMMA ReopenInv == IInv /\ reopen => IInv'
<1>. SUFFICES ASSUME IInv, reopen PROVE IInv'
  OBVIOUS
<1>1. Owned' = Owned
  BY OwnedSame DEF reopen
<1>2. TypeInv'
  BY DEF reopen, locks, IInv, TypeInv, SharedOK
<1>3. \A t \in Threads : LocalInv(t)' /\ LockInv(t)'
  BY DEF reopen, locks, IInv, LocalInv, LockInv, CallsSm, InSm, CallsBsm
<1>4. SerialInv' /\ NewInv' /\ overlap' \in BOOLEAN
  BY <1>1 DEF reopen, IInv, SerialInv, NewInv, CallsSm, InSm, CallsBsm, Covers
<1>5. Disjoint(Owned')
  BY <1>1 DEF IInv
<1>. QED BY <1>2, <1>3, <1>4, <1>5 DEF IInv, Disjoint

\* A step that changes nothing.
LEMMA StutterInv == IInv /\ UNCHANGED vars => IInv'
<1>. SUFFICES ASSUME IInv, UNCHANGED vars PROVE IInv'
  OBVIOUS
<1>1. Owned' = Owned
  BY OwnedSame DEF vars, pools, roots, counters
<1>2. TypeInv'
  BY DEF vars, pools, roots, locks, counters, IInv, TypeInv, SharedOK
<1>3. \A t \in Threads : LocalInv(t)' /\ LockInv(t)'
  BY DEF vars, pools, locks, IInv, LocalInv, LockInv, CallsSm, InSm, CallsBsm
<1>4. SerialInv' /\ NewInv' /\ overlap' \in BOOLEAN
  BY <1>1 DEF vars, counters, IInv, SerialInv, NewInv, CallsSm, InSm, CallsBsm, Covers
<1>5. Disjoint(Owned')
  BY <1>1 DEF IInv
<1>. QED BY <1>2, <1>3, <1>4, <1>5 DEF IInv, Disjoint
-----------------------------------------------------------------------------
(***************************************************************************)
(* The theorems.                                                           *)
(***************************************************************************)

\* A thread that runs no request has no block.
IdleHolds(t) == /\ th[t].run = {} /\ th[t].brun = {}
                /\ th[t].old = 0 /\ th[t].job = "none"

\* An idle thread owns no block.
LEMMA IdleOwnsNothing ==
  ASSUME NEW t \in Threads, IdleHolds(t)
  PROVE  /\ Owned[<<t, "run">>] = {} /\ Owned[<<t, "brun">>] = {}
         /\ Owned[<<t, "old">>] = {} /\ Owned[<<t, "blk">>] = {}
<1>1. ~Pending(t)
  BY DEF Pending, IdleHolds
<1>2. /\ Owned[<<t, "run">>] = {} /\ Owned[<<t, "brun">>] = {}
      /\ Owned[<<t, "old">>] = {0} \ {0}
  BY OwnedFacts DEF IdleHolds
<1>3. Owned[<<t, "blk">>] = {}
  BY <1>1, OwnedFacts
<1>. QED BY <1>2, <1>3

\* A new container: the inodes of $BASE and $SPACE, all other blocks free.
LEMMA InitIInv == Init => IInv
<1>. SUFFICES ASSUME Init PROVE IInv
  OBVIOUS
<1>1. Idle \in Thread
  BY BaseSpaceAssumption DEF Idle, Thread, Labels, Between, After, Calls, InTree
<1>2. TypeInv
  BY <1>1, BaseSpaceAssumption DEF Init, TypeInv, SharedOK, Block
<1>3. \A t \in Threads : th[t] = Idle
  BY DEF Init
<1>4. ASSUME NEW t \in Threads PROVE LocalInv(t) /\ LockInv(t) /\ ~BaseWanted(t)
  BY <1>3 DEF LocalInv, LockInv, CallsSm, InSm, CallsBsm, Idle, BaseWanted,
              InTree, InBsm, Between, After
<1>5. /\ Owned[<<None, "sm_free">>] = 3 .. Total - 1
      /\ Owned[<<None, "sm_root">>] = {2} /\ Owned[<<None, "bsm_root">>] = {1}
      /\ \A o \in Owners : o \notin {<<None, "sm_free">>, <<None, "sm_root">>,
                                     <<None, "bsm_root">>} => Owned[o] = {}
  <2>1. \A t \in Threads : IdleHolds(t)
    BY <1>3 DEF IdleHolds, Idle
  <2>2. \A t \in Threads :
          /\ Owned[<<t, "run">>] = {} /\ Owned[<<t, "brun">>] = {}
          /\ Owned[<<t, "old">>] = {} /\ Owned[<<t, "blk">>] = {}
    BY <2>1, IdleOwnsNothing
  <2>3. /\ Owned[<<None, "bsm_free">>] = {} /\ Owned[<<None, "sm_nodes">>] = {}
        /\ Owned[<<None, "user">>] = {} /\ Owned[<<None, "base_blk">>] = {}
        /\ Owned[<<None, "leaked">>] = {}
        /\ Owned[<<None, "sm_free">>] = 3 .. Total - 1
        /\ Owned[<<None, "sm_root">>] = {2} /\ Owned[<<None, "bsm_root">>] = {1}
    BY OwnedFacts DEF Init
  <2>. QED BY <2>2, <2>3, OwnerCases
<1>6. Disjoint(Owned)
  <2>. SUFFICES ASSUME NEW o \in Owners, NEW u \in Owners, NEW x,
                       x \in Owned[o], x \in Owned[u]
                PROVE  o = u
    BY DEF Disjoint
  <2>. DEFINE Known == {<<None, "sm_free">>, <<None, "sm_root">>, <<None, "bsm_root">>}
  <2>1. o \in Known /\ u \in Known
    BY <1>5
  <2>2. 1 \notin 3 .. Total - 1 /\ 2 \notin 3 .. Total - 1
    BY BaseSpaceAssumption
  <2>3. /\ o = <<None, "sm_free">> => x \in 3 .. Total - 1
        /\ o = <<None, "sm_root">> => x = 2
        /\ o = <<None, "bsm_root">> => x = 1
    BY <1>5
  <2>4. /\ u = <<None, "sm_free">> => x \in 3 .. Total - 1
        /\ u = <<None, "sm_root">> => x = 2
        /\ u = <<None, "bsm_root">> => x = 1
    BY <1>5
  <2>. QED BY <2>1, <2>2, <2>3, <2>4
<1>7. Covers(Owned)
  <2>1. \A x \in Block : x = 1 \/ x = 2 \/ x \in 3 .. Total - 1
    BY BaseSpaceAssumption DEF Block
  <2>. QED BY <1>5, <2>1, OwnersOf DEF Covers, PlaceNames
<1>8. SerialInv /\ NewInv /\ overlap \in BOOLEAN
  BY <1>3, <1>4, <1>7 DEF Init, SerialInv, NewInv, Idle, BaseWanted
<1>. QED BY <1>2, <1>4, <1>6, <1>8 DEF IInv

\* Every step keeps the inductive invariant.
LEMMA NextIInv == IInv /\ [Next]_vars => IInv'
<1>. SUFFICES ASSUME IInv, Next PROVE IInv'
  BY StutterInv
<1>1. CASE reopen
  BY <1>1, ReopenInv
<1>2. ASSUME NEW t \in Threads, Start(t) PROVE IInv'
  BY <1>2, CreateInv, AllocInv, FreeInv DEF Start
<1>3. ASSUME NEW t \in Threads, Step(t) PROVE IInv'
  BY <1>3, ReserveInv, SetBaseInv, NoSpaceInv, CheckInv, CountInv, GiveInv, DoneInv,
     SmEmptyInv, SmEnterInv, DirtyPathInv, CopyInv, CowInv, GrowInv, NodeInv,
     ShrinkInv, SmDoInv, BsmEmptyInv, BsmEnterInv, BsmCowInv, BsmOldInv, BsmDoInv DEF Step
<1>. QED BY <1>1, <1>2, <1>3 DEF Next

\* The inductive invariant: every block has one owner, be it a place or a
\* request that runs, the tree of sm changes under its lock, and without
\* overlap no block is out of reach.
THEOREM SpecIInv == Spec => []IInv
BY InitIInv, NextIInv, PTL DEF Spec

\* Every variable of the two space managers and their callers has its type.
THEOREM SpecTypeOK == Spec => []TypeOK
<1>1. IInv => TypeOK
  BY TypeInvTypes DEF IInv
<1>. QED BY <1>1, SpecIInv, PTL

\* reserve_base_space takes no lock, yet however many threads refill bsm, copy
\* roots and split nodes at the same time, no block is in two places.
THEOREM SpecOneOwner == Spec => []OneOwner
<1>1. IInv => OneOwner
  BY DisjointPlaces DEF IInv
<1>. QED BY <1>1, SpecIInv, PTL

\* While requests come one after the other, the blocks in no place are those
\* whose free failed, and no others: no refill, no root that is copied, no
\* allocation that fails and no reopen loses one.
THEOREM SpecNothingLost == Spec => []NothingLost
<1>1. IInv => NothingLost
  <2>1. SUFFICES ASSUME IInv, ~overlap, \A t \in Threads : th[t].pc = "idle"
                 PROVE  Block \ InPlaces = leaked
    BY DEF NothingLost
  <2>2. \A t \in Threads : th[t] = Idle
    BY <2>1 DEF IInv, LocalInv
  <2>3. \A t \in Threads :
          /\ Owned[<<t, "run">>] = {} /\ Owned[<<t, "brun">>] = {}
          /\ Owned[<<t, "old">>] = {} /\ Owned[<<t, "blk">>] = {}
    <3>1. \A t \in Threads : IdleHolds(t)
      BY <2>2 DEF IdleHolds, Idle
    <3>. QED BY <3>1, IdleOwnsNothing
  <2>4. \A x : x \in InPlaces <=>
          \/ x \in sm_free \/ x \in bsm_free \/ x \in sm_nodes \/ x \in user
          \/ x \in {sm_root} \/ x \in {bsm_root} \/ x \in {base_blk} \ {0}
    <3>1. /\ Places[1] = sm_free /\ Places[2] = bsm_free /\ Places[3] = sm_nodes
          /\ Places[4] = user /\ Places[5] = {sm_root} /\ Places[6] = {bsm_root}
          /\ Places[7] = {base_blk} \ {0}
      BY DEF Places
    <3>2. 1 .. 7 = {1, 2, 3, 4, 5, 6, 7}
      OBVIOUS
    <3>. QED BY <3>1, <3>2 DEF InPlaces
  <2>5. ASSUME NEW x \in Block PROVE x \in InPlaces \/ x \in leaked
    <3>1. PICK o \in Owners : x \in Owned[o]
      BY <2>1 DEF IInv, SerialInv, Covers
    <3>. QED BY <2>3, <2>4, <3>1, OwnerCases, OwnedFacts
  <2>6. ASSUME NEW x \in leaked PROVE x \notin InPlaces
    <3>1. \A name \in PlaceNames : name # "leaked" =>
            Owned[<<None, name>>] \cap Owned[<<None, "leaked">>] = {}
      BY <2>1, OwnersOf DEF IInv, Disjoint, PlaceNames
    <3>. QED BY <2>4, <3>1, OwnedFacts DEF PlaceNames
  <2>7. leaked \subseteq Block
    BY <2>1 DEF IInv, TypeInv, SharedOK
  <2>. QED BY <2>5, <2>6, <2>7
<1>. QED BY <1>1, SpecIInv, PTL
-----------------------------------------------------------------------------
(***************************************************************************)
(* The reserve: base_blk and the blocks of bsm.                            *)
(***************************************************************************)
\* The root of bsm has been copied in this session, and its old block is base_blk.
Copied == bsm_dirty /\ \A u \in Threads : th[u].pc \notin {"bsm_cow", "bsm_old"}

\* Nothing but the creation of the container has run.
Early == phase \in {"new", "creating", "unusable"}

\* A request that creates the container, before it has filled base_blk and
\* after it has seen that bsm is full.
AsksBase(t) == th[t].pc \in {"reserve", "set_base"} \/ (CallsSm(t) /\ th[t].back = "set_base")
Filled(t) == th[t].pc = "done" \/ (CallsSm(t) /\ th[t].back = "done")

\* Within a change of the tree of sm: a node has its copy, or has been emptied,
\* and its old block is not yet back in bsm.
Short(t) == \/ th[t].pc \in {"sm_copy", "sm_cow"}
            \/ CallsBsm(t) /\ th[t].bcall = "free" /\ th[t].bback = "sm_tree"

\* base_blk is there for the root of bsm.
BaseInv(t) ==
  /\ th[t].pc \in InBsm => bsm_lock = t
  /\ th[t].pc = "bsm_cow" => ~bsm_dirty /\ base_blk # 0
  /\ th[t].pc = "bsm_old" => bsm_dirty /\ base_blk = 0 /\ th[t].old # 0
  /\ th[t].pc \in {"bsm_tree", "sm_cow"} => Copied
  /\ th[t].pc = "set_base" /\ th[t].run # {} => sm_dirty
  /\ CallsBsm(t) /\ th[t].bcall = "free" => th[t].brun # {}

\* The creation asks nothing of bsm and ends with a full reserve.
EarlyInv(t) ==
  /\ Early => /\ th[t].pc \notin {"sm_copy", "sm_cow", "sm_node"}
              /\ CallsBsm(t) => th[t].bcall = "free"
  /\ th[t].job = "create" =>
       /\ phase \in {"creating", "aborted"}
       /\ th[t].pc # "idle"
       /\ AsksBase(t) \/ base_blk # 0
       /\ Filled(t) => Cardinality(bsm_free) > MIN_BLK_NUM

\* bsm was full enough when spent began, and splits took what it has less.
Backed ==
  /\ sm_lock = None => Cardinality(bsm_free) + spent > MIN_BLK_NUM
  /\ \A t \in Threads : sm_lock = t =>
       Cardinality(bsm_free) + spent + (IF Short(t) THEN 1 ELSE 0) > MIN_BLK_NUM

RInv ==
  /\ \A t \in Threads : BaseInv(t) /\ EarlyInv(t)
  /\ sm_dirty => Copied
  /\ Early => ~overlap /\ sm_dirty /\ sm_clean = {}
  /\ phase = "open" => base_blk # 0 \/ \E t \in Threads : th[t].pc = "bsm_old"
  /\ spent \in Nat
  /\ phase = "open" => Backed
  /\ phase = "dry" => spent > MIN_BLK_NUM

\* A step of t leaves the other threads alone.
Alone(t) == \A u \in Threads : u # t => th'[u] = th[u]

\* The splits that are counted: none, or from here on.
Counting == spent' = spent \/ (spent' = 0 /\ Cardinality(bsm_free) > MIN_BLK_NUM)

\* How the step changes who has the lock of sm, and what it owes.
Owing(t) ==
  \/ /\ sm_lock' = sm_lock
     /\ sm_lock = t => (Short(t) => Short(t)')
  \/ sm_lock' = None /\ sm_lock = t /\ ~Short(t)
  \/ sm_lock' = t /\ sm_lock = None

\* bsm has a number of blocks.
LEMMA BsmCount == IInv => IsFiniteSet(bsm_free) /\ Cardinality(bsm_free) \in Nat
<1>1. IsFiniteSet(1 .. Total - 1)
  BY FS_Interval, BaseSpaceAssumption
<1>2. IInv => IsFiniteSet(bsm_free)
  BY <1>1, FS_Subset DEF IInv, TypeInv, SharedOK, Block
<1>. QED BY <1>2, FS_CardinalityType

\* What is left to show of a step: what becomes of its own thread and of the reserve.
LEMMA ReserveStep ==
  ASSUME IInv, RInv, NEW t \in Threads, Alone(t), phase \notin {"aborted", "dry"},
         BaseInv(t)', EarlyInv(t)',
         bsm_lock' = bsm_lock \/ bsm_lock \in {t, None},
         bsm_dirty => bsm_dirty', bsm_dirty' = bsm_dirty \/ bsm_lock = t,
         \/ base_blk' = base_blk
         \/ bsm_lock = t /\ ~sm_dirty
         \/ base_blk' # 0 /\ Copied,
         Copied => th'[t].pc \notin {"bsm_cow", "bsm_old"},
         sm_dirty => sm_dirty', sm_dirty' => sm_dirty \/ Copied,
         Early' => Early /\ overlap' = overlap /\ sm_clean' = sm_clean,
         phase' # phase => phase' = "aborted" \/ \A u \in Threads : u # t => th[u].job # "create",
         Early /\ Cardinality(bsm_free) > MIN_BLK_NUM => Cardinality(bsm_free') > MIN_BLK_NUM,
         phase' = "open" =>
           \/ base_blk' # 0
           \/ base_blk' = base_blk /\ phase = "open" /\ th[t].pc # "bsm_old"
           \/ th'[t].pc = "bsm_old",
         spent' \in Nat, phase' # "dry",
         phase' = "open" => Backed'
  PROVE  RInv'
<1>1. Copied => Copied'
  BY DEF Copied, Alone
<1>2. sm_dirty' => Copied'
  BY <1>1 DEF RInv
<1>3. Early' => ~overlap' /\ sm_dirty' /\ sm_clean' = {}
  BY DEF RInv
<1>4. phase' = "open" => base_blk' # 0 \/ \E u \in Threads : th'[u].pc = "bsm_old"
  BY DEF RInv, Alone
<1>5. ASSUME NEW u \in Threads PROVE BaseInv(u)' /\ EarlyInv(u)'
  <2>1. CASE u = t
    BY <2>1
  <2>2. CASE u # t
    <3>1. th'[u] = th[u] /\ BaseInv(u) /\ EarlyInv(u) /\ u # None
      BY <2>2, BaseSpaceAssumption DEF Alone, RInv
    <3>2. /\ CallsBsm(u)' = CallsBsm(u) /\ CallsSm(u)' = CallsSm(u)
          /\ AsksBase(u)' = AsksBase(u) /\ Filled(u)' = Filled(u)
      BY <3>1 DEF CallsBsm, CallsSm, InSm, AsksBase, Filled
    <3>3. BaseInv(u)'
      <4>1. th[u].pc \in InBsm => bsm_lock = u /\ bsm_lock' = u
        BY <2>2, <3>1 DEF BaseInv
      <4>2. th[u].pc \in {"bsm_cow", "bsm_old"} =>
              bsm_dirty' = bsm_dirty /\ base_blk' = base_blk /\ ~Copied
        BY <2>2, <4>1 DEF InBsm, Copied
      <4>. QED BY <1>1, <3>1, <3>2, <4>1, <4>2 DEF BaseInv
    <3>4. EarlyInv(u)'
      <4>1. CASE th[u].job = "create"
        <5>1. phase = "creating" /\ Early /\ sm_dirty
          BY <3>1, <4>1 DEF EarlyInv, RInv, Early
        <5>2. phase' \in {"creating", "aborted"} /\ (base_blk # 0 => base_blk' # 0)
          BY <2>2, <4>1, <5>1
        <5>3. Filled(u) => Cardinality(bsm_free') > MIN_BLK_NUM
          BY <3>1, <4>1, <5>1 DEF EarlyInv
        <5>. QED BY <3>1, <3>2, <4>1, <5>1, <5>2, <5>3 DEF EarlyInv
      <4>2. CASE th[u].job # "create"
        BY <3>1, <3>2, <4>2 DEF EarlyInv
      <4>. QED BY <4>1, <4>2
    <3>. QED BY <3>3, <3>4
  <2>. QED BY <2>1, <2>2
<1>. QED BY <1>2, <1>3, <1>4, <1>5 DEF RInv

\* A step that takes no block of bsm leaves the reserve as it was.
LEMMA BackedStep ==
  ASSUME IInv, RInv, NEW t \in Threads, Alone(t), Backed, Owing(t),
         bsm_free' = bsm_free, Counting
  PROVE  Backed'
<1>1. /\ Cardinality(bsm_free) \in Nat /\ Cardinality(bsm_free') = Cardinality(bsm_free)
      /\ spent \in Nat /\ MIN_BLK_NUM \in Nat /\ t # None
  BY BsmCount, BaseSpaceAssumption DEF RInv
<1>2. CASE spent' = 0 /\ Cardinality(bsm_free) > MIN_BLK_NUM
  BY <1>1, <1>2 DEF Backed
<1>3. CASE spent' = spent
  <2>1. \A u \in Threads : u # t => Short(u)' = Short(u)
    BY DEF Alone, Short, CallsBsm
  <2>2. sm_lock' = None => Cardinality(bsm_free') + spent' > MIN_BLK_NUM
    BY <1>1, <1>3 DEF Owing, Backed
  <2>3. ASSUME NEW u \in Threads, sm_lock' = u
        PROVE  Cardinality(bsm_free') + spent' + (IF Short(u)' THEN 1 ELSE 0) > MIN_BLK_NUM
    <3>1. u # None
      BY BaseSpaceAssumption
    <3>2. CASE u # t
      <4>1. sm_lock = u /\ Short(u)' = Short(u)
        BY <2>1, <2>3, <3>1, <3>2 DEF Owing
      <4>. QED BY <1>1, <1>3, <4>1 DEF Backed
    <3>3. CASE u = t
      BY <1>1, <1>3, <2>3, <3>1, <3>3 DEF Owing, Backed
    <3>. QED BY <3>2, <3>3
  <2>. QED BY <2>2, <2>3 DEF Backed
<1>. QED BY <1>2, <1>3 DEF Counting

\* A step that leaves base_blk, the roots and the blocks of bsm alone.
LEMMA QuietStep ==
  ASSUME IInv, RInv, NEW t \in Threads, Alone(t), phase \notin {"aborted", "dry"}, Owing(t),
         UNCHANGED <<bsm_free, base_blk, bsm_lock, sm_dirty, bsm_dirty, phase, overlap>>,
         Counting,
         sm_clean' = sm_clean \/ ~Early,
         th[t].pc # "bsm_old", th'[t].pc \notin InBsm \cup {"sm_cow"},
         th'[t].pc = "set_base" /\ th'[t].run # {} => sm_dirty,
         CallsBsm(t)' /\ th'[t].bcall = "free" => th'[t].brun # {},
         Early => /\ th'[t].pc \notin {"sm_copy", "sm_node"}
                  /\ CallsBsm(t)' => th'[t].bcall = "free",
         th'[t].job = "create" =>
           /\ th[t].job = "create" /\ th'[t].pc # "idle"
           /\ AsksBase(t) => AsksBase(t)' \/ base_blk # 0
           /\ Filled(t)' => Filled(t) \/ Cardinality(bsm_free) > MIN_BLK_NUM
  PROVE  RInv'
<1>1. BaseInv(t)'
  BY DEF BaseInv, InBsm
<1>2. EarlyInv(t)'
  <2>1. EarlyInv(t)
    BY DEF RInv
  <2>. QED BY <2>1 DEF EarlyInv, Early
<1>3. phase' = "open" => Backed'
  BY BackedStep DEF RInv
<1>4. spent' \in Nat /\ (Early' => Early)
  BY DEF RInv, Early, Counting
<1>5. Copied => th'[t].pc \notin {"bsm_cow", "bsm_old"}
  BY DEF InBsm
<1>. QED BY <1>1, <1>2, <1>3, <1>4, <1>5, ReserveStep

\* reserve_base_space looks at base_blk.
LEMMA ReserveKeeps ==
  ASSUME NEW t \in Threads, IInv, RInv, reserve_base(t) PROVE RInv'
<1>1. th[t].pc = "reserve" /\ phase \notin {"aborted", "dry"}
  BY DEF reserve_base, At
<1>2. /\ 1 \in 0 .. LenMod - 1 /\ "alloc" \in Calls /\ {} \in SUBSET Block
      /\ "set_base" \in After /\ "check" \in Labels
  BY BaseSpaceAssumption DEF Calls, After, Labels, Between
<1>3. /\ OnlyThread(t) /\ SameJob(t) /\ SameBsm(t)
      /\ \/ base_blk = 0 /\ th'[t].pc = "sm" /\ th'[t].back = "set_base"
         \/ base_blk # 0 /\ th'[t].pc = "check"
  <2>1. CASE base_blk = 0
    BY <1>2, <2>1, CallSmIs DEF reserve_base
  <2>2. CASE base_blk # 0
    BY <1>2, <2>2, GotoIs DEF reserve_base
  <2>. QED BY <2>1, <2>2
<1>4. /\ ~CallsBsm(t) /\ ~CallsBsm(t)' /\ ~Short(t)
      /\ AsksBase(t)' \/ base_blk # 0
      /\ ~Filled(t)'
  BY <1>1, <1>3 DEF CallsBsm, InSm, CallsSm, InTree, InBsm, Short, AsksBase, Filled
<1>5. Alone(t) /\ Owing(t)
  BY <1>3, <1>4 DEF OnlyThread, Alone, Owing, reserve_base, locks
<1>. QED BY <1>1, <1>3, <1>4, <1>5, QuietStep
         DEF Counting, reserve_base, pools, roots, locks, counters, SameJob, InBsm

\* The while loop: bsm is full, or it has to be filled.
LEMMA CheckKeeps ==
  ASSUME NEW t \in Threads, IInv, RInv, check(t) PROVE RInv'
<1>1. th[t].pc = "check" /\ phase \notin {"aborted", "dry"}
  BY DEF check, At
<1>2. /\ 1 \in 0 .. LenMod - 1 /\ {"alloc", "free"} \subseteq Calls /\ {} \in SUBSET Block
      /\ "done" \in After /\ "count" \in Labels
  BY BaseSpaceAssumption DEF Calls, After, Labels, Between
<1>3. th[t].job = "free" => {th[t].blk} \in SUBSET Block
  BY ThreadFacts DEF LocalInv
<1>4. /\ OnlyThread(t) /\ SameJob(t) /\ SameBsm(t)
      /\ \/ th'[t].pc = "count"
         \/ th'[t].pc = "sm" /\ ~(Cardinality(bsm_free) <= MIN_BLK_NUM)
  <2>1. CASE Cardinality(bsm_free) <= MIN_BLK_NUM
    BY <1>2, <2>1, GotoIs DEF check
  <2>2. CASE ~(Cardinality(bsm_free) <= MIN_BLK_NUM) /\ th[t].job = "free"
    BY <1>2, <1>3, <2>2, CallSmIs DEF check
  <2>3. CASE ~(Cardinality(bsm_free) <= MIN_BLK_NUM) /\ th[t].job # "free"
    BY <1>2, <2>3, CallSmIs DEF check
  <2>. QED BY <2>1, <2>2, <2>3
<1>5. /\ ~CallsBsm(t)' /\ ~Short(t) /\ ~AsksBase(t)
      /\ Filled(t)' => Cardinality(bsm_free) > MIN_BLK_NUM
  <2>1. ~CallsBsm(t)' /\ ~Short(t) /\ ~AsksBase(t)
    BY <1>1, <1>4 DEF CallsBsm, InSm, CallsSm, InTree, InBsm, Short, AsksBase
  <2>2. th'[t].pc = "count" => ~Filled(t)'
    BY DEF CallsBsm, InSm, CallsSm, InTree, InBsm, Filled
  <2>3. ~(Cardinality(bsm_free) <= MIN_BLK_NUM) => Cardinality(bsm_free) > MIN_BLK_NUM
    BY BsmCount, BaseSpaceAssumption
  <2>. QED BY <1>4, <2>1, <2>2, <2>3
<1>6. Alone(t) /\ Owing(t) /\ Counting
  <2>1. ~(Cardinality(bsm_free) <= MIN_BLK_NUM) => Cardinality(bsm_free) > MIN_BLK_NUM
    BY BsmCount, BaseSpaceAssumption
  <2>. QED BY <1>4, <1>5, <2>1 DEF OnlyThread, Alone, Owing, Counting, check, locks
<1>. QED BY <1>1, <1>4, <1>5, <1>6, QuietStep
         DEF check, pools, roots, locks, counters, SameJob, InBsm

\* How much a refill asks for.
LEMMA CountKeeps ==
  ASSUME NEW t \in Threads, IInv, RInv, count(t) PROVE RInv'
<1>1. th[t].pc = "count" /\ phase \notin {"aborted", "dry"}
  BY DEF count, At
<1>2. CASE Missing = 0
  <2>1. /\ phase' = "aborted" /\ th' = th
        /\ UNCHANGED <<pools, roots, base_blk, locks, counters>>
    BY <1>2 DEF count
  <2>2. \A u \in Threads : BaseInv(u)' /\ EarlyInv(u)'
    BY <2>1 DEF RInv, BaseInv, EarlyInv, Early, CallsBsm, CallsSm, InSm, AsksBase, Filled,
       Copied, pools, roots, locks, counters
  <2>. QED BY <2>1, <2>2 DEF RInv, Early, Copied, pools, roots, locks, counters
<1>3. CASE Missing # 0
  <2>1. Missing \in 0 .. LenMod - 1
    <3>1. Cardinality(bsm_free) \in Nat
      BY BsmCount
    <3>. QED BY <3>1, BaseSpaceAssumption DEF Missing, U32
  <2>2. "alloc" \in Calls /\ {} \in SUBSET Block /\ "give" \in After
    BY DEF Calls, After
  <2>3. OnlyThread(t) /\ SameJob(t) /\ SameBsm(t) /\ th'[t].pc = "sm" /\ th'[t].back = "give"
    BY <1>3, <2>1, <2>2, CallSmIs DEF count
  <2>4. ~CallsBsm(t)' /\ ~Short(t) /\ ~AsksBase(t) /\ ~Filled(t)'
    BY <1>1, <2>3 DEF CallsBsm, InSm, CallsSm, InTree, InBsm, Short, AsksBase, Filled
  <2>5. Alone(t) /\ Owing(t) /\ phase' = phase
    BY <1>3, <2>3, <2>4 DEF OnlyThread, Alone, Owing, count, locks
  <2>. QED BY <1>1, <2>3, <2>4, <2>5, QuietStep
           DEF Counting, count, pools, roots, locks, counters, SameJob, InBsm
<1>. QED BY <1>2, <1>3

\* The blocks of a refill go to bsm.
LEMMA GiveKeeps ==
  ASSUME NEW t \in Threads, IInv, RInv, give(t) PROVE RInv'
<1>1. th[t].pc = "give" /\ phase \notin {"aborted", "dry"} /\ th[t].run # {}
  BY DEF give, At
<1>2. /\ Alone(t) /\ th'[t].pc = "bsm" /\ th'[t].bcall = "free" /\ th'[t].brun # {}
      /\ th'[t].bback = "check" /\ th'[t].job = th[t].job
  <2>1. th \in [Threads -> Thread] /\ th[t] \in Thread
    BY ThreadFacts
  <2>2. th'[t] = [th[t] EXCEPT !.pc = "bsm", !.bcall = "free", !.brun = th[t].run,
                               !.run = {}, !.bback = "check"]
    BY <2>1 DEF give
  <2>3. Alone(t)
    BY <2>1 DEF give, Alone
  <2>. QED BY <1>1, <2>1, <2>2, <2>3 DEF Thread
<1>3. ~Short(t) /\ ~AsksBase(t) /\ ~Filled(t)'
  BY <1>1, <1>2 DEF CallsBsm, InSm, CallsSm, InTree, InBsm, Short, AsksBase, Filled
<1>4. Owing(t)
  BY <1>3 DEF Owing, give, locks
<1>. QED BY <1>1, <1>2, <1>3, <1>4, QuietStep
         DEF Counting, give, pools, roots, locks, counters, InBsm

\* sm has no block: the request ends before it takes the lock.
LEMMA SmEmptyKeeps ==
  ASSUME NEW t \in Threads, IInv, RInv, sm_empty(t) PROVE RInv'
<1>1. th[t].pc = "sm" /\ phase \notin {"aborted", "dry"} /\ CallsSm(t) /\ th[t].call = "alloc"
  BY DEF sm_empty, At, CallsSm
<1>2. th[t].back \in After /\ th \in [Threads -> Thread] /\ th[t] \in Thread
  BY <1>1, SmFacts, ThreadFacts
<1>3. /\ Alone(t) /\ th'[t].pc = th[t].back /\ th'[t].run = {} /\ th'[t].job = th[t].job
  <2>1. th'[t] = [th[t] EXCEPT !.pc = th[t].back, !.run = {}]
    BY <1>2 DEF sm_empty
  <2>2. Alone(t)
    BY <1>2 DEF sm_empty, Alone
  <2>. QED BY <1>2, <2>1, <2>2 DEF Thread
<1>4. ~CallsBsm(t)' /\ ~Short(t)
  BY <1>1, <1>2, <1>3 DEF CallsBsm, InTree, InBsm, Short, After
<1>5. /\ Owing(t) /\ (AsksBase(t) => AsksBase(t)') /\ (Filled(t)' => Filled(t))
  <2>1. AsksBase(t) => AsksBase(t)'
    BY <1>1, <1>3 DEF AsksBase
  <2>2. Filled(t)' => Filled(t)
    BY <1>1, <1>2, <1>3 DEF Filled, CallsSm, InSm, CallsBsm, InTree, InBsm, After
  <2>. QED BY <1>4, <2>1, <2>2 DEF Owing, sm_empty, locks
<1>. QED BY <1>1, <1>2, <1>3, <1>4, <1>5, QuietStep
         DEF Counting, sm_empty, pools, roots, locks, counters, InBsm, After

\* A request takes the lock of sm.
LEMMA SmEnterKeeps ==
  ASSUME NEW t \in Threads, IInv, RInv, sm_enter(t) PROVE RInv'
<1>1. th[t].pc = "sm" /\ phase \notin {"aborted", "dry"} /\ CallsSm(t)
  BY DEF sm_enter, At, CallsSm
<1>2. OnlyThread(t) /\ SameJob(t) /\ SameSm(t) /\ th'[t].pc = "sm_tree"
  <2>1. "sm_tree" \in Labels
    BY DEF Labels, InTree
  <2>. QED BY <2>1, GotoIs DEF sm_enter
<1>3. /\ ~CallsBsm(t)' /\ CallsSm(t)'
      /\ (AsksBase(t) => AsksBase(t)') /\ (Filled(t)' => Filled(t))
  BY <1>1, <1>2 DEF CallsBsm, InSm, CallsSm, InTree, InBsm, AsksBase, Filled, SameSm
<1>4. Alone(t) /\ Owing(t)
  BY <1>2, <1>3 DEF OnlyThread, Alone, Owing, sm_enter
<1>. QED BY <1>1, <1>2, <1>3, <1>4, QuietStep
         DEF Counting, sm_enter, pools, roots, locks, counters, InBsm, SameJob

\* A change of the tree of sm goes to bsm and stays within the request.
LEMMA TreeKeeps ==
  ASSUME IInv, RInv, NEW t \in Threads, th[t].pc \in InTree, th'[t].pc \in {"bsm", "sm_tree"},
         SameSm(t)
  PROVE  /\ CallsSm(t) /\ (th'[t].pc = "bsm" /\ th'[t].bback # "check" => CallsSm(t)')
         /\ (th'[t].pc = "bsm" => CallsBsm(t)') /\ (th'[t].pc = "sm_tree" => ~CallsBsm(t)')
         /\ (th'[t].bback # "check" => (AsksBase(t) => AsksBase(t)'))
         /\ (Filled(t)' => Filled(t))
<1>1. CallsSm(t) /\ th[t].pc # "reserve" /\ th[t].pc # "set_base"
  BY DEF CallsSm, InSm, InTree
<1>2. (th'[t].bback # "check" => CallsSm(t)') /\ (th'[t].pc = "sm_tree" => CallsSm(t)')
  BY DEF CallsBsm, InSm, CallsSm, InTree, InBsm
<1>3. (th'[t].pc = "bsm" => CallsBsm(t)') /\ (th'[t].pc = "sm_tree" => ~CallsBsm(t)')
  BY DEF CallsBsm, InBsm
<1>. QED BY <1>1, <1>2, <1>3 DEF AsksBase, Filled, SameSm

\* A node or the root of sm is to move.
LEMMA DirtyPathKeeps ==
  ASSUME NEW t \in Threads, IInv, RInv, sm_dirty_path(t) PROVE RInv'
<1>1. th[t].pc = "sm_tree" /\ th[t].pc \in InTree /\ phase \notin {"aborted", "dry"}
  BY DEF sm_dirty_path, At, InTree
<1>2. PICK back \in InTree, node \in Block \cup {0} :
        /\ CallBsm(t, "alloc", {}, back, node)
        /\ back \in {"sm_copy", "sm_cow"}
  BY <1>1, TreeFacts DEF sm_dirty_path, SharedOK, InTree
<1>3. /\ OnlyThread(t) /\ SameJob(t) /\ SameSm(t) /\ th'[t].pc = "bsm"
      /\ th'[t].bcall = "alloc" /\ th'[t].bback \in {"sm_copy", "sm_cow"}
  BY <1>2, CallBsmIs DEF Calls
<1>4. ~Early
  BY DEF sm_dirty_path, RInv
<1>5. ~Short(t)
  BY <1>1, <1>3 DEF Short, CallsBsm, InBsm
<1>6. Alone(t) /\ Owing(t)
  BY <1>3, <1>5 DEF OnlyThread, Alone, Owing, sm_dirty_path, locks
<1>7. (AsksBase(t) => AsksBase(t)') /\ (Filled(t)' => Filled(t))
  BY <1>1, <1>3, TreeKeeps
<1>. QED BY <1>1, <1>3, <1>4, <1>6, <1>7, QuietStep
         DEF Counting, sm_dirty_path, pools, roots, locks, counters, InBsm, SameJob

\* A node has moved, its old block goes back.
LEMMA CopyKeeps ==
  ASSUME NEW t \in Threads, IInv, RInv, sm_copy(t) PROVE RInv'
<1>1. th[t].pc = "sm_copy" /\ th[t].pc \in InTree /\ phase \notin {"aborted", "dry"}
  BY DEF sm_copy, At, InTree
<1>2. {th[t].node} \in SUBSET Block
  BY <1>1, TreeFacts DEF LockInv, SharedOK
<1>3. /\ OnlyThread(t) /\ SameJob(t) /\ SameSm(t) /\ th'[t].pc = "bsm"
      /\ th'[t].bcall = "free" /\ th'[t].bback = "sm_tree" /\ th'[t].brun # {}
  <2>1. /\ CallBsm(t, "free", {th[t].node}, "sm_tree", 0)
        /\ "free" \in Calls /\ "sm_tree" \in InTree /\ 0 \in Block \cup {0}
    BY DEF sm_copy, Calls, InTree
  <2>. QED BY <1>2, <2>1, CallBsmIs
<1>4. ~Early
  BY <1>1 DEF RInv, EarlyInv
<1>5. Short(t)' /\ CallsBsm(t)'
  BY <1>3 DEF Short, CallsBsm, InBsm
<1>6. Alone(t) /\ Owing(t)
  BY <1>3, <1>5 DEF OnlyThread, Alone, Owing, sm_copy, locks
<1>7. (AsksBase(t) => AsksBase(t)') /\ (Filled(t)' => Filled(t))
  BY <1>1, <1>3, TreeKeeps
<1>. QED BY <1>1, <1>3, <1>4, <1>6, <1>7, QuietStep
         DEF Counting, sm_copy, pools, roots, locks, counters, InBsm, SameJob

\* A split has got its node.
LEMMA NodeKeeps ==
  ASSUME NEW t \in Threads, IInv, RInv, sm_node(t) PROVE RInv'
<1>1. th[t].pc = "sm_node" /\ th[t].pc \in InTree /\ phase \notin {"aborted", "dry"}
  BY DEF sm_node, At, InTree
<1>2. /\ Alone(t) /\ th'[t].pc = "sm_tree" /\ th'[t].job = th[t].job /\ SameSm(t)
  <2>1. th \in [Threads -> Thread] /\ th[t] \in Thread
    BY ThreadFacts
  <2>2. th'[t] = [th[t] EXCEPT !.pc = "sm_tree", !.brun = {}]
    BY <2>1 DEF sm_node
  <2>3. Alone(t)
    BY <2>1 DEF sm_node, Alone
  <2>. QED BY <2>1, <2>2, <2>3 DEF Thread, SameSm
<1>3. ~Early
  BY <1>1 DEF RInv, EarlyInv
<1>4. ~Short(t) /\ ~CallsBsm(t)'
  BY <1>1, <1>2 DEF Short, CallsBsm, InBsm
<1>5. Owing(t)
  BY <1>4 DEF Owing, sm_node, locks
<1>6. (AsksBase(t) => AsksBase(t)') /\ (Filled(t)' => Filled(t))
  <2>1. CallsSm(t) /\ CallsSm(t)' /\ th[t].pc \notin {"reserve", "set_base"}
    BY <1>1, <1>2 DEF CallsSm, InSm, InTree
  <2>. QED BY <1>2, <2>1 DEF AsksBase, Filled, SameSm
<1>. QED BY <1>1, <1>2, <1>3, <1>4, <1>5, <1>6, QuietStep
         DEF Counting, sm_node, pools, roots, locks, counters, InBsm

\* The request itself.
LEMMA SmDoKeeps ==
  ASSUME NEW t \in Threads, IInv, RInv, sm_do(t) PROVE RInv'
<1>1. th[t].pc = "sm_tree" /\ th[t].pc \in InTree /\ phase \notin {"aborted", "dry"}
      /\ sm_dirty
  BY DEF sm_do, At, InTree
<1>2. /\ CallsSm(t) /\ th[t].back \in After /\ sm_lock = t
      /\ th \in [Threads -> Thread] /\ th[t] \in Thread
  BY <1>1, TreeFacts, SmFacts
<1>3. /\ Alone(t) /\ th'[t].pc = th[t].back /\ th'[t].job = th[t].job
  <2>1. PICK run : th' = [th EXCEPT ![t].pc = th[t].back, ![t].run = run]
    BY DEF sm_do
  <2>2. th'[t] = [th[t] EXCEPT !.pc = th[t].back, !.run = run]
    BY <1>2, <2>1
  <2>3. Alone(t)
    BY <1>2, <2>1 DEF Alone
  <2>. QED BY <1>2, <2>2, <2>3 DEF Thread
<1>4. ~CallsBsm(t)' /\ ~Short(t)
  BY <1>1, <1>2, <1>3 DEF CallsBsm, InBsm, Short, After
<1>5. (AsksBase(t) => AsksBase(t)') /\ (Filled(t)' => Filled(t))
  <2>1. AsksBase(t) => AsksBase(t)'
    BY <1>1, <1>3 DEF AsksBase
  <2>2. Filled(t)' => Filled(t)
    BY <1>2, <1>3, <1>4 DEF Filled, CallsSm, InSm, CallsBsm, InTree, InBsm, After
  <2>. QED BY <2>1, <2>2
<1>6. Owing(t)
  BY <1>2, <1>4 DEF Owing, sm_do
<1>. QED BY <1>1, <1>2, <1>3, <1>4, <1>5, <1>6, QuietStep
         DEF Counting, sm_do, pools, roots, locks, counters, InBsm, After

\* A step that does not ask bsm for a block: what is left to show of it.
LEMMA CalmStep ==
  ASSUME IInv, RInv, NEW t \in Threads, Alone(t), phase \notin {"aborted", "dry"},
         UNCHANGED <<bsm_free, sm_clean, bsm_lock, bsm_dirty, overlap, spent>>,
         base_blk' = base_blk \/ (base_blk' # 0 /\ Copied),
         th[t].pc # "bsm_old", th'[t].pc \notin InBsm \cup {"sm_cow"},
         sm_dirty => sm_dirty', sm_dirty' => sm_dirty \/ Copied,
         BaseInv(t)', EarlyInv(t)', Early' => Early,
         phase' # phase => phase' = "aborted" \/ \A u \in Threads : u # t => th[u].job # "create",
         phase' = "open" => phase = "open" \/ base_blk' # 0,
         phase' # "dry", phase' = "open" => Backed'
  PROVE  RInv'
<1>1. spent' \in Nat /\ (Copied => th'[t].pc \notin {"bsm_cow", "bsm_old"})
  BY DEF RInv, InBsm
<1>2. Early /\ Cardinality(bsm_free) > MIN_BLK_NUM => Cardinality(bsm_free') > MIN_BLK_NUM
  OBVIOUS
<1>3. phase' = "open" =>
        \/ base_blk' # 0
        \/ base_blk' = base_blk /\ phase = "open" /\ th[t].pc # "bsm_old"
        \/ th'[t].pc = "bsm_old"
  OBVIOUS
<1>. QED BY <1>1, <1>2, <1>3, ReserveStep

\* The block that sm gave becomes base_blk.
LEMMA SetBaseKeeps ==
  ASSUME NEW t \in Threads, IInv, RInv, set_base(t) PROVE RInv'
<1>1. th[t].pc = "set_base" /\ phase \notin {"aborted", "dry"} /\ th[t].run # {}
      /\ base_blk' \in th[t].run
  BY DEF set_base, At
<1>2. /\ th \in [Threads -> Thread] /\ th[t] \in Thread /\ LocalInv(t)
      /\ BaseInv(t) /\ EarlyInv(t)
  BY ThreadFacts DEF RInv
<1>3. Copied /\ base_blk' # 0
  <2>1. base_blk' \in Block
    BY <1>1, <1>2 DEF Thread
  <2>. QED BY <1>1, <1>2, <2>1, OwnersOf DEF RInv, BaseInv
<1>4. /\ Alone(t) /\ th'[t].pc = "check" /\ th'[t].job = th[t].job
  <2>1. th'[t] = [th[t] EXCEPT !.pc = "check", !.run = {}]
    BY <1>2 DEF set_base
  <2>2. Alone(t)
    BY <1>2 DEF set_base, Alone
  <2>. QED BY <1>2, <2>1, <2>2 DEF Thread
<1>5. /\ ~CallsBsm(t)' /\ ~Short(t) /\ ~Filled(t)'
  BY <1>1, <1>4 DEF CallsBsm, InSm, CallsSm, InTree, InBsm, Short, Filled
<1>6. Owing(t)
  BY <1>5 DEF Owing, set_base, locks
<1>7. BaseInv(t)'
  BY <1>4, <1>5 DEF BaseInv, InBsm
<1>8. EarlyInv(t)'
  BY <1>2, <1>3, <1>4, <1>5 DEF EarlyInv, Early, set_base, counters
<1>9. phase' = "open" => Backed'
  BY <1>4, <1>6, BackedStep DEF Counting, RInv, set_base, pools, counters
<1>. QED BY <1>1, <1>3, <1>4, <1>7, <1>8, <1>9, CalmStep
         DEF set_base, pools, roots, locks, counters, InBsm, Early

\* The request that creates the container is the only one.
LEMMA OneCreates ==
  ASSUME IInv, RInv, NEW t \in Threads, th[t].job = "create",
         phase \notin {"aborted", "dry"}
  PROVE  /\ phase = "creating" /\ Early /\ sm_dirty
         /\ \A u \in Threads : u # t => th[u].pc = "idle" /\ th[u].job # "create"
<1>1. phase = "creating" /\ Early /\ th[t].pc # "idle"
  BY DEF RInv, EarlyInv, Early
<1>2. ~overlap /\ sm_dirty
  BY <1>1 DEF RInv
<1>3. \A u \in Threads : u # t => th[u].pc = "idle"
  BY <1>1, <1>2 DEF IInv, SerialInv
<1>4. \A u \in Threads : th[u].pc = "idle" => th[u].job # "create"
  BY DEF RInv, EarlyInv
<1>. QED BY <1>1, <1>2, <1>3, <1>4

\* A request ends.
LEMMA EndKeeps ==
  ASSUME IInv, RInv, NEW t \in Threads, phase \notin {"aborted", "dry"}, Finish(t),
         th[t].pc \in After,
         UNCHANGED <<bsm_free, sm_clean, roots, base_blk, locks, overlap, spent>>,
         phase' = phase \/ (th[t].job = "create" /\ phase' \in {"open", "unusable"}),
         phase' = "open" /\ th[t].job = "create" =>
           base_blk # 0 /\ Cardinality(bsm_free) > MIN_BLK_NUM
  PROVE  RInv'
<1>1. Alone(t) /\ th'[t] = Idle
  BY FinishIs DEF OnlyThread, Alone
<1>2. /\ th'[t].pc = "idle" /\ th'[t].job = "none"
      /\ ~CallsBsm(t)' /\ ~Short(t) /\ ~Short(t)'
  BY <1>1 DEF Idle, CallsBsm, InBsm, Short, After
<1>3. BaseInv(t)' /\ EarlyInv(t)'
  BY <1>2 DEF BaseInv, EarlyInv, InBsm
<1>4. phase' # phase => /\ phase = "creating"
                        /\ \A u \in Threads : u # t => th[u].pc = "idle" /\ th[u].job # "create"
  BY OneCreates
<1>5. Owing(t)
  BY <1>2 DEF Owing, locks
<1>6. phase' = "open" => Backed'
  <2>1. CASE phase' = phase
    BY <1>1, <1>5, <2>1, BackedStep DEF Counting, RInv, counters
  <2>2. CASE phase' # phase /\ phase' = "open"
    <3>1. /\ Cardinality(bsm_free') > MIN_BLK_NUM /\ Cardinality(bsm_free') \in Nat
          /\ spent' \in Nat /\ MIN_BLK_NUM \in Nat
      BY <2>2, BsmCount, BaseSpaceAssumption DEF RInv, counters
    <3>. QED BY <3>1 DEF Backed
  <2>. QED BY <2>1, <2>2
<1>7. Early' => Early
  BY <1>4 DEF Early
<1>. QED BY <1>1, <1>2, <1>3, <1>4, <1>6, <1>7, CalmStep DEF After, InBsm, roots, locks, counters

\* A request finds no block.
LEMMA NoSpaceKeeps ==
  ASSUME NEW t \in Threads, IInv, RInv, no_space(t) PROVE RInv'
<1>1. th[t].pc \in After /\ phase \notin {"aborted", "dry"} /\ Finish(t)
  BY DEF no_space, fail, At, After
<1>2. phase' = phase \/ (th[t].job = "create" /\ phase' \in {"open", "unusable"})
  BY DEF no_space, fail
<1>3. ~(phase' = "open" /\ th[t].job = "create")
  BY <1>1, OneCreates DEF no_space, fail
<1>. QED BY <1>1, <1>2, <1>3, EndKeeps DEF no_space, pools

\* A request has its blocks.
LEMMA DoneKeeps ==
  ASSUME NEW t \in Threads, IInv, RInv, done(t) PROVE RInv'
<1>1. th[t].pc = "done" /\ th[t].pc \in After /\ phase \notin {"aborted", "dry"} /\ Finish(t)
  BY DEF done, At, After
<1>2. phase' = phase \/ (th[t].job = "create" /\ phase' \in {"open", "unusable"})
  BY DEF done
<1>3. th[t].job = "create" => base_blk # 0 /\ Cardinality(bsm_free) > MIN_BLK_NUM
  <2>1. ~AsksBase(t) /\ Filled(t)
    BY <1>1 DEF AsksBase, Filled, CallsSm, InSm, CallsBsm, InTree, InBsm
  <2>. QED BY <2>1 DEF RInv, EarlyInv
<1>. QED BY <1>1, <1>2, <1>3, EndKeeps DEF done, counters

\* The root of sm has moved, its old block goes back.
LEMMA CowKeeps ==
  ASSUME NEW t \in Threads, IInv, RInv, sm_cow(t) PROVE RInv'
<1>1. th[t].pc = "sm_cow" /\ th[t].pc \in InTree /\ phase \notin {"aborted", "dry"}
  BY DEF sm_cow, At, InTree
<1>2. /\ OnlyThread(t) /\ SameJob(t) /\ SameSm(t) /\ th'[t].pc = "bsm"
      /\ th'[t].bcall = "free" /\ th'[t].bback = "sm_tree" /\ th'[t].brun # {}
  <2>1. /\ CallBsm(t, "free", {sm_root}, "sm_tree", 0) /\ {sm_root} \in SUBSET Block
        /\ "free" \in Calls /\ "sm_tree" \in InTree /\ 0 \in Block \cup {0}
    BY <1>1, TreeFacts DEF sm_cow, Calls, InTree, SharedOK
  <2>. QED BY <2>1, CallBsmIs
<1>3. BaseInv(t) /\ EarlyInv(t) /\ ~Early /\ Copied
  BY <1>1 DEF RInv, EarlyInv, BaseInv
<1>4. Short(t)' /\ CallsBsm(t)'
  BY <1>2 DEF Short, CallsBsm, InBsm
<1>5. Alone(t) /\ Owing(t)
  BY <1>2, <1>4 DEF OnlyThread, Alone, Owing, sm_cow, locks
<1>6. (AsksBase(t) => AsksBase(t)') /\ (Filled(t)' => Filled(t))
  BY <1>1, <1>2, TreeKeeps
<1>7. BaseInv(t)'
  BY <1>2 DEF BaseInv, InBsm
<1>8. EarlyInv(t)'
  BY <1>2, <1>3, <1>6 DEF EarlyInv, Early, sm_cow, pools, counters, SameJob
<1>9. phase' = "open" => Backed'
  BY <1>5, BackedStep DEF Counting, RInv, sm_cow, pools, counters
<1>. QED BY <1>1, <1>2, <1>3, <1>5, <1>7, <1>8, <1>9, CalmStep
         DEF sm_cow, pools, locks, counters, InBsm, Early

\* The tree of sm gains or loses a node.
LEMMA SplitStep ==
  ASSUME IInv, RInv, NEW t \in Threads, th[t].pc = "sm_tree", phase = "open",
         OnlyThread(t), SameJob(t), SameSm(t), th'[t].pc = "bsm",
         th'[t].bback \in {"sm_node", "sm_tree"},
         th'[t].bcall = "free" => th'[t].brun # {},
         UNCHANGED <<bsm_free, sm_clean, base_blk, sm_dirty, bsm_dirty, locks, phase,
                     overlap, spent>>
  PROVE  RInv'
<1>1. Alone(t) /\ th[t].pc \in InTree /\ ~Early /\ ~Short(t)
  BY DEF OnlyThread, Alone, InTree, Early, Short, CallsBsm, InBsm
<1>2. (AsksBase(t) => AsksBase(t)') /\ (Filled(t)' => Filled(t))
  BY <1>1, TreeKeeps
<1>3. Owing(t) /\ Counting
  BY <1>1 DEF Owing, Counting, locks
<1>. QED BY <1>1, <1>2, <1>3, QuietStep DEF locks, InBsm, SameJob

\* The tree of sm needs another node.
LEMMA GrowKeeps ==
  ASSUME NEW t \in Threads, IInv, RInv, sm_grow(t) PROVE RInv'
<1>1. /\ OnlyThread(t) /\ SameJob(t) /\ SameSm(t) /\ th'[t].pc = "bsm"
      /\ th'[t].bcall = "alloc" /\ th'[t].bback = "sm_node"
  <2>1. /\ CallBsm(t, "alloc", {}, "sm_node", 0)
        /\ "alloc" \in Calls /\ "sm_node" \in InTree /\ 0 \in Block \cup {0}
    BY DEF sm_grow, Calls, InTree
  <2>. QED BY <2>1, CallBsmIs
<1>. QED BY <1>1, SplitStep DEF sm_grow, At, pools, roots

\* An emptied node goes back to bsm.
LEMMA ShrinkKeeps ==
  ASSUME NEW t \in Threads, IInv, RInv, sm_shrink(t) PROVE RInv'
<1>1. PICK b \in sm_nodes \ sm_clean : CallBsm(t, "free", {b}, "sm_tree", 0)
  BY DEF sm_shrink
<1>2. /\ OnlyThread(t) /\ SameJob(t) /\ SameSm(t) /\ th'[t].pc = "bsm"
      /\ th'[t].bback = "sm_tree" /\ th'[t].brun # {}
  <2>1. /\ "free" \in Calls /\ "sm_tree" \in InTree /\ 0 \in Block \cup {0}
        /\ {b} \in SUBSET Block
    BY ThreadFacts DEF Calls, InTree, SharedOK
  <2>. QED BY <1>1, <2>1, CallBsmIs
<1>. QED BY <1>2, SplitStep DEF sm_shrink, At, roots

\* A step within a request to bsm owes what it owed.
LEMMA BsmOwes ==
  ASSUME NEW t \in Threads, CallsBsm(t), CallsBsm(t)', SameSm(t), SameBsm(t), sm_lock' = sm_lock
  PROVE  Owing(t) /\ AsksBase(t)' = AsksBase(t) /\ Filled(t)' = Filled(t)
<1>1. th'[t].pc \in InBsm \cup {"bsm"} /\ th[t].pc \in InBsm \cup {"bsm"}
  BY DEF CallsBsm
<1>2. CallsSm(t)' = CallsSm(t)
  BY <1>1 DEF InSm, CallsSm, CallsBsm, SameBsm, InTree, InBsm
<1>3. Short(t)' = Short(t)
  BY <1>1 DEF Short, CallsBsm, SameBsm, InBsm
<1>. QED BY <1>1, <1>2, <1>3 DEF Owing, AsksBase, Filled, SameSm, InBsm

\* One thread has the lock of bsm.
LEMMA OneInBsm ==
  ASSUME RInv, NEW t \in Threads, bsm_lock \in {t, None}
  PROVE  \A u \in Threads : u # t => th[u].pc \notin InBsm
<1>. QED BY BaseSpaceAssumption DEF RInv, BaseInv

\* bsm has run dry: splits took its reserve.
LEMMA BsmEmptyKeeps ==
  ASSUME NEW t \in Threads, IInv, RInv, bsm_empty(t) PROVE RInv'
<1>1. /\ th[t].pc = "bsm" /\ CallsBsm(t) /\ phase \notin {"aborted", "dry"}
      /\ th[t].bcall = "alloc" /\ bsm_free = {}
  BY DEF bsm_empty, At, CallsBsm
<1>2. phase = "open"
  <2>1. ~Early
    BY <1>1 DEF RInv, EarlyInv
  <2>. QED BY <1>1, <2>1, BsmFacts DEF SharedOK, Early
<1>3. th[t].bback \in {"sm_copy", "sm_cow", "sm_node"} /\ sm_lock = t
  BY <1>1, BsmFacts DEF LocalInv, LockInv, InSm
<1>4. ~Short(t) /\ Cardinality(bsm_free) = 0 /\ spent \in Nat
  BY <1>1, FS_EmptySet DEF Short, RInv
<1>5. spent > MIN_BLK_NUM
  BY <1>2, <1>3, <1>4, BaseSpaceAssumption DEF RInv, Backed
<1>6. \A u \in Threads : BaseInv(u)' /\ EarlyInv(u)'
  <2>1. \A u \in Threads : th[u].job # "create"
    BY <1>2 DEF RInv, EarlyInv
  <2>. QED BY <2>1 DEF RInv, BaseInv, EarlyInv, Early, CallsBsm, CallsSm, InSm, Copied,
                       bsm_empty, pools, roots, locks, counters
<1>. QED BY <1>2, <1>4, <1>5, <1>6
         DEF RInv, Early, Copied, bsm_empty, pools, roots, locks, counters

\* A request takes the lock of bsm: base_blk is there for its root.
LEMMA BsmEnterKeeps ==
  ASSUME NEW t \in Threads, IInv, RInv, bsm_enter(t) PROVE RInv'
<1>1. th[t].pc = "bsm" /\ CallsBsm(t) /\ phase \notin {"aborted", "dry"} /\ bsm_lock = None
  BY DEF bsm_enter, At, CallsBsm
<1>2. /\ OnlyThread(t) /\ SameJob(t) /\ SameSm(t) /\ SameBsm(t) /\ th'[t].brun = th[t].brun
      /\ th'[t].pc = IF bsm_dirty THEN "bsm_tree" ELSE "bsm_cow"
  <2>1. (IF bsm_dirty THEN "bsm_tree" ELSE "bsm_cow") \in Labels
    BY DEF Labels, InBsm
  <2>. QED BY <2>1, GotoIs DEF bsm_enter
<1>3. /\ CallsBsm(t)' /\ Alone(t) /\ BaseInv(t) /\ EarlyInv(t)
  BY <1>2 DEF CallsBsm, InBsm, OnlyThread, Alone, RInv
<1>4. Owing(t) /\ AsksBase(t)' = AsksBase(t) /\ Filled(t)' = Filled(t)
  BY <1>1, <1>2, <1>3, BsmOwes DEF bsm_enter
<1>5. \A u \in Threads : th[u].pc \notin InBsm
  BY <1>1, OneInBsm DEF InBsm
<1>6. ~bsm_dirty => base_blk # 0
  <2>1. SUFFICES ASSUME ~bsm_dirty PROVE base_blk # 0
    OBVIOUS
  <2>2. ~Early
    BY <2>1 DEF RInv, Copied
  <2>3. phase = "open"
    BY <1>1, <2>2, BsmFacts DEF SharedOK, Early
  <2>. QED BY <1>5, <2>3 DEF RInv, InBsm
<1>7. Copied => th'[t].pc \notin {"bsm_cow", "bsm_old"}
  BY <1>2 DEF Copied
<1>8. bsm_dirty => Copied'
  BY <1>2, <1>5 DEF Copied, OnlyThread, InBsm, bsm_enter, roots
<1>9. BaseInv(t)'
  BY <1>1, <1>2, <1>3, <1>6, <1>8 DEF BaseInv, bsm_enter, roots, SameBsm, InBsm
<1>10. EarlyInv(t)'
  BY <1>1, <1>2, <1>3, <1>4 DEF EarlyInv, Early, bsm_enter, pools, counters, SameBsm, SameJob
<1>11. phase' = "open" => Backed'
  BY <1>3, <1>4, BackedStep DEF Counting, RInv, bsm_enter, pools, counters
<1>12. spent' \in Nat
  BY DEF RInv, bsm_enter, counters
<1>. QED BY <1>1, <1>3, <1>7, <1>9, <1>10, <1>11, <1>12, ReserveStep
         DEF bsm_enter, pools, roots, counters, Early

\* The root of bsm takes base_blk.
LEMMA BsmCowKeeps ==
  ASSUME NEW t \in Threads, IInv, RInv, bsm_cow(t) PROVE RInv'
<1>1. th[t].pc = "bsm_cow" /\ CallsBsm(t) /\ phase \notin {"aborted", "dry"} /\ base_blk # 0
  BY DEF bsm_cow, At, CallsBsm, InBsm
<1>2. /\ th \in [Threads -> Thread] /\ th[t] \in Thread /\ bsm_root \in Block
      /\ BaseInv(t) /\ EarlyInv(t)
  BY <1>1, BsmFacts DEF SharedOK, RInv
<1>3. /\ Alone(t) /\ SameJob(t) /\ SameSm(t) /\ SameBsm(t)
      /\ th'[t].brun = th[t].brun /\ th'[t].old = bsm_root /\ th'[t].pc = "bsm_old"
  <2>1. th'[t] = [th[t] EXCEPT !.pc = "bsm_old", !.old = bsm_root]
    BY <1>2 DEF bsm_cow
  <2>2. Alone(t)
    BY <1>2 DEF bsm_cow, Alone
  <2>. QED BY <1>2, <2>1, <2>2 DEF Thread, SameJob, SameSm, SameBsm
<1>4. CallsBsm(t)' /\ bsm_lock = t /\ ~Copied /\ ~sm_dirty /\ ~Early
  BY <1>1, <1>2, <1>3 DEF CallsBsm, InBsm, BaseInv, Copied, RInv
<1>5. Owing(t)
  BY <1>1, <1>3, <1>4, BsmOwes DEF bsm_cow, locks
<1>6. BaseInv(t)'
  BY <1>1, <1>2, <1>3, <1>4, OwnersOf DEF BaseInv, InBsm, bsm_cow, locks, SameBsm
<1>7. EarlyInv(t)'
  BY <1>1, <1>2, <1>3, <1>4 DEF EarlyInv, Early, bsm_cow, SameJob
<1>8. phase' = "open" => Backed'
  BY <1>3, <1>5, BackedStep DEF Counting, RInv, bsm_cow, pools, counters
<1>9. spent' \in Nat
  BY DEF RInv, bsm_cow, counters
<1>. QED BY <1>1, <1>3, <1>4, <1>6, <1>7, <1>8, <1>9, ReserveStep
         DEF bsm_cow, pools, locks, counters, Early

\* The block that the root of bsm left is the next base_blk.
LEMMA BsmOldKeeps ==
  ASSUME NEW t \in Threads, IInv, RInv, bsm_old(t) PROVE RInv'
<1>1. th[t].pc = "bsm_old" /\ CallsBsm(t) /\ phase \notin {"aborted", "dry"}
  BY DEF bsm_old, At, CallsBsm, InBsm
<1>2. /\ th \in [Threads -> Thread] /\ th[t] \in Thread /\ BaseInv(t) /\ EarlyInv(t)
  BY <1>1, BsmFacts DEF RInv
<1>3. /\ Alone(t) /\ SameJob(t) /\ SameSm(t) /\ SameBsm(t)
      /\ th'[t].brun = th[t].brun /\ th'[t].pc = "bsm_tree"
  <2>1. th'[t] = [th[t] EXCEPT !.pc = "bsm_tree", !.old = 0]
    BY <1>2 DEF bsm_old
  <2>2. Alone(t)
    BY <1>2 DEF bsm_old, Alone
  <2>. QED BY <1>2, <2>1, <2>2 DEF Thread, SameJob, SameSm, SameBsm
<1>4. /\ CallsBsm(t)' /\ bsm_lock = t /\ ~Copied /\ ~sm_dirty /\ ~Early
      /\ bsm_dirty /\ th[t].old # 0
  BY <1>1, <1>2, <1>3 DEF CallsBsm, InBsm, BaseInv, Copied, RInv
<1>5. Owing(t)
  BY <1>1, <1>3, <1>4, BsmOwes DEF bsm_old, locks
<1>6. Copied'
  BY <1>3, <1>4, OneInBsm DEF Copied, Alone, InBsm, bsm_old, roots
<1>7. BaseInv(t)'
  BY <1>1, <1>2, <1>3, <1>4, <1>6 DEF BaseInv, InBsm, bsm_old, locks, SameBsm
<1>8. EarlyInv(t)'
  BY <1>1, <1>2, <1>3, <1>4 DEF EarlyInv, Early, bsm_old, SameJob
<1>9. phase' = "open" => Backed'
  BY <1>3, <1>5, BackedStep DEF Counting, RInv, bsm_old, pools, counters
<1>10. spent' \in Nat /\ base_blk' # 0
  BY <1>4 DEF RInv, bsm_old, counters
<1>. QED BY <1>1, <1>3, <1>4, <1>7, <1>8, <1>9, <1>10, ReserveStep
         DEF bsm_old, pools, roots, locks, counters, Early

\* One block leaves bsm.
LEMMA OneLess ==
  ASSUME IInv, NEW run \in RunsOf(bsm_free, 1), bsm_free' = bsm_free \ run
  PROVE  Cardinality(bsm_free') = Cardinality(bsm_free) - 1
<1>1. PICK b \in Block : run = {b}
  BY RunOfOne DEF IInv, TypeInv, SharedOK
<1>2. b \in bsm_free
  BY <1>1 DEF RunsOf
<1>. QED BY <1>1, <1>2, BsmCount, FS_RemoveElement

\* The blocks that a thread gives are new to bsm.
LEMMA SomeMore ==
  ASSUME IInv, NEW t \in Threads, th[t].brun # {}, bsm_free' = bsm_free \cup th[t].brun
  PROVE  Cardinality(bsm_free') \in Nat /\ Cardinality(bsm_free') > Cardinality(bsm_free)
<1>1. PICK b : b \in th[t].brun
  OBVIOUS
<1>2. b \notin bsm_free
  <2>1. <<None, "bsm_free">> \in Owners /\ <<t, "brun">> \in Owners
        /\ <<None, "bsm_free">> # <<t, "brun">>
    BY OwnersOf DEF PlaceNames, HoldNames
  <2>2. Owned[<<None, "bsm_free">>] \cap Owned[<<t, "brun">>] = {}
    BY <2>1 DEF IInv, Disjoint
  <2>. QED BY <1>1, <2>2, OwnedFacts
<1>3. IsFiniteSet(bsm_free')
  <2>1. IsFiniteSet(1 .. Total - 1)
    BY FS_Interval, BaseSpaceAssumption
  <2>2. bsm_free' \subseteq 1 .. Total - 1
    BY ThreadFacts DEF SharedOK, Thread, Block
  <2>. QED BY <2>1, <2>2, FS_Subset
<1>4. Cardinality(bsm_free \cup {b}) = Cardinality(bsm_free) + 1
  BY <1>2, BsmCount, FS_AddElement
<1>5. Cardinality(bsm_free \cup {b}) <= Cardinality(bsm_free')
  <2>1. bsm_free \cup {b} \subseteq bsm_free'
    BY <1>1
  <2>. QED BY <1>3, <2>1, FS_Subset
<1>. QED BY <1>3, <1>4, <1>5, BsmCount, FS_CardinalityType

\* The request itself: what bsm gives away was owed, what comes back is new.
LEMMA BsmDoKeeps ==
  ASSUME NEW t \in Threads, IInv, RInv, bsm_do(t) PROVE RInv'
<1>1. th[t].pc = "bsm_tree" /\ CallsBsm(t) /\ phase \notin {"aborted", "dry"}
  BY DEF bsm_do, At, CallsBsm, InBsm
<1>2. /\ th \in [Threads -> Thread] /\ th[t] \in Thread /\ LocalInv(t) /\ LockInv(t)
      /\ BaseInv(t) /\ EarlyInv(t) /\ t # None
  BY <1>1, BsmFacts, BaseSpaceAssumption DEF RInv
<1>3. /\ \/ th[t].bcall = "free" /\ th[t].bback \in {"check", "sm_tree"} /\ th[t].brun # {}
         \/ th[t].bcall = "alloc" /\ th[t].bback \in {"sm_copy", "sm_cow", "sm_node"}
      /\ bsm_lock = t /\ Copied
  BY <1>1, <1>2 DEF LocalInv, BaseInv, InBsm
<1>4. PICK run : /\ th' = [th EXCEPT ![t].pc = th[t].bback, ![t].brun = run]
                 /\ \/ th[t].bcall = "alloc" /\ run \in RunsOf(bsm_free, 1)
                       /\ bsm_free' = bsm_free \ run
                    \/ th[t].bcall = "free" /\ bsm_free' = bsm_free \cup th[t].brun
  BY DEF bsm_do
<1>5. /\ Alone(t) /\ SameJob(t) /\ SameSm(t) /\ SameBsm(t) /\ th'[t].pc = th[t].bback
  <2>1. th'[t] = [th[t] EXCEPT !.pc = th[t].bback, !.brun = run]
    BY <1>2, <1>4
  <2>2. Alone(t)
    BY <1>2, <1>4 DEF Alone
  <2>. QED BY <1>2, <2>1, <2>2 DEF Thread, SameJob, SameSm, SameBsm
<1>6. /\ ~CallsBsm(t)'
      /\ Short(t)' <=> (th[t].bback \in {"sm_copy", "sm_cow"})
      /\ Short(t) <=> (th[t].bcall = "free" /\ th[t].bback = "sm_tree")
  <2>1. ~CallsBsm(t)'
    BY <1>3, <1>5 DEF CallsBsm, InBsm
  <2>2. Short(t)' <=> (th[t].bback \in {"sm_copy", "sm_cow"})
    BY <1>5, <2>1 DEF Short
  <2>3. Short(t) <=> (th[t].bcall = "free" /\ th[t].bback = "sm_tree")
    BY <1>1 DEF Short
  <2>. QED BY <2>1, <2>2, <2>3
<1>7. /\ Cardinality(bsm_free) \in Nat /\ Cardinality(bsm_free') \in Nat
      /\ th[t].bcall = "alloc" => Cardinality(bsm_free') = Cardinality(bsm_free) - 1
      /\ th[t].bcall = "free" => Cardinality(bsm_free') > Cardinality(bsm_free)
      /\ MIN_BLK_NUM \in Nat /\ spent \in Nat /\ sm_lock' = sm_lock
      /\ spent' = IF th[t].bcall = "alloc" /\ th[t].bback = "sm_node" THEN spent + 1 ELSE spent
  <2>1. th[t].bcall = "alloc" => Cardinality(bsm_free') = Cardinality(bsm_free) - 1
    BY <1>4, OneLess
  <2>2. th[t].bcall = "free" =>
          Cardinality(bsm_free') \in Nat /\ Cardinality(bsm_free') > Cardinality(bsm_free)
    BY <1>3, <1>4, SomeMore
  <2>3. th[t].bcall = "alloc" => Cardinality(bsm_free') \in Nat
    <3>1. bsm_free' \subseteq bsm_free => IsFiniteSet(bsm_free')
      BY BsmCount, FS_Subset
    <3>. QED BY <1>4, <3>1, FS_CardinalityType
  <2>. QED BY <1>3, <2>1, <2>2, <2>3, BsmCount, BaseSpaceAssumption DEF RInv, bsm_do, counters
<1>8. BaseInv(t)'
  <2>1. Copied'
    BY <1>3, <1>5 DEF Copied, Alone, bsm_do, roots
  <2>. QED BY <1>3, <1>5, <1>6, <2>1 DEF BaseInv, InBsm
<1>9. EarlyInv(t)'
  <2>1. Early => th[t].bcall = "free" /\ th'[t].pc \in {"check", "sm_tree"}
    BY <1>1, <1>2, <1>3, <1>5 DEF EarlyInv
  <2>2. AsksBase(t) => AsksBase(t)'
    BY <1>1, <1>3, <1>5 DEF AsksBase, CallsSm, InSm, InTree, SameSm
  <2>3. Filled(t)' => Filled(t)
    BY <1>1, <1>3, <1>5, <1>6 DEF Filled, CallsSm, InSm, InTree, SameSm
  <2>4. th[t].job = "create" => Early
    BY <1>1, <1>2 DEF EarlyInv, Early
  <2>5. th[t].job = "create" /\ Filled(t) => Cardinality(bsm_free') > MIN_BLK_NUM
    BY <1>2, <1>7, <2>1, <2>4 DEF EarlyInv
  <2>. QED BY <1>2, <1>3, <1>5, <1>6, <2>1, <2>2, <2>3, <2>5
           DEF EarlyInv, Early, bsm_do, counters, SameJob
<1>10. phase' = "open" => Backed'
  <2>1. SUFFICES ASSUME phase = "open" PROVE Backed'
    BY DEF bsm_do
  <2>2. Backed
    BY <2>1 DEF RInv
  <2>3. CASE th[t].bcall = "free"
    <3>1. ASSUME NEW u \in Threads PROVE u # t => Short(u)' = Short(u)
      BY <1>5 DEF Alone, Short, CallsBsm
    <3>2. sm_lock' = None => Cardinality(bsm_free') + spent' > MIN_BLK_NUM
      BY <1>7, <2>2, <2>3 DEF Backed
    <3>3. ASSUME NEW u \in Threads, sm_lock' = u
          PROVE  Cardinality(bsm_free') + spent' + (IF Short(u)' THEN 1 ELSE 0) > MIN_BLK_NUM
      <4>1. Cardinality(bsm_free) + spent + (IF Short(u) THEN 1 ELSE 0) > MIN_BLK_NUM
        BY <1>7, <2>2, <3>3 DEF Backed
      <4>2. CASE u = t
        BY <1>7, <2>3, <4>1, <4>2
      <4>3. CASE u # t
        BY <1>7, <2>3, <3>1, <4>1, <4>3
      <4>. QED BY <4>2, <4>3
    <3>. QED BY <3>2, <3>3 DEF Backed
  <2>4. CASE th[t].bcall = "alloc"
    <3>1. sm_lock = t
      BY <1>1, <1>2, <1>3, <2>4 DEF LockInv, InSm
    <3>2. Cardinality(bsm_free) + spent > MIN_BLK_NUM
      <4>1. ~Short(t)
        BY <1>6, <2>4
      <4>. QED BY <1>7, <2>2, <3>1, <4>1 DEF Backed
    <3>3. Cardinality(bsm_free') + spent' + (IF Short(t)' THEN 1 ELSE 0) > MIN_BLK_NUM
      <4>1. CASE Short(t)'
        BY <1>6, <1>7, <2>4, <3>2, <4>1
      <4>2. CASE ~Short(t)'
        <5>1. th[t].bback = "sm_node"
          BY <1>3, <1>6, <2>4, <4>2
        <5>. QED BY <1>7, <2>4, <3>2, <4>2, <5>1
      <4>. QED BY <4>1, <4>2
    <3>. QED BY <1>2, <1>7, <3>1, <3>3 DEF Backed
  <2>. QED BY <1>3, <2>3, <2>4
<1>11. /\ Early /\ Cardinality(bsm_free) > MIN_BLK_NUM => Cardinality(bsm_free') > MIN_BLK_NUM
       /\ Copied => th'[t].pc \notin {"bsm_cow", "bsm_old"}
       /\ spent' \in Nat
  <2>1. Early => th[t].bcall = "free"
    BY <1>1, <1>2 DEF EarlyInv
  <2>. QED BY <1>3, <1>5, <1>7, <2>1 DEF RInv
<1>. QED BY <1>1, <1>3, <1>5, <1>8, <1>9, <1>10, <1>11, ReserveStep
         DEF bsm_do, roots, counters, Early

\* A thread begins a request.
LEMMA StartKeeps ==
  ASSUME IInv, RInv, NEW t \in Threads, Alone(t), th[t].pc = "idle",
         th'[t].pc = "reserve",
         \/ phase = "new" /\ phase' = "creating" /\ overlap' = overlap
         \/ phase = "open" /\ phase' = "open" /\ th'[t].job # "create",
         UNCHANGED <<bsm_free, sm_clean, roots, base_blk, locks, spent>>
  PROVE  RInv'
<1>1. /\ ~CallsBsm(t)' /\ ~Short(t) /\ ~Filled(t)' /\ AsksBase(t)'
  BY DEF CallsBsm, InSm, CallsSm, InTree, InBsm, Short, Filled, AsksBase
<1>2. BaseInv(t)' /\ EarlyInv(t)'
  BY <1>1 DEF BaseInv, EarlyInv, Early, InBsm
<1>3. Owing(t)
  BY <1>1 DEF Owing, locks
<1>4. phase' = "open" => Backed'
  BY <1>3, BackedStep DEF Counting, RInv
<1>5. phase' # phase => \A u \in Threads : u # t => th[u].job # "create"
  BY DEF IInv, NewInv, RInv, EarlyInv
<1>6. spent' \in Nat
  BY DEF RInv
<1>. QED BY <1>2, <1>4, <1>5, <1>6, ReserveStep DEF roots, locks, Early

\* The first request, and those of the users.
LEMMA StartsKeep ==
  ASSUME NEW t \in Threads, IInv, RInv, Start(t) PROVE RInv'
<1>1. th \in [Threads -> Thread] /\ th[t] \in Thread /\ (phase = "new" => th[t].pc = "idle")
  BY ThreadFacts DEF IInv, NewInv
<1>2. CASE create_system_objects(t)
  <2>1. Alone(t) /\ th'[t].pc = "reserve"
    BY <1>1, <1>2 DEF create_system_objects, Alone, Thread
  <2>. QED BY <1>1, <1>2, <2>1, StartKeeps
           DEF create_system_objects, pools, counters
<1>3. CASE ofs_alloc_space(t)
  <2>1. Alone(t) /\ th'[t].pc = "reserve" /\ th'[t].job = "alloc"
    BY <1>1, <1>3 DEF ofs_alloc_space, Alone, Thread
  <2>. QED BY <1>3, <2>1, StartKeeps DEF ofs_alloc_space, Begin, pools
<1>4. CASE ofs_free_space(t)
  <2>1. Alone(t) /\ th'[t].pc = "reserve" /\ th'[t].job = "free"
    BY <1>1, <1>4 DEF ofs_free_space, Alone, Thread
  <2>. QED BY <1>4, <2>1, StartKeeps DEF ofs_free_space, Begin
<1>. QED BY <1>2, <1>3, <1>4 DEF Start

\* close and open: the roots are no longer copied, base_blk stays.
LEMMA ReopenKeeps == IInv /\ RInv /\ reopen => RInv'
<1>. SUFFICES ASSUME IInv, RInv, reopen PROVE RInv'
  OBVIOUS
<1>1. \A t \in Threads : th'[t] = th[t] /\ th[t].pc = "idle" /\ th[t].job # "create"
  BY DEF reopen, RInv, EarlyInv
<1>2. \A t \in Threads : ~CallsBsm(t) /\ ~CallsBsm(t)'
  BY <1>1 DEF CallsBsm, InBsm
<1>3. \A t \in Threads : BaseInv(t)' /\ EarlyInv(t)'
  BY <1>1, <1>2 DEF BaseInv, EarlyInv, InBsm
<1>4. \A t \in Threads : ~Short(t) /\ ~Short(t)'
  BY <1>1, <1>2 DEF Short
<1>5. Backed'
  BY <1>4 DEF Backed, RInv, reopen, locks
<1>6. base_blk' # 0
  BY <1>1 DEF RInv, reopen
<1>. QED BY <1>3, <1>5, <1>6 DEF RInv, reopen, Early

\* A step that changes nothing.
LEMMA StutterKeeps == RInv /\ UNCHANGED vars => RInv'
BY DEF RInv, BaseInv, EarlyInv, Early, Copied, Backed, Short, AsksBase, Filled,
       CallsBsm, CallsSm, InSm, vars, pools, roots, locks, counters

\* A new container: both roots are dirty.
LEMMA InitRInv == Init => RInv
<1>. SUFFICES ASSUME Init PROVE RInv
  OBVIOUS
<1>1. \A t \in Threads : th[t].pc = "idle" /\ th[t].job = "none"
  BY DEF Init, Idle
<1>2. \A t \in Threads : BaseInv(t) /\ EarlyInv(t)
  BY <1>1 DEF BaseInv, EarlyInv, CallsBsm, InBsm
<1>3. Copied
  BY <1>1 DEF Copied, Init
<1>4. phase = "new" /\ ~overlap /\ sm_dirty /\ sm_clean = {} /\ spent \in Nat
  BY BaseSpaceAssumption DEF Init
<1>. QED BY <1>2, <1>3, <1>4 DEF RInv

\* Every step keeps the invariant of the reserve.
LEMMA NextRInv == IInv /\ RInv /\ [Next]_vars => RInv'
<1>. SUFFICES ASSUME IInv, RInv, Next PROVE RInv'
  BY StutterKeeps
<1>1. CASE reopen
  BY <1>1, ReopenKeeps
<1>2. ASSUME NEW t \in Threads, Start(t) PROVE RInv'
  BY <1>2, StartsKeep
<1>3. ASSUME NEW t \in Threads, Step(t) PROVE RInv'
  BY <1>3, ReserveKeeps, SetBaseKeeps, NoSpaceKeeps, CheckKeeps, CountKeeps, GiveKeeps,
     DoneKeeps, SmEmptyKeeps, SmEnterKeeps, DirtyPathKeeps, CopyKeeps, CowKeeps, GrowKeeps,
     NodeKeeps, ShrinkKeeps, SmDoKeeps, BsmEmptyKeeps, BsmEnterKeeps, BsmCowKeeps, BsmOldKeeps,
     BsmDoKeeps
     DEF Step
<1>. QED BY <1>1, <1>2, <1>3 DEF Next

\* The invariant of the reserve: from the creation of the container on there is
\* a base_blk unless the root of bsm is just moving, and what bsm has less than
\* a refill left in it went into splits of the tree of sm since.
THEOREM SpecRInv == Spec => [](IInv /\ RInv)
BY InitIInv, InitRInv, NextIInv, NextRInv, PTL DEF Spec

\* ASSERT(ct->base_blk != 0) and ASSERT(ct->base_blk == 0) of the callbacks of
\* $BASE hold in every session, whatever the threads do at the same time and
\* however often the tree of sm is split.
THEOREM SpecBaseAsserts == Spec => [](\A t \in Threads : ~base_assert(t))
<1>1. IInv /\ RInv => \A t \in Threads : ~base_assert(t)
  BY DEF RInv, BaseInv, base_assert, At
<1>. QED BY <1>1, SpecRInv, PTL

\* The assertions on base_blk hold, and however many threads refill bsm or copy
\* the tree of sm at the same time, bsm runs dry only after more than
\* MIN_BLK_NUM splits that no refill came between: every copied block comes back.
THEOREM SpecReserveEnough == Spec => []ReserveEnough
<1>1. IInv /\ RInv => ReserveEnough
  BY DEF RInv, BaseInv, base_assert, At, ReserveEnough
<1>. QED BY <1>1, SpecRInv, PTL
=============================================================================
