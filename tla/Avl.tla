--------------------------------- MODULE Avl ---------------------------------
(***************************************************************************)
(* The balanced tree of public/avl.c, which holds the open containers, the *)
(* objects of a container and the cached blocks.  Nodes are linked by      *)
(* child, parent and which-child fields and carry a balance; walks climb   *)
(* the parent links, so a rotation that forgets one is met much later.     *)
(*                                                                         *)
(* A node is named by its key.  The fields of a node outside the tree are  *)
(* never read and are kept at Fresh.                                       *)
(***************************************************************************)
EXTENDS Integers, FiniteSets, SequencesExt

CONSTANTS
  AvlKeys,     \* keys, and at the same time the nodes that hold them
  UpdateMax    \* bound: size of the trees in which avl_update* is tried

ASSUME AvlAssumption ==
  AvlKeys \subseteq Nat /\ IsFiniteSet(AvlKeys) /\ UpdateMax \in Nat

VARIABLE avl   \* the tree

Null == -1
Tmp == -2      \* the placeholder on the stack of avl_remove

NodeIds == AvlKeys \cup {Tmp}

Fresh == [child |-> <<Null, Null>>, parent |-> Null, which |-> 0, bal |-> 0]

Empty == [root |-> Null, num |-> 0, node |-> [x \in NodeIds |-> Fresh]]

Child(t, x, c) == t.node[x].child[c + 1]
Parent(t, x) == t.node[x].parent
Which(t, x) == t.node[x].which
Bal(t, x) == t.node[x].bal

SetBal(t, x, b) == [t EXCEPT !.node[x].bal = b]

\* Tells x, which may be Null, its new parent p and its side c.
Adopt(t, p, c, x) ==
  IF x = Null THEN t ELSE [t EXCEPT !.node[x] = [@ EXCEPT !.parent = p, !.which = c]]
\* Links x below p as child c, or as the root.
Attach(t, p, c, x) ==
  LET up == Adopt(t, p, c, x)
  IN  IF p = Null THEN [up EXCEPT !.root = x]
      ELSE [up EXCEPT !.node[p].child[c + 1] = x]

child2balance(c) == 2 * c - 1
balance2child(d) == IF d > 0 THEN 1 ELSE 0
-----------------------------------------------------------------------------
(***************************************************************************)
(* Walks and searches.                                                     *)
(***************************************************************************)
\* The loops end on a path or after every node; they are given as many turns as
\* there are nodes, and one more.
Turns == Cardinality(AvlKeys) + 1

\* As far as it goes on side c.
Outermost(t, x, c) ==
  LET go[i \in 0 .. Turns] ==
        IF i = 0 THEN x
        ELSE LET y == go[i - 1] IN IF Child(t, y, c) = Null THEN y ELSE Child(t, y, c)
  IN  go[Turns]

\* One step up, the last one when it comes from the side right.
ClimbTurn(t, s, right) ==
  IF s.done THEN s
  ELSE [node |-> Parent(t, s.node),
        done |-> Parent(t, s.node) = Null \/ Which(t, s.node) = right]

Climb(t, x, right) ==
  LET go[i \in 0 .. Turns] ==
        IF i = 0 THEN [node |-> x, done |-> FALSE]
        ELSE ClimbTurn(t, go[i - 1], right)
  IN  go[Turns].node

\* left is 0 for the previous node (AVL_PREV), 1 for the next (AVL_NEXT).
avl_walk(t, x, left) ==
  IF Child(t, x, left) # Null
  THEN Outermost(t, Child(t, x, left), 1 - left)
  ELSE Climb(t, x, 1 - left)

avl_first(t) == IF t.root = Null THEN Null ELSE Outermost(t, t.root, 0)
avl_last(t)  == IF t.root = Null THEN Null ELSE Outermost(t, t.root, 1)

\* One step down towards the key.
FindTurn(t, k, s) ==
  LET d == balance2child(k - s.node)
  IN  IF s.node \in {Null, k} THEN s
      ELSE [node |-> Child(t, s.node, d), at |-> s.node, child |-> d]

\* The node with the key, or Null and the place to insert it.
avl_find(t, k) ==
  LET go[i \in 0 .. Turns] ==
        IF i = 0 THEN [node |-> t.root, at |-> Null, child |-> 0]
        ELSE FindTurn(t, k, go[i - 1])
  IN  go[Turns]

avl_nearest(t, where, direction) ==
  IF where.at = Null \/ where.child # direction THEN where.at
  ELSE avl_walk(t, where.at, direction)
-----------------------------------------------------------------------------
(***************************************************************************)
(* Rotation, insertion, removal.                                           *)
(***************************************************************************)
\* The child becomes the parent of node.
RotateOnce(t, x, left, heavy) ==
  LET ch == Child(t, x, left)
      cb == Bal(t, ch) - heavy
      t1 == Attach(t, x, left, Child(t, ch, 1 - left))
      t2 == Attach(t1, ch, 1 - left, x)
      t3 == Attach(t2, Parent(t, x), Which(t, x), ch)
  IN  [t |-> SetBal(SetBal(t3, x, -cb), ch, cb), shorter |-> cb = 0]

\* The inner grandchild becomes the parent of both.
RotateTwice(t, x, left, heavy) ==
  LET ch == Child(t, x, left)
      gc == Child(t, ch, 1 - left)
      t1 == Attach(t, x, left, Child(t, gc, 1 - left))
      t2 == Attach(t1, ch, 1 - left, Child(t, gc, left))
      t3 == Attach(t2, gc, left, ch)
      t4 == Attach(t3, gc, 1 - left, x)
      t5 == Attach(t4, Parent(t, x), Which(t, x), gc)
      t6 == SetBal(t5, ch, IF Bal(t, gc) = -heavy THEN heavy ELSE 0)
      t7 == SetBal(t6, x, IF Bal(t, gc) = heavy THEN -heavy ELSE 0)
  IN  [t |-> SetBal(t7, gc, 0), shorter |-> TRUE]

avl_rotation(t, x, balance) ==
  LET left == balance2child(balance)  heavy == balance \div 2
  IN  IF Bal(t, Child(t, x, left)) # -heavy
      THEN RotateOnce(t, x, left, heavy)
      ELSE RotateTwice(t, x, left, heavy)

\* The subtree of s.x grew on side s.c; no node is Null when all is done.
GrowTurn(s) ==
  LET new == Bal(s.t, s.x) + child2balance(s.c)
  IN  IF s.x = Null THEN s
      ELSE IF new = 0 THEN [t |-> SetBal(s.t, s.x, 0), x |-> Null, c |-> 0]
      ELSE IF Bal(s.t, s.x) # 0
           THEN [t |-> avl_rotation(s.t, s.x, new).t, x |-> Null, c |-> 0]
      ELSE [t |-> SetBal(s.t, s.x, new), x |-> Parent(s.t, s.x), c |-> Which(s.t, s.x)]

Grow(t, x, c) ==
  LET go[i \in 0 .. Turns] ==
        IF i = 0 THEN [t |-> t, x |-> x, c |-> c] ELSE GrowTurn(go[i - 1])
  IN  go[Turns].t

avl_insert(t, x, where) ==
  LET new == [t EXCEPT !.num = @ + 1, !.node[x] = Fresh]
  IN  Grow(Attach(new, where.at, where.child, x), where.at, where.child)

avl_add(t, x) == avl_insert(t, x, avl_find(t, x))

\* Next to the node here, on the side direction.
avl_insert_here(t, x, here, direction) ==
  IF Child(t, here, direction) = Null
  THEN avl_insert(t, x, [at |-> here, child |-> direction])
  ELSE avl_insert(t, x, [at    |-> Outermost(t, Child(t, here, direction), 1 - direction),
                         child |-> 1 - direction])

\* Bug: the balance is corrected once, whatever the rotation returned.
ShrinkOnce(s) ==
  LET new == Bal(s.t, s.x) - child2balance(s.c)
  IN  IF s.x = Null THEN s
      ELSE IF Bal(s.t, s.x) = 0 \/ new = 0
           THEN [t |-> SetBal(s.t, s.x, new), x |-> Null, c |-> 0]
      ELSE [t |-> avl_rotation(s.t, s.x, new).t, x |-> Null, c |-> 0]

\* The subtree of s.x lost a level on side s.c.
ShrinkTurn(s) ==
  LET new == Bal(s.t, s.x) - child2balance(s.c)
      r   == avl_rotation(s.t, s.x, new)
      p   == Parent(s.t, s.x)
      w   == Which(s.t, s.x)
  IN  IF s.x = Null THEN s
      ELSE IF Bal(s.t, s.x) = 0 THEN [t |-> SetBal(s.t, s.x, new), x |-> Null, c |-> 0]
      ELSE IF new = 0 THEN [t |-> SetBal(s.t, s.x, 0), x |-> p, c |-> w]
      ELSE [t |-> r.t, x |-> IF r.shorter THEN p ELSE Null, c |-> w]

Shrink(t, x, c) ==
  LET go[i \in 0 .. Turns] ==
        IF i = 0 THEN [t |-> t, x |-> x, c |-> c] ELSE ShrinkTurn(go[i - 1])
  IN  go[Turns].t

\* A node with two children changes places with a neighbour: the neighbour y
\* takes the fields of x, Tmp takes those of y.
Swapped(t, x) ==
  LET left  == balance2child(Bal(t, x))
      y     == Outermost(t, Child(t, x, left), 1 - left)
      under == Parent(t, y) = x
      c     == IF Child(t, y, 1) # Null THEN 1 ELSE 0
      t1    == [t EXCEPT !.node[Tmp] = t.node[y], !.node[y] = t.node[x]]
      t2    == Attach(t1, y, left, IF under THEN Tmp ELSE Child(t, x, left))
      t3    == Attach(t2, y, 1 - left, Child(t, x, 1 - left))
      t4    == Attach(t3, Parent(t, x), Which(t, x), y)
      t5    == Attach(t4, IF under THEN y ELSE Parent(t, y), Which(t, y), Tmp)
  IN  Attach(t5, Tmp, c, Child(t, y, c))

\* The node d has at most one child, which takes its place.
CutOut(t, d) ==
  LET only == IF Child(t, d, 0) # Null THEN Child(t, d, 0) ELSE Child(t, d, 1)
  IN  Shrink(Attach([t EXCEPT !.num = @ - 1], Parent(t, d), Which(t, d), only),
             Parent(t, d), Which(t, d))

avl_remove(t, x) ==
  LET done == IF Child(t, x, 0) # Null /\ Child(t, x, 1) # Null
              THEN CutOut(Swapped(t, x), Tmp)
              ELSE CutOut(t, x)
  IN  [done EXCEPT !.node[x] = Fresh, !.node[Tmp] = Fresh]
-----------------------------------------------------------------------------
(***************************************************************************)
(* The key of a node in the tree changed from k to n; avl_update moves the *)
(* node when that put it out of order.                                     *)
(***************************************************************************)
Renamed(t, k, n) ==
  LET to(x) == IF x = k THEN n ELSE x
      at(x) == IF x = n THEN k ELSE x
      new(x) == IF x = k THEN Fresh
                ELSE [child  |-> [c \in 1 .. 2 |-> to(t.node[at(x)].child[c])],
                      parent |-> to(t.node[at(x)].parent),
                      which  |-> t.node[at(x)].which,
                      bal    |-> t.node[at(x)].bal]
  IN  [t EXCEPT !.root = to(@), !.node = [x \in NodeIds |-> new(x)]]

Before(t, x) == avl_walk(t, x, 0) # Null /\ x < avl_walk(t, x, 0)
Behind(t, x) == avl_walk(t, x, 1) # Null /\ x > avl_walk(t, x, 1)

Reinserted(t, x) == avl_add(avl_remove(t, x), x)

\* Bug: only a smaller key is looked for.
avl_update_down(t, x) == IF Before(t, x) THEN Reinserted(t, x) ELSE t

avl_update(t, x) == IF Before(t, x) \/ Behind(t, x) THEN Reinserted(t, x) ELSE t

avl_update_lt(t, x) == IF Before(t, x) THEN Reinserted(t, x) ELSE t
avl_update_gt(t, x) == IF Behind(t, x) THEN Reinserted(t, x) ELSE t
-----------------------------------------------------------------------------
(***************************************************************************)
(* avl_walk_all: the callback may remove the node it is given (the caches  *)
(* of an object, the objects of a container), here those in gone.          *)
(***************************************************************************)
\* Bug: the next node is looked up after the callback.
WalkAllLate(w, gone) ==
  LET left == IF w.x \in gone THEN avl_remove(w.t, w.x) ELSE w.t
  IN  IF w.x = Null THEN w
      ELSE [t |-> left, x |-> avl_walk(left, w.x, 1), seen |-> Append(w.seen, w.x)]

WalkAllTurn(w, gone) ==
  IF w.x = Null THEN w
  ELSE [t    |-> IF w.x \in gone THEN avl_remove(w.t, w.x) ELSE w.t,
        x    |-> avl_walk(w.t, w.x, 1),
        seen |-> Append(w.seen, w.x)]

avl_walk_all(t, gone) ==
  LET go[i \in 0 .. Turns] ==
        IF i = 0 THEN [t |-> t, x |-> avl_first(t), seen |-> <<>>]
        ELSE WalkAllTurn(go[i - 1], gone)
  IN  go[Turns]

(***************************************************************************)
(* avl_destroy_nodes returns the nodes one by one, children first, and     *)
(* unlinks each on the following call.  ok: its assertions held.           *)
(***************************************************************************)
\* Bug: the right side of a leftmost node is not looked at.
RightSideSkipped(t, x) == [node |-> x, ok |-> TRUE]

\* check_right_side: a left child is followed by its only child.
RightSide(t, x) ==
  LET r == Child(t, x, 1)
  IN  IF r = Null THEN [node |-> x, ok |-> Bal(t, x) <= 0]
      ELSE [node |-> r, ok |-> Bal(t, x) = 1 /\ t.node[r].child = <<Null, Null>>]

\* The call after x was returned: the tree without x, and the next node.
DestroyNext(t, x) ==
  LET p   == Parent(t, x)
      cut == [t EXCEPT !.node[p].child[Which(t, x) + 1] = Null, !.num = @ - 1]
      r   == RightSide(cut, Outermost(cut, Child(cut, p, 1), 0))
  IN  IF Which(t, x) = 1 \/ Child(cut, p, 1) = Null
      THEN [t |-> cut, node |-> p, ok |-> t.num > 1]
      ELSE [t |-> cut, node |-> r.node, ok |-> t.num > 1 /\ r.ok]

\* One call; the last node is returned when nothing but the root is left.
DestroyTurn(s) ==
  LET d == DestroyNext(s.t, s.node)
  IN  IF s.node = Null THEN s
      ELSE IF Parent(s.t, s.node) = Null
           THEN [t    |-> s.t,
                 node |-> Null,
                 seen |-> Append(s.seen, s.node),
                 ok   |-> s.ok /\ s.node = s.t.root /\ s.t.num = 1]
      ELSE [t |-> d.t, node |-> d.node, seen |-> Append(s.seen, s.node), ok |-> s.ok /\ d.ok]

avl_destroy_nodes(t) ==
  LET r == RightSide(t, avl_first(t))
      go[i \in 0 .. Turns] ==
        IF i = 0 THEN [t |-> t, node |-> r.node, seen |-> <<>>, ok |-> r.ok]
        ELSE DestroyTurn(go[i - 1])
  IN  IF t.root = Null THEN [seen |-> <<>>, ok |-> TRUE]
      ELSE [seen |-> go[Turns].seen, ok |-> go[Turns].ok]
-----------------------------------------------------------------------------
\* avl_create
AvlInit == avl = Empty

\* The nodes that the links down from the root lead to.
Held(t) ==
  LET go[i \in 0 .. Turns] ==
        IF i = 0 THEN {t.root} \ {Null}
        ELSE LET S == go[i - 1]
             IN  S \cup ({Child(t, x, c) : x \in S, c \in {0, 1}} \ {Null})
  IN  go[Turns]

AddKey == \E k \in AvlKeys \ Held(avl) : avl' = avl_add(avl, k)

\* The caller knows a neighbour of the new node.
InsertHere ==
  \E k \in AvlKeys \ Held(avl), d \in {0, 1} :
    LET here == avl_nearest(avl, avl_find(avl, k), 1 - d)
    IN  here # Null /\ avl' = avl_insert_here(avl, k, here, d)

RemoveKey == \E k \in Held(avl) : avl' = avl_remove(avl, k)

\* avl_update_lt and avl_update_gt require that the key did not move past the
\* neighbour on the other side.
Update ==
  /\ avl.num <= UpdateMax
  /\ \E k \in Held(avl), n \in AvlKeys \ Held(avl) :
       LET t == Renamed(avl, k, n)
       IN  \/ avl' = avl_update(t, n)
           \/ ~Behind(t, n) /\ avl' = avl_update_lt(t, n)
           \/ ~Before(t, n) /\ avl' = avl_update_gt(t, n)

AvlNext == AddKey \/ InsertHere \/ RemoveKey \/ Update
-----------------------------------------------------------------------------
(***************************************************************************)
(* Properties.                                                             *)
(***************************************************************************)
Larger(a, b) == IF a > b THEN a ELSE b

\* The levels below each node and the node's own.
Heights(t) ==
  LET go[i \in 0 .. Turns] ==
        IF i = 0 THEN [x \in NodeIds \cup {Null} |-> 0]
        ELSE LET h == go[i - 1]
             IN  [x \in NodeIds \cup {Null} |->
                    IF x = Null THEN 0 ELSE 1 + Larger(h[Child(t, x, 0)], h[Child(t, x, 1)])]
  IN  go[Turns]

Ascends(s, S) ==
  /\ ToSet(s) = S
  /\ \A i \in 1 .. Len(s) - 1 : s[i] < s[i + 1]

\* After any mix of insertions, removals and updates each node's balance is
\* the difference of the heights of its subtrees, and at most one.
AvlBalanced ==
  LET h == Heights(avl)
  IN  \A x \in Held(avl) :
        LET d == h[Child(avl, x, 1)] - h[Child(avl, x, 0)]
        IN  d = Bal(avl, x) /\ d \in -1 .. 1

\* avl_walk_all shows the callback every node once, in ascending order, also
\* when the callback removes some of the nodes it is shown, and leaves the
\* others in the tree.
AvlWalksAll ==
  LET all == Held(avl)
  IN  \A gone \in {{}, all, {k \in all : k % 2 = 0}, {k \in all : k % 3 # 0}} :
        LET w == avl_walk_all(avl, gone)
        IN  /\ Ascends(w.seen, all)
            /\ Held(w.t) = all \ gone
            /\ w.t.num = Cardinality(all \ gone)

\* avl_find finds exactly the keys in the tree; for any other key avl_nearest
\* returns the closest key on either side of the insertion point.
AvlNearestExact ==
  LET all == Held(avl)
  IN  \A k \in AvlKeys :
        LET f    == avl_find(avl, k)
            less == {x \in all : x < k}
            more == {x \in all : x > k}
        IN  IF k \in all THEN f.node = k
            ELSE /\ f.node = Null
                 /\ avl_nearest(avl, f, 0) = IF less = {} THEN Null ELSE Max(less)
                 /\ avl_nearest(avl, f, 1) = IF more = {} THEN Null ELSE Min(more)

\* avl_destroy_nodes returns every node exactly once and none before its
\* children, so that the caller may free it, and its assertions hold.
AvlDestroysOnce ==
  LET d   == avl_destroy_nodes(avl)
      all == Held(avl)
  IN  /\ d.ok
      /\ Len(d.seen) = Cardinality(all)
      /\ \A x \in all : \E i \in DOMAIN d.seen :
           /\ d.seen[i] = x
           /\ \A j \in 1 .. i - 1 : d.seen[j] # Parent(avl, x)
=============================================================================
