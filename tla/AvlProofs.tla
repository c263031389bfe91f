------------------------------- MODULE AvlProofs -------------------------------
(***************************************************************************)
(* Proofs about Avl, for any set of keys.  A tree is a set H of nodes with *)
(* two witnesses: sub[x], the nodes of x's subtree, and ht[x], its levels. *)
(* The order is that of the ranks rk: while avl_remove has the placeholder *)
(* Tmp in the tree, and while a node has a new key, the rank of a node is  *)
(* not its key.  Every step shows what it does to the links and which      *)
(* witnesses the tree has afterwards.                                      *)
(***************************************************************************)
EXTENDS Avl, FiniteSetTheorems, WellFoundedInduction, TLAPS

\* Every set of numbers has a smallest one (the first place where two keys differ).
LEMMA Smallest ==
  ASSUME NEW T, T \subseteq Nat, T # {}
  PROVE  \E m \in T : \A k \in T : m <= k
<1>1. IsWellFoundedOn(OpToRel(<, Nat), Nat)
  BY NatLessThanWellFounded
<1>2. PICK m \in T : \A k \in T : ~ (<<k, m>> \in OpToRel(<, Nat))
  <2>. HIDE DEF OpToRel
  <2>. QED BY <1>1, WFMin
<1>3. \A k \in T : k \in Nat /\ m \in Nat /\ ~ (k < m)
  BY <1>2 DEF OpToRel
<1>4. \A k \in T : m <= k
  BY <1>3
<1>. QED BY <1>4

\* Induction, with the numbers the statement holds of as a set.
LEMMA Induct ==
  ASSUME NEW T, 0 \in T, \A n \in Nat : n \in T => n + 1 \in T
  PROVE  \A n \in Nat : n \in T
<1>1. SUFFICES ASSUME Nat \ T # {} PROVE FALSE
  OBVIOUS
<1>2. PICK m \in Nat \ T : \A k \in Nat \ T : m <= k
  BY <1>1, Smallest
<1>3. m # 0 /\ m - 1 \in Nat
  BY <1>2
<1>4. m - 1 \in T
  BY <1>2, <1>3
<1>. QED BY <1>2, <1>3, <1>4

-----------------------------------------------------------------------------
(***************************************************************************)
(* Nodes and links.                                                        *)
(***************************************************************************)
Slots == NodeIds \cup {Null}

\* Nodes and trees whose fields have their types.
AnyNode == [child : [1 .. 2 -> Slots], parent : Slots, which : {0, 1}, bal : Int]
AnyTree == [root : Slots, num : Int, node : [NodeIds -> AnyNode]]

\* A key is a number, Null and Tmp are none.
LEMMA Names ==
  /\ AvlKeys \subseteq NodeIds /\ AvlKeys \subseteq Nat /\ Tmp \in NodeIds /\ Tmp \notin AvlKeys
  /\ Null \notin NodeIds /\ Null \in Slots /\ NodeIds \subseteq Slots
  /\ Slots = NodeIds \cup {Null} /\ NodeIds = AvlKeys \cup {Tmp} /\ NodeIds \subseteq Int
BY AvlAssumption DEF NodeIds, Slots, Null, Tmp

\* The fields of a node have their types.
LEMMA Fields ==
  ASSUME NEW t \in AnyTree, NEW x \in NodeIds
  PROVE  /\ \A d \in {0, 1} : Child(t, x, d) \in Slots
         /\ Parent(t, x) \in Slots /\ Which(t, x) \in {0, 1} /\ Bal(t, x) \in Int
BY DEF AnyTree, AnyNode, Child, Parent, Which, Bal

\* a has the links of t but for those named: x below p on side c.
Attached(a, t, p, c, x) ==
  /\ a \in AnyTree /\ a.num = t.num /\ a.root = IF p = Null THEN x ELSE t.root
  /\ \A y \in NodeIds :
       /\ Parent(a, y) = IF y = x THEN p ELSE Parent(t, y)
       /\ Which(a, y) = IF y = x THEN c ELSE Which(t, y)
       /\ Bal(a, y) = Bal(t, y)
       /\ \A d \in {0, 1} : Child(a, y, d) = IF y = p /\ d = c THEN x ELSE Child(t, y, d)

\* Attach changes these fields and no others.
LEMMA AttachIs ==
  ASSUME NEW t \in AnyTree, NEW p \in Slots, NEW c \in {0, 1}, NEW x \in Slots
  PROVE  Attached(Attach(t, p, c, x), t, p, c, x)
<1> DEFINE up == Adopt(t, p, c, x)
           a == Attach(t, p, c, x)
<1>1. /\ up \in AnyTree /\ up.num = t.num /\ up.root = t.root
      /\ \A y \in NodeIds : up.node[y].parent = IF y = x THEN p ELSE t.node[y].parent
      /\ \A y \in NodeIds : up.node[y].which = IF y = x THEN c ELSE t.node[y].which
      /\ \A y \in NodeIds : up.node[y].bal = t.node[y].bal
      /\ \A y \in NodeIds : up.node[y].child = t.node[y].child
  <2>1. CASE x = Null
    BY <2>1, Names DEF Adopt
  <2>2. CASE x # Null
    <3>1. x \in NodeIds
      BY <2>2, Names
    <3>2. up = [t EXCEPT !.node[x] = [@ EXCEPT !.parent = p, !.which = c]]
      BY <2>2 DEF Adopt
    <3>3. t.node \in [NodeIds -> AnyNode] /\ t.node[x] \in AnyNode
      BY <3>1 DEF AnyTree
    <3>0. [t.node[x] EXCEPT !.parent = p, !.which = c]
            = [child |-> t.node[x].child, parent |-> p, which |-> c, bal |-> t.node[x].bal]
      <4> DEFINE r == t.node[x]
                 q == [child |-> r.child, parent |-> p, which |-> r.which, bal |-> r.bal]
      <4>1. r \in AnyNode /\ q \in AnyNode
        BY <3>3 DEF AnyNode
      <4>. HIDE DEF r
      <4>2. [r EXCEPT !.parent = p, !.which = c] = [[r EXCEPT !.parent = p] EXCEPT !.which = c]
        BY <4>1 DEF AnyNode
      <4>3. [r EXCEPT !.parent = p] = q
        BY <4>1 DEF AnyNode
      <4>4. [q EXCEPT !.which = c] = [child |-> r.child, parent |-> p, which |-> c, bal |-> r.bal]
        BY <4>1 DEF AnyNode
      <4>. QED BY <4>2, <4>3, <4>4 DEF r
    <3>4. up = [root |-> t.root, num |-> t.num,
                node |-> [t.node EXCEPT ![x] = [child |-> t.node[x].child, parent |-> p,
                                                which |-> c, bal |-> t.node[x].bal]]]
      BY <3>0, <3>1, <3>2, <3>3 DEF AnyTree
    <3>. HIDE DEF up
    <3>5. [child |-> t.node[x].child, parent |-> p, which |-> c, bal |-> t.node[x].bal] \in AnyNode
      BY <3>3 DEF AnyNode
    <3>6. up \in AnyTree /\ up.num = t.num /\ up.root = t.root
      BY <3>4, <3>5, <3>3 DEF AnyTree
    <3>7. ASSUME NEW y \in NodeIds
          PROVE  up.node[y] = IF y = x THEN [child |-> t.node[x].child, parent |-> p,
                                             which |-> c, bal |-> t.node[x].bal]
                              ELSE t.node[y]
      BY <3>4, <3>3
    <3>. QED BY <3>6, <3>7
  <2>. QED BY <2>1, <2>2
<1>2. a = IF p = Null THEN [up EXCEPT !.root = x] ELSE [up EXCEPT !.node[p].child[c + 1] = x]
  BY DEF Attach
<1>. HIDE DEF up
<1>3. /\ a \in AnyTree /\ a.num = t.num /\ a.root = IF p = Null THEN x ELSE t.root
      /\ \A y \in NodeIds :
           /\ a.node[y].parent = up.node[y].parent
           /\ a.node[y].which = up.node[y].which
           /\ a.node[y].bal = up.node[y].bal
           /\ \A d \in {0, 1} : a.node[y].child[d + 1] =
                IF y = p /\ d = c THEN x ELSE up.node[y].child[d + 1]
  <2>1. CASE p = Null
    <3>1. a = [root |-> x, num |-> up.num, node |-> up.node]
      BY <1>1, <1>2, <2>1 DEF AnyTree
    <3>2. \A y \in NodeIds : y # p
      BY <2>1, Names
    <3>. HIDE DEF a
    <3>. QED BY <3>1, <3>2, <1>1, <2>1 DEF AnyTree
  <2>2. CASE p # Null
    <3>1. p \in NodeIds /\ c + 1 \in 1 .. 2
      BY <2>2, Names
    <3>2. up.node \in [NodeIds -> AnyNode] /\ up.node[p] \in AnyNode
      BY <3>1, <1>1 DEF AnyTree
    <3> DEFINE n == [child |-> [up.node[p].child EXCEPT ![c + 1] = x], parent |-> up.node[p].parent,
                     which |-> up.node[p].which, bal |-> up.node[p].bal]
    <3>3. a = [root |-> up.root, num |-> up.num, node |-> [up.node EXCEPT ![p] = n]]
      <4> DEFINE r == up.node[p]
                 N == [up.node EXCEPT ![p] = [r EXCEPT !.child[c + 1] = x]]
      <4>1. a = [up EXCEPT !.node = N]
        BY <1>2, <2>2
      <4>2. r \in AnyNode
        BY <3>2
      <4>3. [r EXCEPT !.child[c + 1] = x]
              = [child |-> [r.child EXCEPT ![c + 1] = x], parent |-> r.parent, which |-> r.which, bal |-> r.bal]
        <5>. HIDE DEF r
        <5>. QED BY <4>2 DEF AnyNode
      <4>4. N = [up.node EXCEPT ![p] = n]
        BY <4>3
      <4>. HIDE DEF N, n
      <4>5. a = [root |-> up.root, num |-> up.num, node |-> N]
        BY <4>1, <1>1 DEF AnyTree
      <4>. QED BY <4>4, <4>5
    <3>4. n \in AnyNode
      BY <3>1, <3>2 DEF AnyNode
    <3>5. \A d \in {0, 1} : n.child[d + 1] = IF d = c THEN x ELSE up.node[p].child[d + 1]
      BY <3>1, <3>2 DEF AnyNode
    <3>6. n.parent = up.node[p].parent /\ n.which = up.node[p].which /\ n.bal = up.node[p].bal
      OBVIOUS
    <3>. HIDE DEF a, n
    <3>7. a \in AnyTree /\ a.num = t.num /\ a.root = t.root
      BY <3>2, <3>3, <3>4, <1>1 DEF AnyTree
    <3>8. ASSUME NEW y \in NodeIds PROVE a.node[y] = IF y = p THEN n ELSE up.node[y]
      BY <3>2, <3>3
    <3>. QED BY <3>5, <3>6, <3>7, <3>8, <2>2
  <2>. QED BY <2>1, <2>2
<1>. HIDE DEF a
<1>4. Attached(a, t, p, c, x)
  BY <1>1, <1>3 DEF Attached, Parent, Which, Bal, Child
<1>. QED BY <1>4 DEF a

\* u is t with the balance of x set to b.
Balanced(u, t, x, b) ==
  /\ u \in AnyTree /\ u.num = t.num /\ u.root = t.root
  /\ \A y \in NodeIds :
       /\ Parent(u, y) = Parent(t, y) /\ Which(u, y) = Which(t, y)
       /\ Bal(u, y) = IF y = x THEN b ELSE Bal(t, y)
       /\ \A d \in {0, 1} : Child(u, y, d) = Child(t, y, d)

\* Setting a balance changes nothing else.
LEMMA SetBalIs ==
  ASSUME NEW t \in AnyTree, NEW x \in NodeIds, NEW b \in Int
  PROVE  Balanced(SetBal(t, x, b), t, x, b)
<1> DEFINE u == SetBal(t, x, b)
           n == [child |-> t.node[x].child, parent |-> t.node[x].parent,
                 which |-> t.node[x].which, bal |-> b]
<1>1. t.node \in [NodeIds -> AnyNode] /\ t.node[x] \in AnyNode
  BY DEF AnyTree
<1>2. u = [root |-> t.root, num |-> t.num, node |-> [t.node EXCEPT ![x] = n]]
  <2> DEFINE r == t.node[x]
             N == [t.node EXCEPT ![x] = [r EXCEPT !.bal = b]]
  <2>1. u = [t EXCEPT !.node = N]
    BY DEF SetBal
  <2>2. [r EXCEPT !.bal = b] = [child |-> r.child, parent |-> r.parent, which |-> r.which, bal |-> b]
    <3>1. r \in AnyNode
      BY <1>1
    <3>. HIDE DEF r
    <3>. QED BY <3>1 DEF AnyNode
  <2>3. N = [t.node EXCEPT ![x] = n]
    BY <2>2
  <2>. HIDE DEF N, n, u
  <2>4. u = [root |-> t.root, num |-> t.num, node |-> N]
    BY <2>1 DEF AnyTree
  <2>. QED BY <2>3, <2>4
<1>3. n \in AnyNode
  BY <1>1 DEF AnyNode
<1>4. /\ n.parent = t.node[x].parent /\ n.which = t.node[x].which /\ n.bal = b
      /\ n.child = t.node[x].child
  OBVIOUS
<1>. HIDE DEF u, n
<1>5. u \in AnyTree /\ u.num = t.num /\ u.root = t.root
  BY <1>1, <1>2, <1>3 DEF AnyTree
<1>6. ASSUME NEW y \in NodeIds PROVE u.node[y] = IF y = x THEN n ELSE t.node[y]
  BY <1>1, <1>2
<1>7. \A y \in NodeIds :
        /\ Parent(u, y) = Parent(t, y) /\ Which(u, y) = Which(t, y)
        /\ Bal(u, y) = IF y = x THEN b ELSE Bal(t, y)
        /\ \A d \in {0, 1} : Child(u, y, d) = Child(t, y, d)
  BY <1>4, <1>6 DEF Parent, Which, Bal, Child
<1>. QED BY <1>5, <1>7 DEF u, Balanced

-----------------------------------------------------------------------------
(***************************************************************************)
(* What makes the links a tree.                                            *)
(***************************************************************************)
\* The nodes of H are linked both ways.
Linked(t, H) ==
  /\ t \in AnyTree /\ H \subseteq NodeIds
  /\ t.root \in H \cup {Null} /\ (t.root = Null => H = {})
  /\ \A y \in H : Parent(t, y) \in H \cup {Null} /\ (Parent(t, y) = Null <=> y = t.root)
  /\ \A x \in H : \A d \in {0, 1} : Child(t, x, d) \in H \cup {Null}
  /\ \A x, y \in H : \A d \in {0, 1} :
       Child(t, x, d) = y <=> Parent(t, y) = x /\ Which(t, y) = d

\* y is before or behind x, in the order of the ranks rk.
Side(rk, y, x, d) == IF d = 0 THEN rk[y] < rk[x] ELSE rk[y] > rk[x]

\* sub[x] is x with what is below it: smaller nodes on the left, greater ones on
\* the right.
Ordered(t, H, sub, rk) ==
  /\ sub \in [Slots -> SUBSET NodeIds] /\ rk \in [NodeIds -> Int]
  /\ sub[Null] = {} /\ sub[t.root] = H
  /\ \A x \in H : sub[x] \subseteq H
  /\ \A x \in H : sub[x] = {x} \cup sub[Child(t, x, 0)] \cup sub[Child(t, x, 1)]
  /\ \A x \in H : \A d \in {0, 1} : \A y \in sub[Child(t, x, d)] : Side(rk, y, x, d)

\* A measure that goes down with each link, for inductions along the links.
Falls(t, H, mu) ==
  /\ mu \in [Slots -> Nat]
  /\ \A x, y \in H : \A d \in {0, 1} : Child(t, x, d) = y => mu[y] < mu[x]

\* The measure is bounded.
Measured(t, H, mu, M) == Falls(t, H, mu) /\ M \in Nat /\ \A x \in H : mu[x] <= M

\* What holds of the root, and of a node when it does of its parent, holds of all.
LEMMA FromRoot ==
  ASSUME NEW t, NEW H, Linked(t, H), NEW mu, NEW M, Measured(t, H, mu, M), NEW P,
         \A y \in H : y = t.root \/ Parent(t, y) \in P => y \in P
  PROVE  H \subseteq P
<1> DEFINE T == {n \in Nat : \A y \in H : mu[y] + n >= M => y \in P}
<1>0. /\ M \in Nat /\ \A y \in H : mu[y] \in Nat /\ mu[y] <= M
      /\ \A y \in H : y # t.root => Parent(t, y) \in H /\ mu[y] < mu[Parent(t, y)]
  <2>1. M \in Nat /\ \A y \in H : mu[y] \in Nat /\ mu[y] <= M
    BY Names DEF Measured, Falls, Linked
  <2>2. ASSUME NEW y \in H, y # t.root PROVE Parent(t, y) \in H /\ mu[y] < mu[Parent(t, y)]
    <3>1. Parent(t, y) \in H
      BY <2>2 DEF Linked
    <3>2. y \in NodeIds /\ t \in AnyTree
      BY DEF Linked
    <3>3. Which(t, y) \in {0, 1}
      BY <3>2, Fields
    <3>4. Child(t, Parent(t, y), Which(t, y)) = y
      BY <3>1, <3>3 DEF Linked
    <3>. QED BY <3>1, <3>3, <3>4 DEF Measured, Falls
  <2>. QED BY <2>1, <2>2
<1>1. ASSUME NEW n \in Nat, \A y \in H : mu[y] + n > M => y \in P PROVE n \in T
  <2>1. ASSUME NEW y \in H, mu[y] + n >= M PROVE y \in P
    <3>1. CASE y = t.root
      BY <3>1
    <3>2. CASE y # t.root
      <4>1. Parent(t, y) \in H /\ mu[y] < mu[Parent(t, y)] /\ mu[Parent(t, y)] \in Nat /\ mu[y] \in Nat
        BY <1>0, <3>2
      <4>2. mu[Parent(t, y)] + n > M
        BY <4>1, <2>1, <1>0
      <4>. QED BY <4>1, <4>2, <1>1
    <3>. QED BY <3>1, <3>2
  <2>. QED BY <2>1
<1>2. 0 \in T
  <2>1. \A y \in H : mu[y] + 0 > M => y \in P
    BY <1>0
  <2>. HIDE DEF T
  <2>. QED BY <2>1, <1>1
<1>3. ASSUME NEW n \in Nat, n \in T PROVE n + 1 \in T
  <2>1. \A y \in H : mu[y] + n >= M => y \in P
    BY <1>3
  <2>2. \A y \in H : mu[y] + (n + 1) > M => y \in P
    BY <2>1, <1>0
  <2>. HIDE DEF T
  <2>. QED BY <2>2, <1>1
<1>4. \A n \in Nat : n \in T
  <2>. HIDE DEF T
  <2>. QED BY <1>2, <1>3, Induct
<1>5. M \in T
  BY <1>4, <1>0
<1>. QED BY <1>5, <1>0

\* What holds of a node when it does of its children holds of all.
LEMMA FromLeaves ==
  ASSUME NEW t, NEW H, Linked(t, H), NEW mu, Falls(t, H, mu), NEW P,
         \A y \in H : (\A d \in {0, 1} : Child(t, y, d) \in P \cup {Null}) => y \in P
  PROVE  H \subseteq P
<1> DEFINE T == {n \in Nat : \A y \in H : mu[y] <= n => y \in P}
<1>0. /\ \A y \in H : mu[y] \in Nat
      /\ \A y \in H : \A d \in {0, 1} :
           Child(t, y, d) # Null => Child(t, y, d) \in H /\ mu[Child(t, y, d)] < mu[y]
  <2>1. \A y \in H : mu[y] \in Nat
    BY Names DEF Falls, Linked
  <2>2. ASSUME NEW y \in H, NEW d \in {0, 1}, Child(t, y, d) # Null
        PROVE  Child(t, y, d) \in H /\ mu[Child(t, y, d)] < mu[y]
    <3>1. Child(t, y, d) \in H
      BY <2>2 DEF Linked
    <3>. QED BY <3>1 DEF Falls
  <2>. QED BY <2>1, <2>2
<1>1. ASSUME NEW n \in Nat, \A y \in H : mu[y] < n => y \in P PROVE n \in T
  <2>1. ASSUME NEW y \in H, mu[y] <= n PROVE y \in P
    <3>1. ASSUME NEW d \in {0, 1}, Child(t, y, d) # Null PROVE Child(t, y, d) \in P
      <4>1. /\ Child(t, y, d) \in H /\ mu[Child(t, y, d)] < mu[y]
            /\ mu[Child(t, y, d)] \in Nat /\ mu[y] \in Nat
        BY <1>0, <3>1
      <4>2. mu[Child(t, y, d)] < n
        BY <4>1, <2>1
      <4>. QED BY <4>1, <4>2, <1>1
    <3>2. \A d \in {0, 1} : Child(t, y, d) \in P \cup {Null}
      BY <3>1
    <3>. QED BY <3>2
  <2>. QED BY <2>1
<1>2. 0 \in T
  <2>1. \A y \in H : mu[y] < 0 => y \in P
    BY <1>0
  <2>. HIDE DEF T
  <2>. QED BY <2>1, <1>1
<1>3. ASSUME NEW n \in Nat, n \in T PROVE n + 1 \in T
  <2>1. \A y \in H : mu[y] <= n => y \in P
    BY <1>3
  <2>2. \A y \in H : mu[y] < n + 1 => y \in P
    BY <2>1, <1>0
  <2>. HIDE DEF T
  <2>. QED BY <2>2, <1>1
<1>4. \A n \in Nat : n \in T
  <2>. HIDE DEF T
  <2>. QED BY <1>2, <1>3, Induct
<1>. QED BY <1>4, <1>0

\* A linked tree in order.
Shape(t, H, sub, rk) == Linked(t, H) /\ Ordered(t, H, sub, rk)

\* The two sides of a node.
LEMMA Sides ==
  ASSUME NEW t, NEW H, NEW sub, NEW rk, Shape(t, H, sub, rk), NEW x \in H, NEW d \in {0, 1}
  PROVE  /\ x \in NodeIds /\ x # Null /\ x \in sub[x] /\ sub[x] \subseteq H /\ 1 - d \in {0, 1}
         /\ sub[x] = {x} \cup sub[Child(t, x, d)] \cup sub[Child(t, x, 1 - d)]
         /\ x \notin sub[Child(t, x, d)]
         /\ \A y \in sub[Child(t, x, d)] : y \notin sub[Child(t, x, 1 - d)] /\ Side(rk, y, x, d)
         /\ Child(t, x, d) \in H \cup {Null}
         /\ Child(t, x, d) # Null => Child(t, x, d) \in sub[Child(t, x, d)]
<1>1. x \in NodeIds /\ x # Null /\ 1 - d \in {0, 1}
  BY Names DEF Shape, Linked
<1>2. sub[x] = {x} \cup sub[Child(t, x, 0)] \cup sub[Child(t, x, 1)] /\ sub[x] \subseteq H
  BY DEF Shape, Ordered
<1>3. sub[x] = {x} \cup sub[Child(t, x, d)] \cup sub[Child(t, x, 1 - d)]
  <2>1. CASE d = 0
    BY <1>2, <2>1
  <2>2. CASE d = 1
    BY <1>2, <2>2
  <2>. QED BY <2>1, <2>2
<1>4. \A e \in {0, 1} : \A y \in sub[Child(t, x, e)] : y \in NodeIds /\ Side(rk, y, x, e)
  <2>1. \A e \in {0, 1} : sub[Child(t, x, e)] \subseteq sub[x]
    BY <1>2
  <2>2. \A y \in sub[x] : y \in NodeIds
    BY <1>2 DEF Shape, Linked
  <2>. QED BY <2>1, <2>2 DEF Shape, Ordered
<1>5. rk \in [NodeIds -> Int]
  BY DEF Shape, Ordered
<1>6. \A y \in NodeIds : ~(Side(rk, y, x, 0) /\ Side(rk, y, x, 1)) /\ ~Side(rk, x, x, d)
  BY <1>1, <1>5 DEF Side
<1>7. x \notin sub[Child(t, x, d)]
  BY <1>1, <1>4, <1>6
<1>8. \A y \in sub[Child(t, x, d)] : y \notin sub[Child(t, x, 1 - d)]
  <2>1. CASE d = 0
    BY <2>1, <1>4, <1>6
  <2>2. CASE d = 1
    BY <2>2, <1>4, <1>6
  <2>. QED BY <2>1, <2>2
<1>9. Child(t, x, d) \in H \cup {Null}
  BY DEF Shape, Linked
<1>10. Child(t, x, d) # Null => Child(t, x, d) \in sub[Child(t, x, d)]
  <2>1. SUFFICES ASSUME Child(t, x, d) # Null PROVE Child(t, x, d) \in sub[Child(t, x, d)]
    OBVIOUS
  <2>2. Child(t, x, d) \in H
    BY <1>9, <2>1
  <2>. QED BY <2>2 DEF Shape, Ordered
<1>. QED BY <1>1, <1>2, <1>3, <1>4, <1>7, <1>8, <1>9, <1>10

\* How many nodes are below a node, itself included: a measure for every tree.
Mass(sub) == [y \in Slots |-> Cardinality(sub[y])]

\* The number of nodes, the placeholder included, is the number of turns of the loops.
LEMMA Finite == IsFiniteSet(NodeIds) /\ Cardinality(NodeIds) = Turns /\ Turns \in Nat /\ Turns > 0
<1>1. IsFiniteSet(AvlKeys) /\ Tmp \notin AvlKeys
  BY Names, AvlAssumption
<1>2. IsFiniteSet(AvlKeys \cup {Tmp}) /\ Cardinality(AvlKeys \cup {Tmp}) = Cardinality(AvlKeys) + 1
  BY <1>1, FS_AddElement
<1>3. Cardinality(AvlKeys) \in Nat
  BY <1>1, FS_CardinalityType
<1>. QED BY <1>2, <1>3 DEF NodeIds, Turns

\* The size of the subtree is such a measure: loops down and up the links end in time.
LEMMA Masses ==
  ASSUME NEW t, NEW H, NEW sub, NEW rk, Shape(t, H, sub, rk)
  PROVE  /\ Measured(t, H, Mass(sub), Cardinality(NodeIds))
         /\ \A y \in H : Mass(sub)[y] \in Nat /\ Mass(sub)[y] > 0 /\ Mass(sub)[y] <= Turns
         /\ \A x, y \in H : \A d \in {0, 1} : Child(t, x, d) = y => Mass(sub)[y] < Mass(sub)[x]
<1>1. sub \in [Slots -> SUBSET NodeIds] /\ H \subseteq NodeIds /\ H \subseteq Slots
  BY Names DEF Shape, Ordered, Linked
<1>2. ASSUME NEW y \in Slots
      PROVE  /\ sub[y] \subseteq NodeIds /\ IsFiniteSet(sub[y]) /\ Cardinality(sub[y]) \in Nat
             /\ Cardinality(sub[y]) <= Cardinality(NodeIds)
  <2>1. sub[y] \subseteq NodeIds
    BY <1>1
  <2>2. IsFiniteSet(sub[y]) /\ Cardinality(sub[y]) <= Cardinality(NodeIds)
    BY <2>1, Finite, FS_Subset
  <2>. QED BY <2>1, <2>2, FS_CardinalityType
<1>3. Mass(sub) \in [Slots -> Nat] /\ \A y \in Slots : Mass(sub)[y] = Cardinality(sub[y])
  BY <1>2 DEF Mass
<1>4. ASSUME NEW x \in H, NEW y \in H, NEW d \in {0, 1}, Child(t, x, d) = y
      PROVE  Cardinality(sub[y]) < Cardinality(sub[x])
  <2>1. x \notin sub[y] /\ sub[y] \cup {x} \subseteq sub[x]
    BY <1>4, Sides
  <2>2. Cardinality(sub[y] \cup {x}) = Cardinality(sub[y]) + 1
    BY <1>1, <1>2, <2>1, FS_AddElement
  <2>3. Cardinality(sub[y] \cup {x}) <= Cardinality(sub[x])
    BY <1>1, <1>2, <2>1, FS_Subset
  <2>4. Cardinality(sub[y]) \in Nat /\ Cardinality(sub[x]) \in Nat
    BY <1>1, <1>2
  <2>. QED BY <2>2, <2>3, <2>4
<1>5. ASSUME NEW y \in H PROVE Cardinality(sub[y]) > 0
  <2>1. y \in sub[y]
    BY Sides
  <2>2. Cardinality({y}) <= Cardinality(sub[y]) /\ Cardinality({y}) = 1
    BY <2>1, <1>1, <1>2, FS_Subset, FS_Singleton
  <2>. QED BY <2>2, <1>1, <1>2
<1>6. /\ \A x, y \in H : \A d \in {0, 1} : Child(t, x, d) = y => Mass(sub)[y] < Mass(sub)[x]
      /\ \A y \in H : Mass(sub)[y] \in Nat /\ Mass(sub)[y] > 0 /\ Mass(sub)[y] <= Cardinality(NodeIds)
  BY <1>1, <1>2, <1>3, <1>4, <1>5
<1>. HIDE DEF Mass
<1>. QED BY <1>3, <1>6, Finite DEF Measured, Falls

\* What is below a node is below its parent, and nodes are below the root.
LEMMA SubUp ==
  ASSUME NEW t, NEW H, NEW sub, NEW rk, Shape(t, H, sub, rk)
  PROVE  \A b \in H : \A a \in sub[b] :
           sub[a] \subseteq sub[b] /\ (a # b => a # t.root /\ Parent(t, a) \in sub[b])
<1> DEFINE P == {b \in H : \A a \in sub[b] : sub[a] \subseteq sub[b] /\ (a # b => Parent(t, a) \in sub[b])}
<1>0. Linked(t, H) /\ Measured(t, H, Mass(sub), Cardinality(NodeIds))
  BY Masses DEF Shape
<1>1. ASSUME NEW b \in H, \A d \in {0, 1} : Child(t, b, d) \in P \cup {Null} PROVE b \in P
  <2>1. ASSUME NEW a \in sub[b] PROVE sub[a] \subseteq sub[b] /\ (a # b => Parent(t, a) \in sub[b])
    <3>1. CASE a = b
      BY <3>1
    <3>2. CASE a # b
      <4>1. PICK d \in {0, 1} : a \in sub[Child(t, b, d)]
        BY <3>2 DEF Shape, Ordered
      <4> DEFINE c == Child(t, b, d)
      <4>2. c \in P /\ c \in H
        <5>1. c # Null
          BY <4>1 DEF Shape, Ordered
        <5>. QED BY <5>1, <1>1
      <4>3. sub[c] \subseteq sub[b] /\ b \in sub[b]
        BY Sides
      <4>4. sub[a] \subseteq sub[c] /\ (a # c => Parent(t, a) \in sub[c])
        BY <4>1, <4>2
      <4>5. a = c => Parent(t, a) = b
        BY <4>2, <1>0 DEF Linked
      <4>. QED BY <4>3, <4>4, <4>5
    <3>. QED BY <3>1, <3>2
  <2>. QED BY <2>1
<1>2. H \subseteq P
  <2>1. Falls(t, H, Mass(sub))
    BY <1>0 DEF Measured
  <2>. HIDE DEF P
  <2>. QED BY <1>0, <1>1, <2>1, FromLeaves
<1>3. ASSUME NEW b \in H, NEW a \in sub[b], a # b PROVE a # t.root
  <2>1. Parent(t, a) \in sub[b]
    BY <1>2, <1>3
  <2>2. sub[b] \subseteq H /\ Null \notin H
    BY Names DEF Shape, Ordered, Linked
  <2>. QED BY <2>1, <2>2, <1>0 DEF Linked
<1>. QED BY <1>2, <1>3

\* A node that is not below u parts from it at some y.
LEMMA Fork ==
  ASSUME NEW t, NEW H, NEW sub, NEW rk, Shape(t, H, sub, rk),
         NEW u \in H, NEW z \in H, z \notin sub[u]
  PROVE  \E y \in H : \E d \in {0, 1} :
           u \in sub[Child(t, y, d)] /\ z \in sub[y] /\ z \notin sub[Child(t, y, d)]
<1> DEFINE Parts(v) == \E y \in H : \E d \in {0, 1} :
             v \in sub[Child(t, y, d)] /\ z \in sub[y] /\ z \notin sub[Child(t, y, d)]
           P == {v \in H : z \in sub[v] \/ Parts(v)}
<1>0. Linked(t, H) /\ Measured(t, H, Mass(sub), Cardinality(NodeIds))
  BY Masses DEF Shape
<1>1. ASSUME NEW v \in H, v = t.root \/ Parent(t, v) \in P PROVE v \in P
  <2>1. CASE v = t.root
    <3>1. sub[v] = H
      BY <2>1 DEF Shape, Ordered
    <3>. QED BY <3>1
  <2>2. CASE v # t.root
    <3> DEFINE p == Parent(t, v)
               w == Which(t, v)
    <3>1. p \in P /\ p \in H /\ w \in {0, 1}
      BY <1>1, <2>2, <1>0, Fields DEF Linked
    <3>2. Child(t, p, w) = v
      BY <3>1, <1>0 DEF Linked
    <3>3. v \in sub[v] /\ p \in sub[p] /\ sub[v] \subseteq sub[p]
      <4>1. v \in sub[v] /\ p \in sub[p]
        BY <3>1, Sides
      <4>2. sub[Child(t, p, w)] \subseteq sub[p]
        BY <3>1, Sides
      <4>. QED BY <4>1, <4>2, <3>2
    <3>4. CASE z \in sub[p]
      <4>1. z \in sub[v] \/ Parts(v)
        BY <3>1, <3>2, <3>3, <3>4
      <4>. QED BY <4>1
    <3>5. CASE Parts(p)
      <4>1. PICK y \in H : \E d \in {0, 1} :
              p \in sub[Child(t, y, d)] /\ z \in sub[y] /\ z \notin sub[Child(t, y, d)]
        BY <3>5
      <4>2. PICK d \in {0, 1} : p \in sub[Child(t, y, d)] /\ z \in sub[y] /\ z \notin sub[Child(t, y, d)]
        BY <4>1
      <4>3. Child(t, y, d) \in H
        <5>1. Child(t, y, d) # Null
          BY <4>2 DEF Shape, Ordered
        <5>. QED BY <5>1, <1>0 DEF Linked
      <4>4. sub[p] \subseteq sub[Child(t, y, d)]
        BY <4>2, <4>3, SubUp
      <4>5. Parts(v)
        BY <4>2, <4>4, <3>3
      <4>. QED BY <4>5
    <3>. QED BY <3>1, <3>4, <3>5
  <2>. QED BY <2>1, <2>2
<1>2. H \subseteq P
  <2>. HIDE DEF P
  <2>. QED BY <1>0, <1>1, FromRoot
<1>. QED BY <1>2

\* A node that is not below u is on one side of everything that is.
LEMMA Apart ==
  ASSUME NEW t, NEW H, NEW sub, NEW rk, Shape(t, H, sub, rk),
         NEW u \in H, NEW z \in H, z \notin sub[u]
  PROVE  \E d \in {0, 1} : \A a \in sub[u] : Side(rk, z, a, d)
<1>1. PICK y \in H : \E d \in {0, 1} :
        u \in sub[Child(t, y, d)] /\ z \in sub[y] /\ z \notin sub[Child(t, y, d)]
  BY Fork
<1>2. PICK d \in {0, 1} : u \in sub[Child(t, y, d)] /\ z \in sub[y] /\ z \notin sub[Child(t, y, d)]
  BY <1>1
<1>3. Child(t, y, d) \in H
  <2>1. Child(t, y, d) # Null
    BY <1>2 DEF Shape, Ordered
  <2>. QED BY <2>1 DEF Shape, Linked
<1>4. sub[u] \subseteq sub[Child(t, y, d)] /\ sub[Child(t, y, d)] \subseteq H
  BY <1>2, <1>3, SubUp, Sides
<1>5. z = y \/ z \in sub[Child(t, y, 1 - d)]
  BY <1>2, Sides
<1>6. 1 - d \in {0, 1} /\ H \subseteq NodeIds /\ rk \in [NodeIds -> Int]
  BY DEF Shape, Linked, Ordered
<1>7. ASSUME NEW a \in sub[u] PROVE Side(rk, z, a, 1 - d)
  <2>1. Side(rk, a, y, d)
    BY <1>4, Sides
  <2>2. z = y \/ Side(rk, z, y, 1 - d)
    BY <1>5, <1>6, Sides
  <2>3. rk[a] \in Int /\ rk[y] \in Int /\ rk[z] \in Int
    BY <1>4, <1>6
  <2>. QED BY <2>1, <2>2, <2>3 DEF Side
<1>. QED BY <1>6, <1>7

\* How many levels there are on side d of y; on side c of x they are e more than
\* the links show, or fewer: what the loop on the way up still has to account for.
Depth(t, ht, x, c, e, y, d) == ht[Child(t, y, d)] + (IF y = x /\ d = c THEN e ELSE 0)

\* A node with l levels on the left and r on the right.
Level(t, ht, y, l, r) ==
  ht[y] = 1 + Larger(l, r) /\ Bal(t, y) = r - l /\ Bal(t, y) \in {-1, 0, 1}

\* The levels and balances, where the subtree of x on side c counts as e levels higher.
Levels(t, H, ht, x, c, e) ==
  /\ ht \in [Slots -> Nat] /\ ht[Null] = 0 /\ \A y \in H : ht[y] > 0
  /\ \A y \in H : Level(t, ht, y, Depth(t, ht, x, c, e, y, 0), Depth(t, ht, x, c, e, y, 1))

\* A balanced tree; a tree whose levels change at x.
Tree(t, H, sub, ht, rk) == Shape(t, H, sub, rk) /\ Levels(t, H, ht, Null, 0, 0)

\* A tree in the middle of an operation: the balances above x do not know of e yet.
Pending(t, H, sub, ht, rk, x, c, e) == Shape(t, H, sub, rk) /\ Levels(t, H, ht, x, c, e)

\* In a tree the levels above a node are higher.
LEMMA TreeLevels ==
  ASSUME NEW t, NEW H, NEW sub, NEW ht, NEW rk, Tree(t, H, sub, ht, rk), NEW y \in H
  PROVE  /\ Level(t, ht, y, ht[Child(t, y, 0)], ht[Child(t, y, 1)])
         /\ \A d \in {0, 1} : ht[Child(t, y, d)] \in Nat /\ ht[Child(t, y, d)] < ht[y]
         /\ ht[y] \in Nat /\ Child(t, y, 0) \in Slots /\ Child(t, y, 1) \in Slots
<1>1. y # Null /\ y \in NodeIds /\ t \in AnyTree
  BY Names DEF Tree, Shape, Linked
<1>2. \A d \in {0, 1} : Child(t, y, d) \in Slots
  BY <1>1, Fields
<1>3. \A d \in {0, 1} : ht[Child(t, y, d)] \in Nat
  BY <1>2 DEF Tree, Levels
<1>4. \A d \in {0, 1} : Depth(t, ht, Null, 0, 0, y, d) = ht[Child(t, y, d)]
  BY <1>1, <1>3 DEF Depth
<1>5. Level(t, ht, y, ht[Child(t, y, 0)], ht[Child(t, y, 1)])
  BY <1>4 DEF Tree, Levels
<1>6. ASSUME NEW d \in {0, 1} PROVE ht[Child(t, y, d)] < ht[y]
  <2>1. d = 0 \/ d = 1
    OBVIOUS
  <2>2. ht[Child(t, y, 0)] \in Nat /\ ht[Child(t, y, 1)] \in Nat
    BY <1>3
  <2>3. ht[Child(t, y, 0)] < ht[y] /\ ht[Child(t, y, 1)] < ht[y]
    BY <2>2, <1>5 DEF Level, Larger
  <2>. QED BY <2>1, <2>3
<1>. QED BY <1>1, <1>2, <1>3, <1>5, <1>6, Names DEF Tree, Levels
-----------------------------------------------------------------------------
(***************************************************************************)
(* Rotations.                                                              *)
(***************************************************************************)
\* The links after the child on side l of x became the parent of x.
Turned(a, t, x, l) ==
  LET ch == Child(t, x, l)
      in == Child(t, ch, 1 - l)
      p  == Parent(t, x)
      w  == Which(t, x)
  IN  /\ a \in AnyTree /\ a.root = IF p = Null THEN ch ELSE t.root
      /\ \A y \in NodeIds :
           /\ Parent(a, y) = IF y = x THEN ch ELSE IF y = ch THEN p
                             ELSE IF y = in THEN x ELSE Parent(t, y)
           /\ Which(a, y) = IF y = x THEN 1 - l ELSE IF y = ch THEN w
                            ELSE IF y = in THEN l ELSE Which(t, y)
           /\ \A d \in {0, 1} :
                Child(a, y, d) = IF y = x /\ d = l THEN in ELSE IF y = ch /\ d = 1 - l THEN x
                                 ELSE IF y = p /\ d = w THEN ch ELSE Child(t, y, d)

\* What is below the nodes then.
SubTurned(t, sub, x, l) ==
  [y \in Slots |->
     IF y = x THEN {x} \cup sub[Child(t, Child(t, x, l), 1 - l)] \cup sub[Child(t, x, 1 - l)]
     ELSE IF y = Child(t, x, l) THEN sub[x] ELSE sub[y]]

\* The nodes that a rotation touches are distinct.
Around(t, H, x, l) ==
  LET ch == Child(t, x, l)
      in == Child(t, ch, 1 - l)
      p  == Parent(t, x)
      w  == Which(t, x)
  IN  /\ x \in H /\ ch \in H /\ x # ch /\ in \in H \cup {Null} /\ in # x /\ in # ch
      /\ p \in H \cup {Null} /\ p # x /\ p # ch /\ (p = in => p = Null)
      /\ w \in {0, 1} /\ l \in {0, 1} /\ 1 - l \in {0, 1}
      /\ p # Null => Child(t, p, w) = x
      /\ p = Null <=> x = t.root
      /\ Child(t, x, 1 - l) \in H \cup {Null}
      /\ Child(t, x, 1 - l) # x /\ Child(t, x, 1 - l) # ch /\ (Child(t, x, 1 - l) = in => in = Null)
      /\ Child(t, ch, l) \in H \cup {Null}
      /\ Child(t, ch, l) # x /\ Child(t, ch, l) # ch /\ (Child(t, ch, l) = in => in = Null)
      /\ H \subseteq NodeIds /\ Null \notin NodeIds /\ Null \notin H

\* They are met wherever x has a child on side l.
LEMMA AroundHolds ==
  ASSUME NEW t, NEW H, NEW sub, NEW rk, Shape(t, H, sub, rk), NEW x \in H, NEW l \in {0, 1},
         Child(t, x, l) # Null
  PROVE  Around(t, H, x, l)
<1> DEFINE ch == Child(t, x, l)
           in == Child(t, ch, 1 - l)
           p == Parent(t, x)
           w == Which(t, x)
<1>0. Linked(t, H) /\ t \in AnyTree /\ H \subseteq NodeIds /\ Null \notin NodeIds /\ x \in NodeIds
      /\ 1 - l \in {0, 1} /\ sub[Null] = {}
  BY Names DEF Shape, Linked, Ordered
<1>1. /\ x \in sub[x] /\ ch \in H \cup {Null} /\ x \notin sub[ch] /\ ch \in sub[ch]
      /\ \A y \in sub[ch] : y \notin sub[Child(t, x, 1 - l)]
  BY Sides
<1>2. ch \in H
  BY <1>1
<1>3. /\ Child(t, x, 1 - l) \in H \cup {Null} /\ x \notin sub[Child(t, x, 1 - l)]
      /\ Child(t, x, 1 - l) # Null => Child(t, x, 1 - l) \in sub[Child(t, x, 1 - l)]
  BY <1>0, Sides
<1>4. /\ in \in H \cup {Null} /\ ch \notin sub[in] /\ (in # Null => in \in sub[in])
      /\ sub[in] \subseteq sub[ch] /\ sub[Child(t, ch, l)] \subseteq sub[ch]
      /\ Child(t, ch, l) \in H \cup {Null} /\ ch \notin sub[Child(t, ch, l)]
      /\ Child(t, ch, l) # Null => Child(t, ch, l) \in sub[Child(t, ch, l)]
      /\ \A y \in sub[in] : y \notin sub[Child(t, ch, l)]
  <2>1. /\ in \in H \cup {Null} /\ ch \notin sub[in] /\ (in # Null => in \in sub[in])
        /\ sub[in] \subseteq sub[ch]
    BY <1>0, <1>2, Sides
  <2>2. /\ sub[Child(t, ch, l)] \subseteq sub[ch]
        /\ Child(t, ch, l) \in H \cup {Null} /\ ch \notin sub[Child(t, ch, l)]
        /\ Child(t, ch, l) # Null => Child(t, ch, l) \in sub[Child(t, ch, l)]
        /\ \A y \in sub[Child(t, ch, l)] : y \notin sub[in]
    BY <1>0, <1>2, Sides
  <2>. QED BY <2>1, <2>2
<1>5. /\ p \in H \cup {Null} /\ w \in {0, 1} /\ (p # Null => Child(t, p, w) = x) /\ (p = Null <=> x = t.root)
  <2>1. w \in {0, 1}
    BY <1>0, Fields
  <2>2. p \in H \cup {Null} /\ (p = Null <=> x = t.root)
    BY <1>0 DEF Linked
  <2>3. p # Null => Child(t, p, w) = x
    BY <1>0, <2>1, <2>2 DEF Linked
  <2>. QED BY <2>1, <2>2, <2>3
<1>6. p # Null => x \in sub[p] /\ p \notin sub[x] 
  <2>1. SUFFICES ASSUME p # Null PROVE x \in sub[p] /\ p \notin sub[x]
    OBVIOUS
  <2>2. p \in H /\ Child(t, p, w) = x
    BY <1>5, <2>1
  <2>3. p \notin sub[Child(t, p, w)] /\ sub[Child(t, p, w)] \subseteq sub[p]
    BY <2>2, <1>5, Sides
  <2>. QED BY <2>2, <2>3, <1>1
<1>7. p # x /\ p # ch /\ (p = in => p = Null)
  <2>1. x \in sub[x] /\ sub[ch] \subseteq sub[x]
    BY Sides
  <2>. QED BY <1>1, <1>4, <1>5, <1>6, <2>1, <1>0
<1>8. x # ch /\ in # x /\ in # ch
  BY <1>0, <1>1, <1>2, <1>4
<1>. HIDE DEF ch, in, p, w
<1>9. /\ Child(t, x, 1 - l) # x /\ Child(t, x, 1 - l) # ch /\ (Child(t, x, 1 - l) = in => in = Null)
      /\ Child(t, ch, l) # x /\ Child(t, ch, l) # ch /\ (Child(t, ch, l) = in => in = Null)
  BY <1>0, <1>1, <1>2, <1>3, <1>4
<1>. QED BY <1>0, <1>1, <1>2, <1>3, <1>4, <1>5, <1>7, <1>8, <1>9 DEF Around, ch, in, p, w

\* A rotation keeps the links right.
LEMMA TurnLinked ==
  ASSUME NEW t, NEW H, NEW x, NEW l, Linked(t, H), Around(t, H, x, l), NEW a, Turned(a, t, x, l)
  PROVE  Linked(a, H)
<1> DEFINE ch == Child(t, x, l)
           in == Child(t, ch, 1 - l)
           p == Parent(t, x)
           w == Which(t, x)
<1>1. /\ x \in H /\ ch \in H /\ x # ch /\ in \in H \cup {Null} /\ in # x /\ in # ch
      /\ p \in H \cup {Null} /\ p # x /\ p # ch /\ (p = in => p = Null)
      /\ w \in {0, 1} /\ l \in {0, 1} /\ 1 - l \in {0, 1}
      /\ p # Null => Child(t, p, w) = x
      /\ p = Null <=> x = t.root
      /\ H \subseteq NodeIds /\ Null \notin NodeIds /\ Null \notin H
  BY DEF Around
<1>2. /\ a \in AnyTree /\ a.root = IF p = Null THEN ch ELSE t.root
      /\ \A y \in H :
           /\ Parent(a, y) = IF y = x THEN ch ELSE IF y = ch THEN p
                             ELSE IF y = in THEN x ELSE Parent(t, y)
           /\ Which(a, y) = IF y = x THEN 1 - l ELSE IF y = ch THEN w
                            ELSE IF y = in THEN l ELSE Which(t, y)
           /\ \A d \in {0, 1} :
                Child(a, y, d) = IF y = x /\ d = l THEN in ELSE IF y = ch /\ d = 1 - l THEN x
                                 ELSE IF y = p /\ d = w THEN ch ELSE Child(t, y, d)
  BY <1>1 DEF Turned
<1>3. /\ t.root \in H \cup {Null} /\ (t.root = Null => H = {})
      /\ \A y \in H : Parent(t, y) \in H \cup {Null} /\ (Parent(t, y) = Null <=> y = t.root)
      /\ \A y \in H : \A d \in {0, 1} : Child(t, y, d) \in H \cup {Null}
      /\ \A y, z \in H : \A d \in {0, 1} :
           Child(t, y, d) = z <=> Parent(t, z) = y /\ Which(t, z) = d
  BY DEF Linked
<1>4. /\ Parent(t, ch) = x /\ Which(t, ch) = l
      /\ in # Null => Parent(t, in) = ch /\ Which(t, in) = 1 - l
  BY <1>1, <1>3
<1>. HIDE DEF ch, in, p, w
<1>5. a.root \in H \cup {Null} /\ (a.root = Null => H = {})
  BY <1>1, <1>2, <1>3
<1>6. ASSUME NEW y \in H PROVE Parent(a, y) \in H \cup {Null} /\ (Parent(a, y) = Null <=> y = a.root)
  BY <1>1, <1>2, <1>3, <1>4
<1>7. ASSUME NEW y \in H, NEW d \in {0, 1} PROVE Child(a, y, d) \in H \cup {Null}
  BY <1>1, <1>2, <1>3
<1>8. ASSUME NEW y \in H, NEW z \in H, NEW d \in {0, 1}
      PROVE  Child(a, y, d) = z <=> Parent(a, z) = y /\ Which(a, z) = d
  <2>0. Child(t, y, d) = z <=> Parent(t, z) = y /\ Which(t, z) = d
    BY <1>3
  <2>1. l \in {0, 1} /\ d \in {0, 1} /\ (d # l <=> d = 1 - l) /\ l # 1 - l
    BY <1>1
  <2>2. Child(t, y, d) = x <=> p = y /\ w = d
    BY <1>1, <1>3 DEF p, w
  <2>3. Child(t, y, d) = ch <=> y = x /\ d = l
    BY <1>1, <1>3, <1>4
  <2>4. in # Null => (Child(t, y, d) = in <=> y = ch /\ d = 1 - l)
    BY <1>1, <1>3, <1>4
  <2>11. y = ch /\ d = 1 - l => Child(t, y, d) = in
    BY DEF in
  <2>9. Child(a, y, d) = IF y = x /\ d = l THEN in ELSE IF y = ch /\ d = 1 - l THEN x
                         ELSE IF y = p /\ d = w THEN ch ELSE Child(t, y, d)
    BY <1>2
  <2>10. /\ Parent(a, z) = IF z = x THEN ch ELSE IF z = ch THEN p
                           ELSE IF z = in THEN x ELSE Parent(t, z)
         /\ Which(a, z) = IF z = x THEN 1 - l ELSE IF z = ch THEN w
                          ELSE IF z = in THEN l ELSE Which(t, z)
    BY <1>2
  <2>5. CASE z = x
    BY <2>5, <2>0, <2>1, <2>2, <2>3, <2>4, <2>9, <2>10, <1>1
  <2>6. CASE z = ch
    BY <2>6, <2>0, <2>1, <2>2, <2>3, <2>4, <2>9, <2>10, <1>1
  <2>7. CASE z = in
    BY <2>7, <2>0, <2>1, <2>2, <2>3, <2>4, <2>9, <2>10, <1>1
  <2>8. CASE z # x /\ z # ch /\ z # in
    <3>1. Parent(a, z) = Parent(t, z) /\ Which(a, z) = Which(t, z)
      BY <2>8, <2>10
    <3>2. y = x /\ d = l => Child(t, y, d) # z
      BY <2>8, <2>3
    <3>3. y = ch /\ d = 1 - l => Child(t, y, d) # z
      BY <2>8, <2>11
    <3>4. y = p /\ d = w => Child(t, y, d) # z
      BY <2>8, <2>2
    <3>5. Child(a, y, d) = z <=> Child(t, y, d) = z
      BY <2>8, <3>2, <3>3, <3>4, <2>9
    <3>. QED BY <3>1, <3>5, <2>0
  <2>. QED BY <2>5, <2>6, <2>7, <2>8
<1>. QED BY <1>1, <1>2, <1>5, <1>6, <1>7, <1>8 DEF Linked

\* And it keeps the order.
LEMMA TurnShape ==
  ASSUME NEW t, NEW H, NEW sub, NEW rk, Shape(t, H, sub, rk), NEW x \in H, NEW l \in {0, 1},
         Child(t, x, l) # Null, NEW a, Turned(a, t, x, l)
  PROVE  Shape(a, H, SubTurned(t, sub, x, l), rk)
<1> DEFINE ch == Child(t, x, l)
           in == Child(t, ch, 1 - l)
           oth == Child(t, x, 1 - l)
           far == Child(t, ch, l)
           p == Parent(t, x)
           w == Which(t, x)
           new == SubTurned(t, sub, x, l)
<1>0. Around(t, H, x, l)
  BY AroundHolds
<1>1. /\ x \in H /\ ch \in H /\ x # ch /\ in \in H \cup {Null} /\ in # x /\ in # ch
      /\ p \in H \cup {Null} /\ p # x /\ p # ch
      /\ w \in {0, 1} /\ l \in {0, 1} /\ 1 - l \in {0, 1} /\ l # 1 - l
      /\ p # Null => Child(t, p, w) = x
      /\ p = Null <=> x = t.root
      /\ oth \in H \cup {Null} /\ oth # x /\ oth # ch /\ far \in H \cup {Null} /\ far # x /\ far # ch
      /\ H \subseteq NodeIds /\ Null \notin NodeIds /\ Null \notin H /\ Null \in Slots /\ H \subseteq Slots
  BY <1>0, Names DEF Around
<1>2. Linked(a, H) /\ Linked(t, H)
  BY <1>0, TurnLinked DEF Shape
<1>3. /\ sub \in [Slots -> SUBSET NodeIds] /\ rk \in [NodeIds -> Int]
      /\ sub[Null] = {} /\ sub[t.root] = H
      /\ \A y \in H : sub[y] \subseteq H
      /\ \A y \in H : sub[y] = {y} \cup sub[Child(t, y, 0)] \cup sub[Child(t, y, 1)]
      /\ \A y \in H : \A d \in {0, 1} : \A z \in sub[Child(t, y, d)] : Side(rk, z, y, d)
  BY DEF Shape, Ordered
<1>4. /\ a.root = IF p = Null THEN ch ELSE t.root
      /\ \A y \in H : \A d \in {0, 1} :
           Child(a, y, d) = IF y = x /\ d = l THEN in ELSE IF y = ch /\ d = 1 - l THEN x
                            ELSE IF y = p /\ d = w THEN ch ELSE Child(t, y, d)
  BY <1>1 DEF Turned
<1>5. /\ new[x] = {x} \cup sub[in] \cup sub[oth] /\ new[ch] = sub[x]
      /\ \A y \in Slots : y # x /\ y # ch => new[y] = sub[y]
  BY <1>1 DEF SubTurned
<1>6. /\ sub[x] = {x} \cup sub[ch] \cup sub[oth] /\ sub[ch] = {ch} \cup sub[far] \cup sub[in]
  <2>1. sub[x] = {x} \cup sub[ch] \cup sub[oth]
    BY Sides
  <2>2. sub[ch] = {ch} \cup sub[far] \cup sub[in]
    BY <1>1, Sides
  <2>. QED BY <2>1, <2>2
<1>7. new \in [Slots -> SUBSET NodeIds]
  <2>1. {x} \cup sub[in] \cup sub[oth] \subseteq NodeIds
    BY <1>1, <1>3
  <2>2. sub[x] \in SUBSET NodeIds
    BY <1>1, <1>3
  <2>. QED BY <2>1, <2>2, <1>3 DEF SubTurned
<1>8. \A y \in H : \A d \in {0, 1} : y # x /\ y # ch => new[Child(a, y, d)] = sub[Child(t, y, d)]
  <2>1. ASSUME NEW y \in H, NEW d \in {0, 1}, y # x, y # ch
        PROVE  new[Child(a, y, d)] = sub[Child(t, y, d)]
    <3>1. Child(t, y, d) \in H \cup {Null}
      BY <1>2 DEF Linked
    <3>2. Child(t, y, d) = ch => y = x
      BY <1>1, <1>2 DEF Linked
    <3>3. Child(t, y, d) = x => y = p /\ d = w
      BY <1>1, <1>2 DEF Linked
    <3>4. CASE y = p /\ d = w
      <4>1. Child(a, y, d) = ch /\ Child(t, y, d) = x
        BY <1>1, <1>4, <3>4, <2>1
      <4>. QED BY <4>1, <1>5
    <3>5. CASE ~ (y = p /\ d = w)
      <4>1. Child(a, y, d) = Child(t, y, d)
        BY <1>4, <3>5, <2>1
      <4>. QED BY <4>1, <1>1, <1>5, <3>1, <3>2, <3>3, <3>5, <2>1
    <3>. QED BY <3>4, <3>5
  <2>. QED BY <2>1
<1>9. /\ Child(a, x, l) = in /\ Child(a, x, 1 - l) = oth /\ Child(a, ch, 1 - l) = x /\ Child(a, ch, l) = far
  BY <1>1, <1>4
<1>10. new[Null] = {} /\ new[a.root] = H
  <2>1. new[Null] = {}
    BY <1>1, <1>3, <1>5
  <2>2. CASE p = Null
    BY <2>2, <1>1, <1>3, <1>4, <1>5
  <2>3. CASE p # Null
    <3>1. t.root # x /\ a.root = t.root /\ t.root \in H
      BY <2>3, <1>1, <1>2, <1>4 DEF Linked
    <3>2. t.root # ch
      <4>1. Parent(t, ch) = x
        BY <1>1, <1>2 DEF Linked
      <4>. QED BY <4>1, <1>1, <1>2 DEF Linked
    <3>. QED BY <3>1, <3>2, <1>1, <1>3, <1>5
  <2>. QED BY <2>1, <2>2, <2>3
<1>11. \A y \in H : new[y] \subseteq H
  <2>1. sub[x] \subseteq H
    BY <1>3
  <2>2. new[x] \subseteq H /\ new[ch] \subseteq H
    BY <2>1, <1>5, <1>6
  <2>. QED BY <2>2, <1>1, <1>3, <1>5
<1>12. /\ new[x] = {x} \cup new[Child(a, x, l)] \cup new[Child(a, x, 1 - l)]
       /\ new[ch] = {ch} \cup new[Child(a, ch, l)] \cup new[Child(a, ch, 1 - l)]
  <2>1. new[in] = sub[in] /\ new[oth] = sub[oth] /\ new[far] = sub[far]
    BY <1>1, <1>5
  <2>. QED BY <2>1, <1>5, <1>6, <1>9
<1>13. ASSUME NEW y \in H PROVE new[y] = {y} \cup new[Child(a, y, 0)] \cup new[Child(a, y, 1)]
  <2>1. CASE y = x \/ y = ch
    <3>1. l = 0 \/ l = 1
      OBVIOUS
    <3>. HIDE DEF new, ch
    <3>. QED BY <3>1, <2>1, <1>12
  <2>2. CASE y # x /\ y # ch
    BY <2>2, <1>1, <1>3, <1>5, <1>8
  <2>. QED BY <2>1, <2>2
<1>14. ASSUME NEW y \in H, NEW d \in {0, 1}, NEW z \in new[Child(a, y, d)] PROVE Side(rk, z, y, d)
  <2>1. CASE y # x /\ y # ch
    BY <2>1, <1>8, <1>3
  <2>2. CASE y = x
    <3>1. z \in sub[Child(t, x, d)]
      <4>1. CASE d = l
        BY <4>1, <2>2, <1>1, <1>5, <1>6, <1>9
      <4>2. CASE d = 1 - l
        BY <4>2, <2>2, <1>1, <1>5, <1>9
      <4>. QED BY <4>1, <4>2
    <3>. QED BY <3>1, <2>2, <1>3
  <2>3. CASE y = ch
    <3>1. CASE d = l
      <4>1. z \in sub[Child(t, ch, l)]
        BY <3>1, <2>3, <1>1, <1>5, <1>9
      <4>. QED BY <4>1, <3>1, <2>3, <1>3
    <3>2. CASE d = 1 - l
      <4>1. z \in {x} \cup sub[in] \cup sub[oth]
        BY <3>2, <2>3, <1>1, <1>5, <1>9
      <4>2. CASE z \in sub[in]
        BY <4>2, <3>2, <2>3, <1>1, <1>3
      <4>3. CASE z \in {x} \cup sub[oth]
        <5>1. Side(rk, ch, x, l)
          <6>1. ch \in sub[ch]
            BY <1>6
          <6>. QED BY <6>1, <1>3
        <5>2. z = x \/ Side(rk, z, x, 1 - l)
          BY <4>3, <1>1, <1>3
        <5>3. z \in NodeIds /\ x \in NodeIds /\ ch \in NodeIds
          BY <4>3, <1>1, <1>3
        <5>4. rk[z] \in Int /\ rk[x] \in Int /\ rk[ch] \in Int
          BY <5>3, <1>3
        <5>5. l = 0 \/ l = 1
          OBVIOUS
        <5>6. Side(rk, z, ch, 1 - l)
          BY <5>1, <5>2, <5>4, <5>5 DEF Side
        <5>. QED BY <5>6, <3>2, <2>3
      <4>. QED BY <4>1, <4>2, <4>3
    <3>. QED BY <3>1, <3>2
  <2>. QED BY <2>1, <2>2, <2>3
<1>15. rk \in [NodeIds -> Int]
  BY <1>3
<1>. HIDE DEF new
<1>. QED BY <1>2, <1>7, <1>10, <1>11, <1>13, <1>14, <1>15 DEF Shape, Ordered, new

\* What RotateOnce does to the links and the balances.
LEMMA OnceTurns ==
  ASSUME NEW t \in AnyTree, NEW H, NEW x, NEW l, Around(t, H, x, l), NEW heavy \in Int
  PROVE  LET r  == RotateOnce(t, x, l, heavy)
             ch == Child(t, x, l)
             cb == Bal(t, ch) - heavy
         IN  /\ Turned(r.t, t, x, l) /\ r.t.num = t.num /\ r.shorter = (cb = 0)
             /\ \A y \in NodeIds :
                  Bal(r.t, y) = IF y = ch THEN cb ELSE IF y = x THEN -cb ELSE Bal(t, y)
<1> DEFINE ch == Child(t, x, l)
           in == Child(t, ch, 1 - l)
           p == Parent(t, x)
           w == Which(t, x)
           cb == Bal(t, ch) - heavy
           t1 == Attach(t, x, l, in)
           t2 == Attach(t1, ch, 1 - l, x)
           t3 == Attach(t2, p, w, ch)
           t4 == SetBal(t3, x, -cb)
           t5 == SetBal(t4, ch, cb)
<1>1. /\ x \in NodeIds /\ ch \in NodeIds /\ x # ch /\ in \in Slots /\ in # x /\ in # ch
      /\ p \in Slots /\ p # x /\ p # ch
      /\ w \in {0, 1} /\ l \in {0, 1} /\ 1 - l \in {0, 1}
      /\ x # Null /\ ch # Null /\ x \in Slots /\ ch \in Slots /\ Null \notin NodeIds
  BY Names DEF Around
<1>2. cb \in Int /\ -cb \in Int
  BY <1>1, Fields
<1>3. RotateOnce(t, x, l, heavy) = [t |-> t5, shorter |-> cb = 0]
  BY DEF RotateOnce
<1>4. RotateOnce(t, x, l, heavy).t = t5 /\ RotateOnce(t, x, l, heavy).shorter = (cb = 0)
  BY <1>3
<1>. HIDE DEF ch, in, p, w, cb
<1>5. Attached(t1, t, x, l, in) /\ t1 \in AnyTree
  <2>1. Attached(t1, t, x, l, in)
    BY <1>1, AttachIs
  <2>. QED BY <2>1 DEF Attached
<1>. HIDE DEF t1
<1>6. Attached(t2, t1, ch, 1 - l, x) /\ t2 \in AnyTree
  <2>1. Attached(t2, t1, ch, 1 - l, x)
    BY <1>1, <1>5, AttachIs
  <2>. QED BY <2>1 DEF Attached
<1>. HIDE DEF t2
<1>7. Attached(t3, t2, p, w, ch) /\ t3 \in AnyTree
  <2>1. Attached(t3, t2, p, w, ch)
    BY <1>1, <1>6, AttachIs
  <2>. QED BY <2>1 DEF Attached
<1>. HIDE DEF t3
<1>8. Balanced(t4, t3, x, -cb) /\ t4 \in AnyTree
  <2>1. Balanced(t4, t3, x, -cb)
    BY <1>1, <1>2, <1>7, SetBalIs
  <2>. QED BY <2>1 DEF Balanced
<1>. HIDE DEF t4
<1>9. Balanced(t5, t4, ch, cb) /\ t5 \in AnyTree
  <2>1. Balanced(t5, t4, ch, cb)
    BY <1>1, <1>2, <1>8, SetBalIs
  <2>. QED BY <2>1 DEF Balanced
<1>. HIDE DEF t5
<1>10. t5.num = t.num /\ t5.root = (IF p = Null THEN ch ELSE t.root)
  BY <1>1, <1>5, <1>6, <1>7, <1>8, <1>9 DEF Attached, Balanced
<1>11. ASSUME NEW y \in NodeIds
       PROVE /\ Parent(t5, y) = IF y = x THEN ch ELSE IF y = ch THEN p
                                ELSE IF y = in THEN x ELSE Parent(t, y)
             /\ Which(t5, y) = IF y = x THEN 1 - l ELSE IF y = ch THEN w
                               ELSE IF y = in THEN l ELSE Which(t, y)
             /\ Bal(t5, y) = IF y = ch THEN cb ELSE IF y = x THEN -cb ELSE Bal(t, y)
  BY <1>1, <1>5, <1>6, <1>7, <1>8, <1>9 DEF Attached, Balanced
<1>12. ASSUME NEW y \in NodeIds, NEW d \in {0, 1}
       PROVE Child(t5, y, d) = IF y = x /\ d = l THEN in ELSE IF y = ch /\ d = 1 - l THEN x
                               ELSE IF y = p /\ d = w THEN ch ELSE Child(t, y, d)
  BY <1>1, <1>5, <1>6, <1>7, <1>8, <1>9 DEF Attached, Balanced
<1>13. Turned(t5, t, x, l)
  BY <1>9, <1>10, <1>11, <1>12 DEF Turned, ch, in, p, w
<1>14. \A y \in NodeIds : Bal(t5, y) = IF y = ch THEN cb ELSE IF y = x THEN -cb ELSE Bal(t, y)
  BY <1>11
<1>. QED BY <1>4, <1>10, <1>13, <1>14 DEF ch, cb

\* What RotateTwice does, m being t with the child turned.
TwiceTurned(r, t, m, x, l, heavy) ==
  LET ch == Child(t, x, l)
      gc == Child(t, ch, 1 - l)
  IN  /\ Turned(r.t, m, x, l) /\ r.t.num = t.num /\ r.shorter = TRUE
      /\ \A y \in NodeIds :
           Bal(r.t, y) = IF y = gc THEN 0
                         ELSE IF y = x THEN (IF Bal(t, gc) = heavy THEN -heavy ELSE 0)
                         ELSE IF y = ch THEN (IF Bal(t, gc) = -heavy THEN heavy ELSE 0)
                         ELSE Bal(t, y)

\* RotateTwice turns the child, then the node.
LEMMA TwiceTurns ==
  ASSUME NEW t \in AnyTree, NEW H, NEW x, NEW l, Around(t, H, x, l), NEW heavy \in Int,
         Around(t, H, Child(t, x, l), 1 - l), Linked(t, H),
         NEW m, Turned(m, t, Child(t, x, l), 1 - l)
  PROVE  TwiceTurned(RotateTwice(t, x, l, heavy), t, m, x, l, heavy)
<1> DEFINE ch == Child(t, x, l)
           gc == Child(t, ch, 1 - l)
           gl == Child(t, gc, l)
           gr == Child(t, gc, 1 - l)
           p == Parent(t, x)
           w == Which(t, x)
           b6 == IF Bal(t, gc) = -heavy THEN heavy ELSE 0
           b7 == IF Bal(t, gc) = heavy THEN -heavy ELSE 0
           t1 == Attach(t, x, l, gr)
           t2 == Attach(t1, ch, 1 - l, gl)
           t3 == Attach(t2, gc, l, ch)
           t4 == Attach(t3, gc, 1 - l, x)
           t5 == Attach(t4, p, w, gc)
           t6 == SetBal(t5, ch, b6)
           t7 == SetBal(t6, x, b7)
           t8 == SetBal(t7, gc, 0)
<1>1. /\ x \in NodeIds /\ ch \in NodeIds /\ gc \in NodeIds /\ x # ch /\ gc # x /\ gc # ch
      /\ p \in Slots /\ p # x /\ p # ch /\ p # gc
      /\ w \in {0, 1} /\ l \in {0, 1} /\ 1 - l \in {0, 1} /\ l # 1 - l /\ 1 - (1 - l) = l
      /\ x # Null /\ ch # Null /\ gc # Null
      /\ x \in Slots /\ ch \in Slots /\ gc \in Slots /\ Null \notin NodeIds
  BY Names DEF Around
<1>2. /\ gl \in Slots /\ gr \in Slots /\ gl # ch /\ gl # gc /\ gr # ch /\ gr # gc
      /\ gl = gr => gl = Null
      /\ Parent(t, ch) = x /\ Which(t, ch) = l
  <2>1. Around(t, H, ch, 1 - l)
    OBVIOUS
  <2>2. /\ gl \in H \cup {Null} /\ gl # ch /\ gl # gc
        /\ gr \in H \cup {Null} /\ gr # ch /\ gr # gc /\ (gr = gl => gl = Null)
    BY <2>1, <1>1 DEF Around
  <2>3. x \in H /\ ch \in H /\ H \subseteq Slots
    BY Names DEF Around
  <2>4. Parent(t, ch) = x /\ Which(t, ch) = l
    BY <2>3, <1>1 DEF Linked
  <2>. QED BY <2>2, <2>3, <2>4, Names
<1>3. gl # x /\ gr # x
  <2>1. x \in H /\ gc \in H
    BY <1>1 DEF Around
  <2>2. gl = x => Parent(t, x) = gc
    BY <1>1, <2>1 DEF Linked
  <2>3. gr = x => Parent(t, x) = gc
    BY <1>1, <2>1 DEF Linked
  <2>. QED BY <1>1, <2>2, <2>3
<1>4. b6 \in Int /\ b7 \in Int
  OBVIOUS
<1>5. RotateTwice(t, x, l, heavy) = [t |-> t8, shorter |-> TRUE]
  BY DEF RotateTwice
<1>6. RotateTwice(t, x, l, heavy).t = t8 /\ RotateTwice(t, x, l, heavy).shorter = TRUE
  BY <1>5
<1>7. /\ m \in AnyTree /\ m.root = t.root
      /\ \A y \in NodeIds :
           /\ Parent(m, y) = IF y = ch THEN gc ELSE IF y = gc THEN x
                             ELSE IF y = gl THEN ch ELSE Parent(t, y)
           /\ Which(m, y) = IF y = ch THEN l ELSE IF y = gc THEN l
                             ELSE IF y = gl THEN 1 - l ELSE Which(t, y)
           /\ \A d \in {0, 1} :
                Child(m, y, d) = IF y = ch /\ d = 1 - l THEN gl ELSE IF y = gc /\ d = l THEN ch
                                 ELSE IF y = x /\ d = l THEN gc ELSE Child(t, y, d)
  <2>. HIDE DEF gl, gr, gc, ch
  <2>1. Turned(m, t, ch, 1 - l)
    BY DEF ch
  <2>2. Child(t, ch, 1 - l) = gc /\ Child(t, gc, 1 - (1 - l)) = gl
    BY <1>1 DEF gc, gl
  <2>. QED BY <2>1, <2>2, <1>1, <1>2 DEF Turned
<1>. HIDE DEF ch, gc, gl, gr, p, w, b6, b7
<1>8. /\ Child(m, x, l) = gc /\ Child(m, gc, 1 - l) = gr /\ Parent(m, x) = p /\ Which(m, x) = w
  BY <1>1, <1>2, <1>3, <1>7 DEF gr, p, w
<1>9. Attached(t1, t, x, l, gr) /\ t1 \in AnyTree
  <2>1. Attached(t1, t, x, l, gr)
    BY <1>1, <1>2, AttachIs
  <2>. QED BY <2>1 DEF Attached
<1>. HIDE DEF t1
<1>10. Attached(t2, t1, ch, 1 - l, gl) /\ t2 \in AnyTree
  <2>1. Attached(t2, t1, ch, 1 - l, gl)
    BY <1>1, <1>2, <1>9, AttachIs
  <2>. QED BY <2>1 DEF Attached
<1>. HIDE DEF t2
<1>11. Attached(t3, t2, gc, l, ch) /\ t3 \in AnyTree
  <2>1. Attached(t3, t2, gc, l, ch)
    BY <1>1, <1>10, AttachIs
  <2>. QED BY <2>1 DEF Attached
<1>. HIDE DEF t3
<1>12. Attached(t4, t3, gc, 1 - l, x) /\ t4 \in AnyTree
  <2>1. Attached(t4, t3, gc, 1 - l, x)
    BY <1>1, <1>11, AttachIs
  <2>. QED BY <2>1 DEF Attached
<1>. HIDE DEF t4
<1>13. Attached(t5, t4, p, w, gc) /\ t5 \in AnyTree
  <2>1. Attached(t5, t4, p, w, gc)
    BY <1>1, <1>12, AttachIs
  <2>. QED BY <2>1 DEF Attached
<1>. HIDE DEF t5
<1>14. Balanced(t6, t5, ch, b6) /\ t6 \in AnyTree
  <2>1. Balanced(t6, t5, ch, b6)
    BY <1>1, <1>4, <1>13, SetBalIs
  <2>. QED BY <2>1 DEF Balanced
<1>. HIDE DEF t6
<1>15. Balanced(t7, t6, x, b7) /\ t7 \in AnyTree
  <2>1. Balanced(t7, t6, x, b7)
    BY <1>1, <1>4, <1>14, SetBalIs
  <2>. QED BY <2>1 DEF Balanced
<1>. HIDE DEF t7
<1>16. Balanced(t8, t7, gc, 0) /\ t8 \in AnyTree
  <2>1. Balanced(t8, t7, gc, 0)
    BY <1>1, <1>4, <1>15, SetBalIs
  <2>. QED BY <2>1 DEF Balanced
<1>. HIDE DEF t8
<1>17. t8.num = t.num /\ t8.root = (IF p = Null THEN gc ELSE m.root)
  BY <1>1, <1>7, <1>9, <1>10, <1>11, <1>12, <1>13, <1>14, <1>15, <1>16 DEF Attached, Balanced
<1>18. ASSUME NEW y \in NodeIds
       PROVE /\ Parent(t8, y) = IF y = x THEN gc ELSE IF y = gc THEN p
                                ELSE IF y = gr THEN x ELSE Parent(m, y)
             /\ Which(t8, y) = IF y = x THEN 1 - l ELSE IF y = gc THEN w
                               ELSE IF y = gr THEN l ELSE Which(m, y)
             /\ Bal(t8, y) = IF y = gc THEN 0 ELSE IF y = x THEN b7 ELSE IF y = ch THEN b6 ELSE Bal(t, y)
  <2>1. Parent(t8, y) = IF y = gc THEN p ELSE IF y = x THEN gc ELSE IF y = ch THEN gc
                        ELSE IF y = gl THEN ch ELSE IF y = gr THEN x ELSE Parent(t, y)
    BY <1>1, <1>9, <1>10, <1>11, <1>12, <1>13, <1>14, <1>15, <1>16 DEF Attached, Balanced
  <2>2. Which(t8, y) = IF y = gc THEN w ELSE IF y = x THEN 1 - l ELSE IF y = ch THEN l
                       ELSE IF y = gl THEN 1 - l ELSE IF y = gr THEN l ELSE Which(t, y)
    BY <1>1, <1>9, <1>10, <1>11, <1>12, <1>13, <1>14, <1>15, <1>16 DEF Attached, Balanced
  <2>3. Bal(t8, y) = IF y = gc THEN 0 ELSE IF y = x THEN b7 ELSE IF y = ch THEN b6 ELSE Bal(t, y)
    BY <1>1, <1>9, <1>10, <1>11, <1>12, <1>13, <1>14, <1>15, <1>16 DEF Attached, Balanced
  <2>. QED BY <2>1, <2>2, <2>3, <1>1, <1>2, <1>3, <1>7
<1>19. ASSUME NEW y \in NodeIds, NEW d \in {0, 1}
       PROVE Child(t8, y, d) = IF y = x /\ d = l THEN gr ELSE IF y = gc /\ d = 1 - l THEN x
                               ELSE IF y = p /\ d = w THEN gc ELSE Child(m, y, d)
  <2>1. Child(t8, y, d) = IF y = p /\ d = w THEN gc ELSE IF y = gc /\ d = 1 - l THEN x
                          ELSE IF y = gc /\ d = l THEN ch ELSE IF y = ch /\ d = 1 - l THEN gl
                          ELSE IF y = x /\ d = l THEN gr ELSE Child(t, y, d)
    BY <1>1, <1>9, <1>10, <1>11, <1>12, <1>13, <1>14, <1>15, <1>16 DEF Attached, Balanced
  <2>. QED BY <2>1, <1>1, <1>2, <1>3, <1>7
<1>20. Turned(t8, m, x, l)
  BY <1>8, <1>16, <1>17, <1>18, <1>19 DEF Turned
<1>21. \A y \in NodeIds : Bal(t8, y) = IF y = gc THEN 0 ELSE IF y = x THEN b7 ELSE IF y = ch THEN b6 ELSE Bal(t, y)
  BY <1>18
<1>. QED BY <1>6, <1>17, <1>20, <1>21 DEF TwiceTurned, ch, gc, b6, b7

\* Side l of x is two levels higher than the other.
Heavy(t, H, ht, x, l) ==
  /\ ht \in [Slots -> Nat] /\ ht[Null] = 0 /\ \A y \in H : ht[y] > 0
  /\ \A y \in H : y # x => Level(t, ht, y, ht[Child(t, y, 0)], ht[Child(t, y, 1)])
  /\ ht[Child(t, x, l)] = ht[Child(t, x, 1 - l)] + 2

\* In a the subtree of x is a balanced tree with k levels.
Rises(a, t, H, sub, ht, rk, x, k) ==
  \E sub2, ht2 :
    /\ Pending(a, H, sub2, ht2, rk, Parent(t, x), Which(t, x), ht[x] - k)
    /\ \A y \in H : y \notin sub[x] => sub2[y] = sub[y]

\* The nodes that a rotation does not touch keep their levels.
LEMMA RestLevels ==
  ASSUME NEW t, NEW H, NEW K, NEW x, NEW ht, NEW a, NEW ht2, NEW p, NEW w, NEW top \in Slots,
         ht \in [Slots -> Nat], ht2 \in [Slots -> Nat], Linked(t, H), x \in H,
         \A y \in H \ K : Level(t, ht, y, ht[Child(t, y, 0)], ht[Child(t, y, 1)]),
         \A y \in H \ K : Bal(a, y) = Bal(t, y),
         \A y \in Slots \ K : ht2[y] = ht[y],
         \A y \in H \ K : \A d \in {0, 1} :
           /\ Child(a, y, d) = IF y = p /\ d = w THEN top ELSE Child(t, y, d)
           /\ Child(t, y, d) \in K => y = p /\ d = w,
         p # Null => Child(t, p, w) = x
  PROVE  LET e == ht[x] - ht2[top]
         IN  \A y \in H \ K :
               Level(a, ht2, y, Depth(a, ht2, p, w, e, y, 0), Depth(a, ht2, p, w, e, y, 1))
<1> DEFINE e == ht[x] - ht2[top]
<1>1. ASSUME NEW y \in H \ K, NEW d \in {0, 1}
      PROVE  Depth(a, ht2, p, w, e, y, d) = ht[Child(t, y, d)]
  <2>0. H \subseteq Slots /\ Null \in Slots /\ Null \notin H /\ x \in Slots
    BY Names DEF Linked
  <2>1. Child(t, y, d) \in Slots
    BY <2>0 DEF Linked
  <2>2. CASE y = p /\ d = w
    <3>1. Child(a, y, d) = top /\ Child(t, y, d) = x
      BY <2>0, <2>2
    <3>2. ht[x] \in Int /\ ht2[top] \in Int
      BY <2>0
    <3>. QED BY <2>2, <3>1, <3>2 DEF Depth
  <2>3. CASE ~ (y = p /\ d = w)
    <3>1. Child(a, y, d) = Child(t, y, d) /\ Child(t, y, d) \notin K
      BY <2>3
    <3>2. ht2[Child(t, y, d)] = ht[Child(t, y, d)] /\ ht[Child(t, y, d)] \in Nat
      BY <2>1, <3>1
    <3>. QED BY <2>3, <3>1, <3>2 DEF Depth
  <2>. QED BY <2>2, <2>3
<1>2. ASSUME NEW y \in H \ K
      PROVE  Level(a, ht2, y, Depth(a, ht2, p, w, e, y, 0), Depth(a, ht2, p, w, e, y, 1))
  <2>1. Level(t, ht, y, ht[Child(t, y, 0)], ht[Child(t, y, 1)])
    OBVIOUS
  <2>2. /\ Depth(a, ht2, p, w, e, y, 0) = ht[Child(t, y, 0)]
        /\ Depth(a, ht2, p, w, e, y, 1) = ht[Child(t, y, 1)]
    BY <1>1
  <2>3. ht2[y] = ht[y] /\ Bal(a, y) = Bal(t, y)
    BY Names DEF Linked
  <2>. HIDE DEF e
  <2>. QED BY <2>1, <2>2, <2>3 DEF Level
<1>. QED BY <1>2

\* A single rotation.
LEMMA OnceRises ==
  ASSUME NEW t, NEW H, NEW sub, NEW rk, Shape(t, H, sub, rk), NEW x \in H, NEW l \in {0, 1},
         NEW ht, Heavy(t, H, ht, x, l), NEW heavy, heavy = child2balance(l),
         Child(t, x, l) \in H, Bal(t, Child(t, x, l)) # -heavy
  PROVE  LET r  == RotateOnce(t, x, l, heavy)
             ch == Child(t, x, l)
         IN  /\ Rises(r.t, t, H, sub, ht, rk, x, IF Bal(t, ch) = 0 THEN ht[ch] + 1 ELSE ht[ch])
             /\ r.t.num = t.num /\ r.shorter = (Bal(t, ch) # 0)
<1> DEFINE ch == Child(t, x, l)
           in == Child(t, ch, 1 - l)
           far == Child(t, ch, l)
           oth == Child(t, x, 1 - l)
           p == Parent(t, x)
           w == Which(t, x)
           r == RotateOnce(t, x, l, heavy)
           a == r.t
           cb == Bal(t, ch) - heavy
           hx == 1 + Larger(ht[in], ht[oth])
           hc == 1 + Larger(ht[far], hx)
           ht2 == [y \in Slots |-> IF y = x THEN hx ELSE IF y = ch THEN hc ELSE ht[y]]
           sub2 == SubTurned(t, sub, x, l)
           k == IF Bal(t, ch) = 0 THEN ht[ch] + 1 ELSE ht[ch]
<1>1. Around(t, H, x, l) /\ Linked(t, H) /\ t \in AnyTree
  <2>1. Child(t, x, l) # Null
    BY Names DEF Shape, Linked
  <2>. QED BY <2>1, AroundHolds DEF Shape, Linked
<1>2. /\ x \in H /\ ch \in H /\ x # ch /\ in \in H \cup {Null} /\ in # x /\ in # ch
      /\ p \in H \cup {Null} /\ p # x /\ p # ch
      /\ w \in {0, 1} /\ l \in {0, 1} /\ 1 - l \in {0, 1} /\ l # 1 - l
      /\ p # Null => Child(t, p, w) = x
      /\ oth \in H \cup {Null} /\ oth # x /\ oth # ch /\ far \in H \cup {Null} /\ far # x /\ far # ch
      /\ H \subseteq NodeIds /\ H \subseteq Slots /\ Null \in Slots
  BY <1>1, Names DEF Around
<1>3. /\ Turned(a, t, x, l) /\ a.num = t.num /\ r.shorter = (cb = 0)
      /\ \A y \in NodeIds : Bal(a, y) = IF y = ch THEN cb ELSE IF y = x THEN -cb ELSE Bal(t, y)
  <2>1. heavy \in Int
    BY DEF child2balance
  <2>. QED BY <1>1, <2>1, OnceTurns
<1>4. Shape(a, H, sub2, rk)
  <2>1. Child(t, x, l) # Null
    BY Names DEF Shape, Linked
  <2>. QED BY <1>3, <2>1, TurnShape
<1>5. /\ ht \in [Slots -> Nat] /\ ht[Null] = 0 /\ \A y \in H : ht[y] > 0
      /\ \A y \in H : y # x => Level(t, ht, y, ht[Child(t, y, 0)], ht[Child(t, y, 1)])
      /\ ht[ch] = ht[oth] + 2
  BY DEF Heavy
<1>6. ht[in] \in Nat /\ ht[far] \in Nat /\ ht[oth] \in Nat /\ ht[ch] \in Nat /\ ht[x] \in Nat
  BY <1>2, <1>5
<1>7. hx \in Nat /\ hc \in Nat /\ hx > 0 /\ hc > 0
  BY <1>6 DEF Larger
<1>8. ht2 \in [Slots -> Nat] /\ ht2[x] = hx /\ ht2[ch] = hc /\ \A y \in Slots \ {x, ch} : ht2[y] = ht[y]
  <2>. HIDE DEF hx, hc
  <2>. QED BY <1>2, <1>5, <1>7
<1>9. \A y \in H : \A d \in {0, 1} :
        Child(a, y, d) = IF y = x /\ d = l THEN in ELSE IF y = ch /\ d = 1 - l THEN x
                         ELSE IF y = p /\ d = w THEN ch ELSE Child(t, y, d)
  BY <1>2, <1>3 DEF Turned
<1>10. /\ Bal(a, x) = -cb /\ Bal(a, ch) = cb
       /\ \A y \in H \ {x, ch} : Bal(a, y) = Bal(t, y)
  BY <1>2, <1>3
\* The levels and balances of the two nodes.
<1>11. /\ ht[ch] = 1 + Larger(ht[far], ht[in]) /\ Bal(t, ch) \in {-1, 0, 1}
       /\ Bal(t, ch) = IF l = 1 THEN ht[far] - ht[in] ELSE ht[in] - ht[far]
  <2>1. Level(t, ht, ch, ht[Child(t, ch, 0)], ht[Child(t, ch, 1)])
    BY <1>2, <1>5
  <2>2. CASE l = 0
    <3>1. far = Child(t, ch, 0) /\ in = Child(t, ch, 1)
      BY <2>2
    <3>. HIDE DEF ch, in, far
    <3>2. Level(t, ht, ch, ht[far], ht[in])
      BY <2>1, <3>1
    <3>. QED BY <2>2, <3>2 DEF Level
  <2>3. CASE l = 1
    <3>1. far = Child(t, ch, 1) /\ in = Child(t, ch, 0)
      BY <2>3
    <3>. HIDE DEF ch, in, far
    <3>2. Level(t, ht, ch, ht[in], ht[far])
      BY <2>1, <3>1
    <3>3. Larger(ht[in], ht[far]) = Larger(ht[far], ht[in])
      BY <1>6 DEF Larger
    <3>. QED BY <2>3, <3>2, <3>3 DEF Level
  <2>. QED BY <2>2, <2>3
<1>12. heavy = IF l = 1 THEN 1 ELSE -1
  BY DEF child2balance
<1>13. /\ hc = k /\ r.shorter = (Bal(t, ch) # 0)
       /\ -cb = (IF l = 1 THEN ht[in] - ht[oth] ELSE ht[oth] - ht[in]) /\ -cb \in {-1, 0, 1}
       /\ cb = (IF l = 1 THEN ht[far] - hx ELSE hx - ht[far]) /\ cb \in {-1, 0, 1}
  <2>1. ht[ch] = ht[oth] + 2
    BY <1>5
  <2>2. Bal(t, ch) # -heavy /\ r.shorter = (cb = 0)
    BY <1>3
  <2>. HIDE DEF ch, in, far, oth, r
  <2>3. CASE l = 0
    BY <2>1, <2>2, <2>3, <1>6, <1>11, <1>12 DEF Larger
  <2>4. CASE l = 1
    BY <2>1, <2>2, <2>4, <1>6, <1>11, <1>12 DEF Larger
  <2>. QED BY <2>3, <2>4
<1>. HIDE DEF ch, in, far, oth, p, w, r, cb, hx, hc, ht2, sub2, k
<1> DEFINE e == ht[x] - hc
<1>14. ASSUME NEW y \in {x, ch}
       PROVE  Level(a, ht2, y, Depth(a, ht2, p, w, e, y, 0), Depth(a, ht2, p, w, e, y, 1))
  <2>1. ht2[in] = ht[in] /\ ht2[far] = ht[far] /\ ht2[oth] = ht[oth]
    BY <1>2, <1>8
  <2>2. /\ Child(a, x, l) = in /\ Child(a, x, 1 - l) = oth
        /\ Child(a, ch, l) = far /\ Child(a, ch, 1 - l) = x
    BY <1>2, <1>9 DEF oth, far
  <2>3. /\ Depth(a, ht2, p, w, e, x, l) = ht[in] /\ Depth(a, ht2, p, w, e, x, 1 - l) = ht[oth]
        /\ Depth(a, ht2, p, w, e, ch, l) = ht[far] /\ Depth(a, ht2, p, w, e, ch, 1 - l) = hx
    BY <2>1, <2>2, <1>2, <1>6, <1>7, <1>8 DEF Depth
  <2>. HIDE DEF e
  <2>4. CASE l = 0
    <3>1. /\ Depth(a, ht2, p, w, e, x, 0) = ht[in] /\ Depth(a, ht2, p, w, e, x, 1) = ht[oth]
          /\ Depth(a, ht2, p, w, e, ch, 0) = ht[far] /\ Depth(a, ht2, p, w, e, ch, 1) = hx
      BY <2>3, <2>4
    <3>2. Level(a, ht2, x, ht[in], ht[oth])
      BY <2>4, <1>8, <1>10, <1>13 DEF Level, hx
    <3>3. Level(a, ht2, ch, ht[far], hx)
      BY <2>4, <1>8, <1>10, <1>13 DEF Level, hc
    <3>. QED BY <3>1, <3>2, <3>3
  <2>5. CASE l = 1
    <3>1. /\ Depth(a, ht2, p, w, e, x, 1) = ht[in] /\ Depth(a, ht2, p, w, e, x, 0) = ht[oth]
          /\ Depth(a, ht2, p, w, e, ch, 1) = ht[far] /\ Depth(a, ht2, p, w, e, ch, 0) = hx
      BY <2>3, <2>5
    <3>0. Larger(ht[in], ht[oth]) = Larger(ht[oth], ht[in]) /\ Larger(ht[far], hx) = Larger(hx, ht[far])
      BY <1>6, <1>7 DEF Larger
    <3>2. Level(a, ht2, x, ht[oth], ht[in])
      BY <2>5, <3>0, <1>8, <1>10, <1>13 DEF Level, hx
    <3>3. Level(a, ht2, ch, hx, ht[far])
      BY <2>5, <3>0, <1>8, <1>10, <1>13 DEF Level, hc
    <3>. QED BY <3>1, <3>2, <3>3
  <2>. QED BY <2>4, <2>5
<1>15. ASSUME NEW y \in H \ {x, ch}
       PROVE  Level(a, ht2, y, Depth(a, ht2, p, w, e, y, 0), Depth(a, ht2, p, w, e, y, 1))
  <2>1. \A z \in H \ {x, ch} : \A d \in {0, 1} :
           /\ Child(a, z, d) = IF z = p /\ d = w THEN ch ELSE Child(t, z, d)
           /\ Child(t, z, d) \in {x, ch} => z = p /\ d = w
    <3>1. ASSUME NEW z \in H \ {x, ch}, NEW d \in {0, 1}, Child(t, z, d) \in {x, ch} PROVE z = p /\ d = w
      <4>1. CASE Child(t, z, d) = x
        BY <4>1, <1>1, <1>2 DEF Linked, p, w
      <4>2. CASE Child(t, z, d) = ch
        <5>1. Parent(t, ch) = x
          BY <1>1, <1>2 DEF Linked, ch
        <5>. QED BY <4>2, <5>1, <1>1, <1>2 DEF Linked
      <4>. QED BY <4>1, <4>2, <3>1
    <3>. QED BY <3>1, <1>9
  <2>2. \A z \in H \ {x, ch} : Level(t, ht, z, ht[Child(t, z, 0)], ht[Child(t, z, 1)])
    BY <1>5
  <2>3. ch \in Slots /\ ht2[ch] = hc
    BY <1>2, <1>8
  <2>4. LET f == ht[x] - ht2[ch]
        IN  \A z \in H \ {x, ch} : Level(a, ht2, z, Depth(a, ht2, p, w, f, z, 0), Depth(a, ht2, p, w, f, z, 1))
    BY <1>1, <1>2, <1>5, <1>8, <1>10, <2>1, <2>2, <2>3, RestLevels
  <2>. QED BY <2>3, <2>4
<1>16. Levels(a, H, ht2, p, w, e)
  <2>1. \A y \in H : Level(a, ht2, y, Depth(a, ht2, p, w, e, y, 0), Depth(a, ht2, p, w, e, y, 1))
    BY <1>14, <1>15
  <2>2. \A y \in H : ht2[y] > 0
    BY <1>2, <1>5, <1>7, <1>8
  <2>3. ht2[Null] = 0
    BY <1>2, <1>5, <1>8, Names
  <2>. QED BY <1>8, <2>1, <2>2, <2>3 DEF Levels
<1>17. \A y \in H : y \notin sub[x] => sub2[y] = sub[y]
  <2>1. x \in sub[x] /\ ch \in sub[x]
    <3>1. sub[ch] \subseteq sub[x] /\ x \in sub[x] /\ (ch # Null => ch \in sub[ch])
      BY Sides DEF ch
    <3>. QED BY <3>1, <1>2, Names
  <2>. QED BY <2>1, <1>2 DEF sub2, SubTurned, ch
<1>18. Rises(a, t, H, sub, ht, rk, x, k)
  BY <1>4, <1>13, <1>16, <1>17 DEF Rises, Pending, p, w
<1>. QED BY <1>3, <1>13, <1>18 DEF k, r, ch

\* A double rotation.
LEMMA TwiceRises ==
  ASSUME NEW t, NEW H, NEW sub, NEW rk, Shape(t, H, sub, rk), NEW x \in H, NEW l \in {0, 1},
         NEW ht, Heavy(t, H, ht, x, l), NEW heavy, heavy = child2balance(l),
         Child(t, x, l) \in H, Bal(t, Child(t, x, l)) = -heavy
  PROVE  LET r  == RotateTwice(t, x, l, heavy)
         IN  /\ Rises(r.t, t, H, sub, ht, rk, x, ht[Child(t, x, l)])
             /\ r.t.num = t.num /\ r.shorter
<1> DEFINE ch == Child(t, x, l)
           gc == Child(t, ch, 1 - l)
           gl == Child(t, gc, l)
           gr == Child(t, gc, 1 - l)
           far == Child(t, ch, l)
           oth == Child(t, x, 1 - l)
           p == Parent(t, x)
           w == Which(t, x)
           r == RotateTwice(t, x, l, heavy)
           a == r.t
           m == RotateOnce(t, ch, 1 - l, 0).t
           hx == 1 + Larger(ht[gr], ht[oth])
           hc == 1 + Larger(ht[far], ht[gl])
           hg == 1 + Larger(hc, hx)
           K == {x, ch, gc}
           ht2 == [y \in Slots |-> IF y = x THEN hx ELSE IF y = ch THEN hc ELSE IF y = gc THEN hg ELSE ht[y]]
           sub1 == SubTurned(t, sub, ch, 1 - l)
           sub2 == SubTurned(m, sub1, x, l)
           b6 == IF Bal(t, gc) = -heavy THEN heavy ELSE 0
           b7 == IF Bal(t, gc) = heavy THEN -heavy ELSE 0
<1>1. Around(t, H, x, l) /\ Linked(t, H) /\ t \in AnyTree /\ Null \notin H
  <2>1. Child(t, x, l) # Null
    BY Names DEF Shape, Linked
  <2>2. Around(t, H, x, l)
    BY <2>1, AroundHolds
  <2>3. Linked(t, H) /\ t \in AnyTree
    BY DEF Shape, Linked
  <2>. QED BY <2>2, <2>3 DEF Around
<1>2. /\ x \in H /\ ch \in H /\ x # ch /\ gc \in H \cup {Null} /\ gc # x /\ gc # ch
      /\ p \in H \cup {Null} /\ p # x /\ p # ch /\ (p = gc => p = Null)
      /\ w \in {0, 1} /\ l \in {0, 1} /\ 1 - l \in {0, 1} /\ l # 1 - l /\ 1 - (1 - l) = l
      /\ p # Null => Child(t, p, w) = x
      /\ oth \in H \cup {Null} /\ oth # x /\ oth # ch /\ (oth = gc => gc = Null)
      /\ far \in H \cup {Null} /\ far # x /\ far # ch /\ (far = gc => gc = Null)
      /\ H \subseteq NodeIds /\ H \subseteq Slots /\ Null \in Slots
  BY <1>1, Names DEF Around
<1>3. /\ ht \in [Slots -> Nat] /\ ht[Null] = 0 /\ \A y \in H : ht[y] > 0
      /\ \A y \in H : y # x => Level(t, ht, y, ht[Child(t, y, 0)], ht[Child(t, y, 1)])
      /\ ht[ch] = ht[oth] + 2
  BY DEF Heavy
<1>4. ht[gc] \in Nat /\ ht[far] \in Nat /\ ht[oth] \in Nat /\ ht[ch] \in Nat /\ ht[x] \in Nat
  BY <1>2, <1>3
<1>5. heavy = IF l = 1 THEN 1 ELSE -1
  BY DEF child2balance
<1>6. ht[ch] = 1 + ht[gc] /\ ht[gc] = 1 + ht[far]
  <2>1. Level(t, ht, ch, ht[Child(t, ch, 0)], ht[Child(t, ch, 1)])
    BY <1>2, <1>3
  <2>2. Bal(t, ch) = -heavy
    OBVIOUS
  <2>3. CASE l = 0
    <3>1. far = Child(t, ch, 0) /\ gc = Child(t, ch, 1)
      BY <2>3
    <3>. HIDE DEF ch, gc, far
    <3>2. Level(t, ht, ch, ht[far], ht[gc])
      BY <2>1, <3>1
    <3>. QED BY <2>2, <2>3, <3>2, <1>4, <1>5 DEF Level, Larger
  <2>4. CASE l = 1
    <3>1. far = Child(t, ch, 1) /\ gc = Child(t, ch, 0)
      BY <2>4
    <3>. HIDE DEF ch, gc, far
    <3>2. Level(t, ht, ch, ht[gc], ht[far])
      BY <2>1, <3>1
    <3>. QED BY <2>2, <2>4, <3>2, <1>4, <1>5 DEF Level, Larger
  <2>. QED BY <2>3, <2>4
<1>7. gc \in H
  <2>1. gc # Null
    BY <1>3, <1>4, <1>6
  <2>. QED BY <2>1, <1>2
<1>8. Around(t, H, ch, 1 - l)
  <2>1. gc # Null
    BY <1>1, <1>7
  <2>. QED BY <2>1, <1>2, AroundHolds
<1>9. Turned(m, t, ch, 1 - l)
  BY <1>1, <1>8, OnceTurns
<1>10. Shape(m, H, sub1, rk)
  <2>1. gc # Null
    BY <1>1, <1>7
  <2>. HIDE DEF m
  <2>. QED BY <2>1, <1>2, <1>9, TurnShape
<1>. HIDE DEF m
<1>11. /\ Turned(a, m, x, l) /\ a.num = t.num /\ r.shorter
       /\ \A y \in NodeIds :
            Bal(a, y) = IF y = gc THEN 0 ELSE IF y = x THEN b7 ELSE IF y = ch THEN b6 ELSE Bal(t, y)
  <2>1. heavy \in Int
    BY <1>5
  <2>2. Around(t, H, Child(t, x, l), 1 - l) /\ Turned(m, t, Child(t, x, l), 1 - l)
    BY <1>8, <1>9
  <2>3. TwiceTurned(RotateTwice(t, x, l, heavy), t, m, x, l, heavy)
    <3>. HIDE DEF gc, ch, far, oth, p, w, r, gl, gr, b6, b7
    <3>. QED BY <1>1, <2>1, <2>2, TwiceTurns, Zenon
  <2>. QED BY <2>3 DEF TwiceTurned
<1>12. /\ gl \in H \cup {Null} /\ gl # ch /\ gl # gc /\ gl # x
       /\ gr \in H \cup {Null} /\ gr # ch /\ gr # gc /\ gr # x
       /\ p # gc
       /\ Parent(t, ch) = x /\ Which(t, ch) = l /\ Parent(t, gc) = ch /\ Which(t, gc) = 1 - l
  <2>1. /\ gl \in H \cup {Null} /\ gl # ch /\ gl # gc
        /\ gr \in H \cup {Null} /\ gr # ch /\ gr # gc
    BY <1>2, <1>8 DEF Around
  <2>2. p # gc
    BY <1>1, <1>2, <1>7
  <2>3. Parent(t, ch) = x /\ Which(t, ch) = l /\ Parent(t, gc) = ch /\ Which(t, gc) = 1 - l
    BY <1>1, <1>2, <1>7 DEF Linked
  <2>4. gl = x => Parent(t, x) = gc
    BY <1>1, <1>2, <1>7 DEF Linked
  <2>5. gr = x => Parent(t, x) = gc
    BY <1>1, <1>2, <1>7 DEF Linked
  <2>. QED BY <2>1, <2>2, <2>3, <2>4, <2>5
<1>. HIDE DEF gl, gr
<1>13. \A y \in H : \A d \in {0, 1} :
         Child(m, y, d) = IF y = ch /\ d = 1 - l THEN gl ELSE IF y = gc /\ d = l THEN ch
                          ELSE IF y = x /\ d = l THEN gc ELSE Child(t, y, d)
  <2>1. gl = Child(t, gc, l)
    BY DEF gl
  <2>. HIDE DEF gc, ch, far, oth, p, w, r
  <2>2. Child(t, ch, 1 - l) = gc /\ Child(t, gc, 1 - (1 - l)) = gl
    BY <1>2, <2>1 DEF gc
  <2>3. Turned(m, t, ch, 1 - l)
    BY <1>9 DEF ch
  <2>. QED BY <2>2, <2>3, <1>2, <1>7, <1>12 DEF Turned
<1>14. \A y \in H : \A d \in {0, 1} :
         Child(a, y, d) = IF y = x /\ d = l THEN gr ELSE IF y = gc /\ d = 1 - l THEN x
                          ELSE IF y = p /\ d = w THEN gc ELSE IF y = ch /\ d = 1 - l THEN gl
                          ELSE IF y = gc /\ d = l THEN ch ELSE Child(t, y, d)
  <2>1. Parent(m, x) = p /\ Which(m, x) = w
    <3>1. 1 - (1 - l) = l /\ Child(t, gc, l) # x
      BY <1>2, <1>12 DEF gl
    <3>2. Child(t, ch, 1 - l) = gc
      OBVIOUS
    <3>. HIDE DEF gc, ch, far, oth, p, w, r
    <3>3. Turned(m, t, ch, 1 - l)
      BY <1>9 DEF ch
    <3>4. Child(t, gc, 1 - (1 - l)) # x /\ Child(t, ch, 1 - l) = gc
      BY <3>1, <3>2
    <3>5. x \in NodeIds
      BY <1>2
    <3>6. Parent(m, x) = Parent(t, x) /\ Which(m, x) = Which(t, x)
      BY <3>3, <3>4, <3>5, <1>2 DEF Turned
    <3>. QED BY <3>6 DEF p, w
  <2>2. Child(m, x, l) = gc /\ Child(m, gc, 1 - l) = gr
    <3>1. gr = Child(t, gc, 1 - l)
      BY DEF gr
    <3>. HIDE DEF gc, ch, far, oth, p, w, r
    <3>. QED BY <3>1, <1>2, <1>7, <1>13
  <2>3. \A y \in H : \A d \in {0, 1} :
          Child(a, y, d) = IF y = x /\ d = l THEN gr ELSE IF y = gc /\ d = 1 - l THEN x
                           ELSE IF y = p /\ d = w THEN gc ELSE Child(m, y, d)
    <3>. HIDE DEF gc, ch, far, oth, p, w, r
    <3>. QED BY <2>1, <2>2, <1>2, <1>11 DEF Turned
  <2>. HIDE DEF gc, ch, far, oth, p, w, r
  <2>. QED BY <2>3, <1>2, <1>7, <1>12, <1>13
<1>15. Shape(a, H, sub2, rk)
  <2>1. Child(m, x, l) # Null
    <3>1. Child(m, x, l) = gc
      <4>. HIDE DEF gc, ch, far, oth, p, w, r
      <4>. QED BY <1>2, <1>7, <1>13
    <3>. QED BY <3>1, <1>1, <1>7
  <2>. HIDE DEF sub1, r
  <2>. QED BY <2>1, <1>10, <1>11, TurnShape
<1>16. ht[gl] \in Nat /\ ht[gr] \in Nat
  BY <1>2, <1>3, <1>12
<1>17. hx \in Nat /\ hc \in Nat /\ hg \in Nat /\ hx > 0 /\ hc > 0 /\ hg > 0
  BY <1>4, <1>16 DEF Larger
<1>18. /\ ht2 \in [Slots -> Nat] /\ ht2[x] = hx /\ ht2[ch] = hc /\ ht2[gc] = hg
       /\ \A y \in Slots \ K : ht2[y] = ht[y]
  <2>. HIDE DEF hx, hc, hg, gc, ch
  <2>. QED BY <1>2, <1>3, <1>7, <1>17
<1>19. /\ Bal(a, gc) = 0 /\ Bal(a, x) = b7 /\ Bal(a, ch) = b6
       /\ \A y \in H \ K : Bal(a, y) = Bal(t, y)
  <2>. HIDE DEF b6, b7, gc, ch
  <2>. QED BY <1>2, <1>7, <1>11
<1>20. /\ ht[gc] = 1 + Larger(ht[gl], ht[gr]) /\ Bal(t, gc) \in {-1, 0, 1}
       /\ Bal(t, gc) = IF l = 1 THEN ht[gl] - ht[gr] ELSE ht[gr] - ht[gl]
  <2>1. Level(t, ht, gc, ht[Child(t, gc, 0)], ht[Child(t, gc, 1)])
    BY <1>2, <1>3, <1>7
  <2>2. CASE l = 0
    <3>1. gl = Child(t, gc, 0) /\ gr = Child(t, gc, 1)
      BY <2>2 DEF gl, gr
    <3>. HIDE DEF gc
    <3>2. Level(t, ht, gc, ht[gl], ht[gr])
      BY <2>1, <3>1
    <3>. QED BY <2>2, <3>2 DEF Level
  <2>3. CASE l = 1
    <3>1. gl = Child(t, gc, 1) /\ gr = Child(t, gc, 0)
      BY <2>3 DEF gl, gr
    <3>. HIDE DEF gc
    <3>2. Level(t, ht, gc, ht[gr], ht[gl])
      BY <2>1, <3>1
    <3>3. Larger(ht[gl], ht[gr]) = Larger(ht[gr], ht[gl])
      BY <1>16 DEF Larger
    <3>. QED BY <2>3, <3>2, <3>3 DEF Level
  <2>. QED BY <2>2, <2>3
<1>21. /\ hg = ht[ch] /\ hc = hx
       /\ b6 = (IF l = 1 THEN ht[far] - ht[gl] ELSE ht[gl] - ht[far]) /\ b6 \in {-1, 0, 1}
       /\ b7 = (IF l = 1 THEN ht[gr] - ht[oth] ELSE ht[oth] - ht[gr]) /\ b7 \in {-1, 0, 1}
  <2>1. ht[ch] = ht[oth] + 2
    BY <1>3
  <2>. HIDE DEF ch, gc, far, oth, r
  <2>3. CASE l = 0
    BY <2>1, <2>3, <1>4, <1>5, <1>6, <1>16, <1>20 DEF Larger
  <2>4. CASE l = 1
    BY <2>1, <2>4, <1>4, <1>5, <1>6, <1>16, <1>20 DEF Larger
  <2>. QED BY <2>3, <2>4
<1>. HIDE DEF ch, gc, far, oth, p, w, r, hx, hc, hg, ht2, sub1, sub2, b6, b7
<1> DEFINE e == ht[x] - hg
<1>22. ASSUME NEW y \in K
       PROVE  Level(a, ht2, y, Depth(a, ht2, p, w, e, y, 0), Depth(a, ht2, p, w, e, y, 1))
  <2>1. ht2[gl] = ht[gl] /\ ht2[gr] = ht[gr] /\ ht2[far] = ht[far] /\ ht2[oth] = ht[oth]
    <3>1. \A y2 \in {gl, gr, far, oth} : y2 \in Slots \ K
      BY <1>1, <1>2, <1>7, <1>12
    <3>. QED BY <3>1, <1>18
  <2>2. /\ Child(a, x, l) = gr /\ Child(a, x, 1 - l) = oth
        /\ Child(a, ch, l) = far /\ Child(a, ch, 1 - l) = gl
        /\ Child(a, gc, l) = ch /\ Child(a, gc, 1 - l) = x
    BY <1>2, <1>7, <1>12, <1>14 DEF oth, far
  <2>3. /\ Depth(a, ht2, p, w, e, x, l) = ht[gr] /\ Depth(a, ht2, p, w, e, x, 1 - l) = ht[oth]
        /\ Depth(a, ht2, p, w, e, ch, l) = ht[far] /\ Depth(a, ht2, p, w, e, ch, 1 - l) = ht[gl]
        /\ Depth(a, ht2, p, w, e, gc, l) = hc /\ Depth(a, ht2, p, w, e, gc, 1 - l) = hx
    BY <2>1, <2>2, <1>2, <1>4, <1>12, <1>16, <1>17, <1>18 DEF Depth
  <2>. HIDE DEF e
  <2>4. CASE l = 0
    <3>1. /\ Depth(a, ht2, p, w, e, x, 0) = ht[gr] /\ Depth(a, ht2, p, w, e, x, 1) = ht[oth]
          /\ Depth(a, ht2, p, w, e, ch, 0) = ht[far] /\ Depth(a, ht2, p, w, e, ch, 1) = ht[gl]
          /\ Depth(a, ht2, p, w, e, gc, 0) = hc /\ Depth(a, ht2, p, w, e, gc, 1) = hx
      BY <2>3, <2>4
    <3>2. Level(a, ht2, x, ht[gr], ht[oth])
      BY <2>4, <1>18, <1>19, <1>21 DEF Level, hx
    <3>3. Level(a, ht2, ch, ht[far], ht[gl])
      BY <2>4, <1>18, <1>19, <1>21 DEF Level, hc
    <3>4. Level(a, ht2, gc, hc, hx)
      BY <1>17, <1>18, <1>19, <1>21 DEF Level, hg
    <3>. QED BY <3>1, <3>2, <3>3, <3>4
  <2>5. CASE l = 1
    <3>1. /\ Depth(a, ht2, p, w, e, x, 1) = ht[gr] /\ Depth(a, ht2, p, w, e, x, 0) = ht[oth]
          /\ Depth(a, ht2, p, w, e, ch, 1) = ht[far] /\ Depth(a, ht2, p, w, e, ch, 0) = ht[gl]
          /\ Depth(a, ht2, p, w, e, gc, 1) = hc /\ Depth(a, ht2, p, w, e, gc, 0) = hx
      BY <2>3, <2>5
    <3>0. /\ Larger(ht[gr], ht[oth]) = Larger(ht[oth], ht[gr])
          /\ Larger(ht[far], ht[gl]) = Larger(ht[gl], ht[far])
      BY <1>4, <1>16 DEF Larger
    <3>2. Level(a, ht2, x, ht[oth], ht[gr])
      BY <2>5, <3>0, <1>18, <1>19, <1>21 DEF Level, hx
    <3>3. Level(a, ht2, ch, ht[gl], ht[far])
      BY <2>5, <3>0, <1>18, <1>19, <1>21 DEF Level, hc
    <3>4. Level(a, ht2, gc, hx, hc)
      BY <1>17, <1>18, <1>19, <1>21 DEF Level, hg
    <3>. QED BY <3>1, <3>2, <3>3, <3>4
  <2>. QED BY <2>4, <2>5
<1>23. ASSUME NEW y \in H \ K
       PROVE  Level(a, ht2, y, Depth(a, ht2, p, w, e, y, 0), Depth(a, ht2, p, w, e, y, 1))
  <2>1. \A z \in H \ K : \A d \in {0, 1} :
           /\ Child(a, z, d) = IF z = p /\ d = w THEN gc ELSE Child(t, z, d)
           /\ Child(t, z, d) \in K => z = p /\ d = w
    <3>1. ASSUME NEW z \in H \ K, NEW d \in {0, 1}, Child(t, z, d) \in K PROVE z = p /\ d = w
      <4>1. CASE Child(t, z, d) = x
        BY <4>1, <1>1, <1>2 DEF Linked, p, w
      <4>2. CASE Child(t, z, d) = ch
        BY <4>2, <1>12, <1>1, <1>2 DEF Linked
      <4>3. CASE Child(t, z, d) = gc
        BY <4>3, <1>12, <1>1, <1>7 DEF Linked
      <4>. QED BY <4>1, <4>2, <4>3, <3>1
    <3>. QED BY <3>1, <1>14
  <2>2. \A z \in H \ K : Level(t, ht, z, ht[Child(t, z, 0)], ht[Child(t, z, 1)])
    BY <1>3
  <2>3. gc \in Slots /\ ht2[gc] = hg
    BY <1>2, <1>7, <1>18
  <2>. HIDE DEF K
  <2>4. LET f == ht[x] - ht2[gc]
        IN  \A z \in H \ K : Level(a, ht2, z, Depth(a, ht2, p, w, f, z, 0), Depth(a, ht2, p, w, f, z, 1))
    BY <1>1, <1>2, <1>3, <1>18, <1>19, <2>1, <2>2, <2>3, RestLevels
  <2>. QED BY <2>3, <2>4
<1>24. Levels(a, H, ht2, p, w, e)
  <2>1. \A y \in H : Level(a, ht2, y, Depth(a, ht2, p, w, e, y, 0), Depth(a, ht2, p, w, e, y, 1))
    BY <1>22, <1>23
  <2>2. \A y \in H : ht2[y] > 0
    BY <1>2, <1>3, <1>17, <1>18
  <2>3. ht2[Null] = 0
    BY <1>1, <1>2, <1>3, <1>7, <1>18, Names
  <2>. QED BY <1>18, <2>1, <2>2, <2>3 DEF Levels
<1>25. \A y \in H : y \notin sub[x] => sub2[y] = sub[y]
  <2>1. x \in sub[x] /\ ch \in sub[x] /\ gc \in sub[x]
    <3>1. sub[ch] \subseteq sub[x] /\ x \in sub[x] /\ (ch # Null => ch \in sub[ch])
      BY Sides DEF ch
    <3>2. sub[gc] \subseteq sub[ch] /\ (gc # Null => gc \in sub[gc])
      BY <1>2, Sides DEF gc
    <3>. QED BY <3>1, <3>2, <1>1, <1>2, <1>7
  <2>2. Child(m, x, l) = gc
    BY <1>2, <1>7, <1>13
  <2>3. \A y \in H : y \notin sub[x] => sub1[y] = sub[y]
    <3>1. Child(t, ch, 1 - l) = gc
      BY DEF gc
    <3>. QED BY <2>1, <3>1, <1>2 DEF sub1, SubTurned
  <2>. QED BY <2>1, <2>2, <2>3, <1>2 DEF sub2, SubTurned
<1>26. Rises(a, t, H, sub, ht, rk, x, ht[ch])
  BY <1>15, <1>21, <1>24, <1>25 DEF Rises, Pending, p, w
<1>. QED BY <1>11, <1>26 DEF r, ch

\* avl_rotation at a node one side of which is two levels higher.
LEMMA RotationRises ==
  ASSUME NEW t, NEW H, NEW sub, NEW rk, Shape(t, H, sub, rk), NEW x \in H, NEW l \in {0, 1},
         NEW ht, Heavy(t, H, ht, x, l), NEW balance, balance = 2 * child2balance(l)
  PROVE  LET r  == avl_rotation(t, x, balance)
             ch == Child(t, x, l)
         IN  /\ ch \in H
             /\ Rises(r.t, t, H, sub, ht, rk, x, IF Bal(t, ch) = 0 THEN ht[ch] + 1 ELSE ht[ch])
             /\ r.t.num = t.num /\ r.shorter = (Bal(t, ch) # 0)
<1> DEFINE ch == Child(t, x, l)
           heavy == child2balance(l)
           r == avl_rotation(t, x, balance)
<1>1. balance2child(balance) = l /\ balance \div 2 = heavy
  <2>1. l = 0 \/ l = 1
    OBVIOUS
  <2>. QED BY <2>1 DEF balance2child, child2balance
<1>2. ch \in H
  <2>1. ch \in H \cup {Null} /\ Child(t, x, 1 - l) \in H \cup {Null} /\ H \subseteq Slots /\ Null \in Slots
    <3>1. ch \in H \cup {Null}
      BY DEF Shape, Linked
    <3>2. Child(t, x, 1 - l) \in H \cup {Null}
      BY DEF Shape, Linked
    <3>. QED BY <3>1, <3>2, Names DEF Shape, Linked
  <2>2. ht[ch] = ht[Child(t, x, 1 - l)] + 2 /\ ht[Child(t, x, 1 - l)] \in Nat /\ ht[Null] = 0
    BY <2>1 DEF Heavy
  <2>3. ch # Null
    BY <2>2
  <2>. QED BY <2>1, <2>3
<1>3. r = IF Bal(t, ch) # -heavy THEN RotateOnce(t, x, l, heavy) ELSE RotateTwice(t, x, l, heavy)
  BY <1>1 DEF avl_rotation
<1>4. CASE Bal(t, ch) # -heavy
  <2>1. r = RotateOnce(t, x, l, heavy)
    BY <1>3, <1>4
  <2>. QED BY <2>1, <1>2, <1>4, OnceRises
<1>5. CASE Bal(t, ch) = -heavy
  <2>1. r = RotateTwice(t, x, l, heavy)
    BY <1>3, <1>5
  <2>2. Bal(t, ch) # 0
    BY <1>5 DEF child2balance
  <2>3. Rises(r.t, t, H, sub, ht, rk, x, ht[ch]) /\ r.t.num = t.num /\ r.shorter
    BY <2>1, <1>2, <1>5, TwiceRises
  <2>4. r.shorter = TRUE
    BY <2>1 DEF RotateTwice
  <2>. HIDE DEF r, ch
  <2>. QED BY <2>2, <2>3, <2>4, <1>2 DEF r, ch
<1>. QED BY <1>4, <1>5
-----------------------------------------------------------------------------
(***************************************************************************)
(* Loops.  A loop of the model is a function go of the number of turns;    *)
(* V[i] is what its invariant allows after i turns.                        *)
(***************************************************************************)
\* g is the loop whose turns F does, and keeps to V.
Loops(g, N, first, F, V) ==
  /\ g = [i \in 0 .. N |-> IF i = 0 THEN first ELSE F[g[i - 1]]]
  /\ \A i \in 0 .. N : g[i] \in V[i]

\* The function exists.
LEMMA LoopExists ==
  ASSUME NEW N \in Nat, NEW V, NEW F, NEW first \in V[0],
         \A i \in 0 .. N - 1 : \A s \in V[i] : F[s] \in V[i + 1]
  PROVE  \E g : Loops(g, N, first, F, V)
<1> DEFINE Is(g, n) == /\ g = [i \in 0 .. n |-> IF i = 0 THEN first ELSE F[g[i - 1]]]
                       /\ \A i \in 0 .. n : g[i] \in V[i]
           T == {n \in Nat : n <= N => \E g : Is(g, n)}
<1>1. 0 \in T
  <2>1. Is([i \in 0 .. 0 |-> first], 0)
    OBVIOUS
  <2>. QED BY <2>1
<1>2. ASSUME NEW n \in Nat, n \in T PROVE n + 1 \in T
  <2>1. SUFFICES ASSUME n + 1 <= N PROVE \E g : Is(g, n + 1)
    OBVIOUS
  <2>2. PICK g : Is(g, n)
    BY <1>2, <2>1
  <2> DEFINE h == [i \in 0 .. n + 1 |-> IF i = n + 1 THEN F[g[n]] ELSE g[i]]
  <2>3. n \in 0 .. N - 1 /\ n \in 0 .. n
    BY <2>1
  <2>4. g[n] \in V[n] /\ F[g[n]] \in V[n + 1]
    BY <2>2, <2>3
  <2>5. ASSUME NEW i \in 0 .. n + 1
        PROVE  h[i] \in V[i] /\ h[i] = IF i = 0 THEN first ELSE F[h[i - 1]]
    <3>1. CASE i = n + 1
      <4>1. i # 0 /\ i - 1 = n /\ i - 1 \in 0 .. n + 1 /\ i - 1 # n + 1
        BY <3>1
      <4>2. h[i] = F[g[n]] /\ h[i - 1] = g[n]
        BY <3>1, <4>1
      <4>. HIDE DEF h
      <4>. QED BY <3>1, <4>1, <4>2, <2>4
    <3>2. CASE i # n + 1
      <4>1. i \in 0 .. n /\ h[i] = g[i]
        BY <3>2
      <4>2. g[i] \in V[i] /\ g[i] = IF i = 0 THEN first ELSE F[g[i - 1]]
        BY <4>1, <2>2
      <4>3. i # 0 => i - 1 \in 0 .. n + 1 /\ i - 1 # n + 1
        BY <4>1
      <4>4. i # 0 => h[i - 1] = g[i - 1]
        BY <4>3
      <4>. HIDE DEF h
      <4>. QED BY <4>1, <4>2, <4>4
    <3>. QED BY <3>1, <3>2
  <2>6. h = [i \in 0 .. n + 1 |-> IF i = 0 THEN first ELSE F[h[i - 1]]]
    <3>1. h = [i \in 0 .. n + 1 |-> h[i]]
      OBVIOUS
    <3>. HIDE DEF h
    <3>. QED BY <3>1, <2>5, Zenon
  <2>. HIDE DEF h
  <2>7. Is(h, n + 1)
    BY <2>5, <2>6
  <2>. QED BY <2>7
<1>3. \A n \in Nat : n \in T
  <2>. HIDE DEF T
  <2>. QED BY <1>1, <1>2, Induct
<1>4. \E g : Is(g, N)
  BY <1>3
<1>. QED BY <1>4 DEF Loops

\* The invariant holds at the end.
LEMMA LoopEnds ==
  ASSUME NEW N \in Nat, NEW V, NEW go, go[0] \in V[0],
         \A i \in 0 .. N - 1 : go[i] \in V[i] => go[i + 1] \in V[i + 1]
  PROVE  go[N] \in V[N] /\ \A i \in 0 .. N : go[i] \in V[i]
<1> DEFINE T == {n \in Nat : n <= N => go[n] \in V[n]}
<1>1. 0 \in T
  OBVIOUS
<1>2. ASSUME NEW n \in Nat, n \in T PROVE n + 1 \in T
  BY <1>2
<1>3. \A n \in Nat : n \in T
  <2>. HIDE DEF T
  <2>. QED BY <1>1, <1>2, Induct
<1>. QED BY <1>3

-----------------------------------------------------------------------------
(***************************************************************************)
(* The way up after an insertion or a removal.                             *)
(***************************************************************************)
\* Balances are no part of the shape.
LEMMA SameShape ==
  ASSUME NEW t, NEW H, NEW sub, NEW rk, Shape(t, H, sub, rk), NEW u \in AnyTree, u.root = t.root,
         \A y \in H : Parent(u, y) = Parent(t, y) /\ Which(u, y) = Which(t, y),
         \A y \in H : \A d \in {0, 1} : Child(u, y, d) = Child(t, y, d)
  PROVE  Shape(u, H, sub, rk)
<1>1. Linked(u, H)
  BY DEF Shape, Linked
<1>2. Ordered(u, H, sub, rk)
  BY DEF Shape, Ordered
<1>. QED BY <1>1, <1>2 DEF Shape

\* A tree is one in which no levels are pending.
LEMMA PendingNone ==
  ASSUME NEW t, NEW H, NEW sub, NEW ht, NEW rk, NEW x, NEW c, NEW e,
         Pending(t, H, sub, ht, rk, x, c, e), x = Null \/ e = 0
  PROVE  Tree(t, H, sub, ht, rk)
<1>1. ASSUME NEW y \in H, NEW d \in {0, 1} PROVE Depth(t, ht, x, c, e, y, d) = Depth(t, ht, Null, 0, 0, y, d)
  <2>1. y # Null
    BY Names DEF Pending, Shape, Linked
  <2>. QED BY <2>1 DEF Depth
<1>2. \A y \in H : Level(t, ht, y, Depth(t, ht, x, c, e, y, 0), Depth(t, ht, x, c, e, y, 1))
  BY DEF Pending, Levels
<1>3. \A y \in H : Level(t, ht, y, Depth(t, ht, Null, 0, 0, y, 0), Depth(t, ht, Null, 0, 0, y, 1))
  BY <1>1, <1>2
<1>. QED BY <1>3 DEF Pending, Levels, Tree

\* Level, seen from side c.
LevelOn(t, ht, y, c, near, far) ==
  /\ ht[y] = 1 + Larger(near, far) /\ Bal(t, y) \in {-1, 0, 1}
  /\ Bal(t, y) = IF c = 1 THEN near - far ELSE far - near

\* Level, seen from one side.
LEMMA LevelTurn ==
  ASSUME NEW t, NEW ht, NEW y, NEW c \in {0, 1}, NEW l \in Int, NEW r \in Int
  PROVE  Level(t, ht, y, l, r) <=> LevelOn(t, ht, y, c, IF c = 0 THEN l ELSE r, IF c = 0 THEN r ELSE l)
<1>1. Larger(l, r) = Larger(r, l)
  BY DEF Larger
<1>2. CASE c = 0
  BY <1>2 DEF Level, LevelOn
<1>3. CASE c = 1
  BY <1>1, <1>3 DEF Level, LevelOn
<1>. QED BY <1>2, <1>3

\* The levels at x, where e of them are pending on side c, and elsewhere.
AtNode(t, H, ht, x, c, e) ==
  /\ LevelOn(t, ht, x, c, ht[Child(t, x, c)] + e, ht[Child(t, x, 1 - c)])
  /\ \A y \in H : y # x => Level(t, ht, y, ht[Child(t, y, 0)], ht[Child(t, y, 1)])
  /\ ht \in [Slots -> Nat] /\ ht[Null] = 0 /\ \A y \in H : ht[y] > 0
  /\ Child(t, x, c) \in H \cup {Null} /\ Child(t, x, 1 - c) \in H \cup {Null}
  /\ ht[Child(t, x, c)] \in Nat /\ ht[Child(t, x, 1 - c)] \in Nat /\ ht[x] \in Nat
  /\ Parent(t, x) \in H \cup {Null} /\ Which(t, x) \in {0, 1} /\ 1 - c \in {0, 1} /\ c # 1 - c
  /\ Bal(t, x) \in Int /\ t \in AnyTree /\ x \in NodeIds /\ H \subseteq Slots

\* A pending tree at x, seen from the side c.
LEMMA PendingAt ==
  ASSUME NEW t, NEW H, NEW sub, NEW ht, NEW rk, NEW x \in H, NEW c \in {0, 1}, NEW e \in Int,
         Pending(t, H, sub, ht, rk, x, c, e)
  PROVE  AtNode(t, H, ht, x, c, e)
<1>0. /\ ht \in [Slots -> Nat] /\ ht[Null] = 0 /\ \A y \in H : ht[y] > 0 /\ t \in AnyTree
      /\ H \subseteq Slots /\ Null \in Slots /\ H \subseteq NodeIds
      /\ \A y \in H : \A d \in {0, 1} : Child(t, y, d) \in H \cup {Null}
      /\ Parent(t, x) \in H \cup {Null}
  BY Names DEF Pending, Shape, Linked, Levels
<1>1. \A y \in H : \A d \in {0, 1} : ht[Child(t, y, d)] \in Nat
  BY <1>0
<1>2. \A y \in H : Level(t, ht, y, Depth(t, ht, x, c, e, y, 0), Depth(t, ht, x, c, e, y, 1))
  BY DEF Pending, Levels
<1>3. ASSUME NEW y \in H, y # x PROVE Level(t, ht, y, ht[Child(t, y, 0)], ht[Child(t, y, 1)])
  <2>1. /\ Depth(t, ht, x, c, e, y, 0) = ht[Child(t, y, 0)] /\ Depth(t, ht, x, c, e, y, 1) = ht[Child(t, y, 1)]
    BY <1>1, <1>3 DEF Depth
  <2>. QED BY <2>1, <1>2
<1>4. 1 - c \in {0, 1} /\ c # 1 - c
  OBVIOUS
<1>5. LevelOn(t, ht, x, c, ht[Child(t, x, c)] + e, ht[Child(t, x, 1 - c)])
  <2> DEFINE l == Depth(t, ht, x, c, e, x, 0)
             r == Depth(t, ht, x, c, e, x, 1)
  <2>1. l \in Int /\ r \in Int
    BY <1>1 DEF Depth
  <2>2. (IF c = 0 THEN l ELSE r) = ht[Child(t, x, c)] + e /\ (IF c = 0 THEN r ELSE l) = ht[Child(t, x, 1 - c)]
    <3>1. CASE c = 0
      BY <3>1, <1>1 DEF Depth
    <3>2. CASE c = 1
      BY <3>2, <1>1 DEF Depth
    <3>. QED BY <3>1, <3>2
  <2>3. Level(t, ht, x, l, r)
    BY <1>2
  <2>. HIDE DEF l, r
  <2>4. LevelOn(t, ht, x, c, IF c = 0 THEN l ELSE r, IF c = 0 THEN r ELSE l)
    BY <2>1, <2>3, LevelTurn
  <2>. QED BY <2>2, <2>4
<1>6. Which(t, x) \in {0, 1} /\ Bal(t, x) \in Int
  BY <1>0, Fields
<1>7. ht[x] \in Nat
  BY <1>0
<1>. QED BY <1>0, <1>1, <1>3, <1>4, <1>5, <1>6, <1>7 DEF AtNode

\* Setting the balance of x to the difference of its levels.
LEMMA Rebalanced ==
  ASSUME NEW t, NEW H, NEW sub, NEW rk, Shape(t, H, sub, rk), NEW x \in H, NEW c \in {0, 1}, NEW ht,
         ht \in [Slots -> Nat], ht[Null] = 0, \A y \in H : ht[y] > 0,
         \A y \in H : y # x => Level(t, ht, y, ht[Child(t, y, 0)], ht[Child(t, y, 1)]),
         NEW b \in {-1, 0, 1},
         b = IF c = 1 THEN ht[Child(t, x, c)] - ht[Child(t, x, 1 - c)]
             ELSE ht[Child(t, x, 1 - c)] - ht[Child(t, x, c)]
  PROVE  /\ Rises(SetBal(t, x, b), t, H, sub, ht, rk, x, 1 + Larger(ht[Child(t, x, c)], ht[Child(t, x, 1 - c)]))
         /\ Balanced(SetBal(t, x, b), t, x, b)
<1> DEFINE u == SetBal(t, x, b)
           h == 1 + Larger(ht[Child(t, x, c)], ht[Child(t, x, 1 - c)])
           ht2 == [y \in Slots |-> IF y = x THEN h ELSE ht[y]]
           p == Parent(t, x)
           w == Which(t, x)
<1>1. /\ Linked(t, H) /\ t \in AnyTree /\ H \subseteq Slots /\ H \subseteq NodeIds /\ Null \in Slots
      /\ Null \notin H /\ 1 - c \in {0, 1} /\ \A y \in H : \A d \in {0, 1} : Child(t, y, d) \in H \cup {Null}
  BY Names DEF Shape, Linked
<1>2. \A d \in {0, 1} : ht[Child(t, x, d)] \in Nat
  BY <1>1
<1>3. h \in Nat /\ h > 0
  BY <1>1, <1>2 DEF Larger
<1>4. Balanced(u, t, x, b)
  BY <1>1, SetBalIs
<1>. HIDE DEF u
<1>5. Shape(u, H, sub, rk)
  <2>1. u \in AnyTree /\ u.root = t.root /\ \A y \in H : Parent(u, y) = Parent(t, y) /\ Which(u, y) = Which(t, y)
    BY <1>1, <1>4 DEF Balanced
  <2>2. \A y \in H : \A d \in {0, 1} : Child(u, y, d) = Child(t, y, d)
    BY <1>1, <1>4 DEF Balanced
  <2>. QED BY <2>1, <2>2, SameShape
<1>6. /\ ht2 \in [Slots -> Nat] /\ ht2[x] = h /\ \A y \in Slots \ {x} : ht2[y] = ht[y]
  <2>. HIDE DEF h
  <2>. QED BY <1>1, <1>3
<1>7. p \in H \cup {Null} /\ w \in {0, 1} /\ (p # Null => Child(t, p, w) = x) /\ p # x
  <2>1. p \in H \cup {Null} /\ w \in {0, 1}
    BY <1>1, Fields DEF Linked
  <2>2. p # Null => Child(t, p, w) = x
    BY <1>1, <2>1 DEF Linked
  <2>3. p # x
    <3>1. \A d \in {0, 1} : Child(t, x, d) # x
      <4>1. ASSUME NEW d \in {0, 1} PROVE Child(t, x, d) # x
        <5>1. x \notin sub[Child(t, x, d)] /\ x \in sub[x]
          BY Sides
        <5>. QED BY <5>1
      <4>. QED BY <4>1
    <3>. QED BY <3>1, <2>1, <2>2, <1>1
  <2>. QED BY <2>1, <2>2, <2>3
<1>. HIDE DEF h, ht2, p, w
<1> DEFINE e == ht[x] - h
<1>8. \A y \in H \ {x} : Level(u, ht2, y, Depth(u, ht2, p, w, e, y, 0), Depth(u, ht2, p, w, e, y, 1))
  <2>1. \A y \in H \ {x} : \A d \in {0, 1} :
           /\ Child(u, y, d) = IF y = p /\ d = w THEN x ELSE Child(t, y, d)
           /\ Child(t, y, d) \in {x} => y = p /\ d = w
    <3>1. \A y \in H : \A d \in {0, 1} : Child(u, y, d) = Child(t, y, d)
      BY <1>1, <1>4 DEF Balanced
    <3>2. \A y \in H : \A d \in {0, 1} : Child(t, y, d) = x => y = p /\ d = w
      BY <1>1 DEF Linked, p, w
    <3>. QED BY <3>1, <3>2, <1>1, <1>7
  <2>2. \A y \in H \ {x} : Bal(u, y) = Bal(t, y)
    BY <1>1, <1>4 DEF Balanced
  <2>3. x \in Slots
    BY <1>1
  <2>4. \A y \in H \ {x} : Level(t, ht, y, ht[Child(t, y, 0)], ht[Child(t, y, 1)])
    OBVIOUS
  <2>5. LET f == ht[x] - ht2[x]
        IN  \A y \in H \ {x} : Level(u, ht2, y, Depth(u, ht2, p, w, f, y, 0), Depth(u, ht2, p, w, f, y, 1))
    BY <1>1, <1>6, <1>7, <2>1, <2>2, <2>3, <2>4, RestLevels
  <2>. QED BY <2>5, <1>6
<1>9. Level(u, ht2, x, Depth(u, ht2, p, w, e, x, 0), Depth(u, ht2, p, w, e, x, 1))
  <2>1. \A d \in {0, 1} : Child(u, x, d) = Child(t, x, d) /\ Child(t, x, d) # x
    <3>1. \A d \in {0, 1} : Child(u, x, d) = Child(t, x, d)
      BY <1>1, <1>4 DEF Balanced
    <3>2. \A d \in {0, 1} : Child(t, x, d) = x => p = x
      BY <1>1 DEF Linked, p
    <3>. QED BY <3>1, <3>2, <1>7
  <2>2. \A d \in {0, 1} : ht2[Child(t, x, d)] = ht[Child(t, x, d)]
    BY <2>1, <1>1, <1>6
  <2>3. \A d \in {0, 1} : Depth(u, ht2, p, w, e, x, d) = ht[Child(t, x, d)]
    BY <2>1, <2>2, <1>2, <1>7 DEF Depth
  <2>4. Bal(u, x) = b
    BY <1>1, <1>4 DEF Balanced
  <2>5. Larger(ht[Child(t, x, 0)], ht[Child(t, x, 1)]) = Larger(ht[Child(t, x, 1)], ht[Child(t, x, 0)])
    BY <1>2 DEF Larger
  <2>6. h = 1 + Larger(ht[Child(t, x, 0)], ht[Child(t, x, 1)]) /\ b = ht[Child(t, x, 1)] - ht[Child(t, x, 0)]
    <3>1. CASE c = 0
      BY <3>1 DEF h
    <3>2. CASE c = 1
      BY <3>2, <2>5 DEF h
    <3>. QED BY <3>1, <3>2
  <2>7. Level(u, ht2, x, ht[Child(t, x, 0)], ht[Child(t, x, 1)])
    BY <2>4, <2>6, <1>6 DEF Level
  <2>. QED BY <2>3, <2>7
<1>10. Levels(u, H, ht2, p, w, e)
  <2>1. \A y \in H : Level(u, ht2, y, Depth(u, ht2, p, w, e, y, 0), Depth(u, ht2, p, w, e, y, 1))
    BY <1>8, <1>9
  <2>2. (\A y \in H : ht2[y] > 0) /\ ht2[Null] = 0
    BY <1>1, <1>3, <1>6
  <2>. QED BY <2>1, <2>2, <1>6 DEF Levels
<1>11. Rises(u, t, H, sub, ht, rk, x, h)
  BY <1>5, <1>10 DEF Rises, Pending, p, w
<1>. QED BY <1>4, <1>11 DEF u, h

\* One step up.
LEMMA Up ==
  ASSUME NEW t, NEW H, NEW sub, NEW rk, Shape(t, H, sub, rk), NEW x \in H
  PROVE  /\ Parent(t, x) \in H \cup {Null} /\ Which(t, x) \in {0, 1}
         /\ Parent(t, x) = Null <=> x = t.root
         /\ Parent(t, x) # Null =>
              /\ Parent(t, x) \in H /\ Child(t, Parent(t, x), Which(t, x)) = x
              /\ Parent(t, x) \notin sub[x] /\ sub[x] \subseteq sub[Parent(t, x)]
              /\ Mass(sub)[Parent(t, x)] > Mass(sub)[x]
<1>1. Linked(t, H) /\ t \in AnyTree /\ x \in NodeIds
  BY DEF Shape, Linked
<1>2. /\ Parent(t, x) \in H \cup {Null} /\ Which(t, x) \in {0, 1} /\ (Parent(t, x) = Null <=> x = t.root)
  BY <1>1, Fields DEF Linked
<1>3. ASSUME Parent(t, x) # Null
      PROVE  /\ Parent(t, x) \in H /\ Child(t, Parent(t, x), Which(t, x)) = x
             /\ Parent(t, x) \notin sub[x] /\ sub[x] \subseteq sub[Parent(t, x)]
             /\ Mass(sub)[Parent(t, x)] > Mass(sub)[x]
  <2>1. Parent(t, x) \in H /\ Child(t, Parent(t, x), Which(t, x)) = x
    BY <1>1, <1>2, <1>3 DEF Linked
  <2>2. /\ Parent(t, x) \notin sub[Child(t, Parent(t, x), Which(t, x))]
        /\ sub[Child(t, Parent(t, x), Which(t, x))] \subseteq sub[Parent(t, x)]
    BY <1>2, <2>1, Sides
  <2>3. Mass(sub)[x] < Mass(sub)[Parent(t, x)] /\ Mass(sub)[x] \in Nat /\ Mass(sub)[Parent(t, x)] \in Nat
    BY <1>2, <2>1, Masses
  <2>. QED BY <2>1, <2>2, <2>3
<1>. QED BY <1>2, <1>3

\* The place that the way up after an insertion has reached, after n turns.
Grows(t, H, sub, ht, rk, x, c, n) ==
  IF x = Null THEN Tree(t, H, sub, ht, rk)
  ELSE LET ch == Child(t, x, c)
       IN  /\ Pending(t, H, sub, ht, rk, x, c, -1)
           /\ x \in H /\ ch \in H /\ (Bal(t, ch) # 0 \/ ht[ch] = 1) /\ Mass(sub)[x] > n

\* The way up after an insertion: at s.x one level more is not yet counted.
Growing(s, H, rk, m, n) ==
  /\ s.t \in AnyTree /\ s.t.num = m /\ s.c \in {0, 1}
  /\ \E sub, ht : Grows(s.t, H, sub, ht, rk, s.x, s.c, n)

\* The states of the way up.
Turning == [t : AnyTree, x : Slots, c : {0, 1}]

\* A turn of Grow goes on with the parent, or ends with a balanced tree.
LEMMA GrowStep ==
  ASSUME NEW s \in Turning, NEW H, NEW rk, NEW m, NEW n \in Nat, Growing(s, H, rk, m, n)
  PROVE  GrowTurn(s) \in Turning /\ Growing(GrowTurn(s), H, rk, m, n + 1)
<1> DEFINE t == s.t
           x == s.x
           c == s.c
           p == Parent(t, x)
           w == Which(t, x)
           new == Bal(t, x) + child2balance(c)
           done(a) == [t |-> a, x |-> Null, c |-> 0]
\* When nothing is left to do.
<1>1. ASSUME NEW a, a \in AnyTree, a.num = m, \E sub2, ht2 : Tree(a, H, sub2, ht2, rk)
      PROVE  done(a) \in Turning /\ Growing(done(a), H, rk, m, n + 1)
  <2>1. done(a).t = a /\ done(a).x = Null /\ done(a).c = 0
    OBVIOUS
  <2>2. \E sub2, ht2 : Grows(a, H, sub2, ht2, rk, Null, 0, n + 1)
    BY <1>1 DEF Grows
  <2>3. done(a) \in Turning
    BY <1>1, Names DEF Turning
  <2>. HIDE DEF done
  <2>. QED BY <1>1, <2>1, <2>2, <2>3 DEF Growing
<1>2. t \in AnyTree /\ t.num = m /\ c \in {0, 1} /\ x \in Slots
  BY DEF Growing, Turning
<1>3. PICK sub, ht : Grows(t, H, sub, ht, rk, x, c, n)
  BY DEF Growing
<1>4. CASE x = Null
  <2>1. GrowTurn(s) = s
    BY <1>4 DEF GrowTurn
  <2>2. Grows(t, H, sub, ht, rk, x, c, n + 1)
    BY <1>3, <1>4 DEF Grows
  <2>. QED BY <2>1, <2>2, <1>2 DEF Growing
<1>5. CASE x # Null
  <2> DEFINE ch == Child(t, x, c)
             oth == Child(t, x, 1 - c)
  <2>1. /\ Pending(t, H, sub, ht, rk, x, c, -1) /\ x \in H /\ ch \in H
        /\ Bal(t, ch) # 0 \/ ht[ch] = 1
        /\ Mass(sub)[x] > n
    BY <1>3, <1>5 DEF Grows
  <2>2. /\ LevelOn(t, ht, x, c, ht[ch] + -1, ht[oth])
        /\ \A y \in H : y # x => Level(t, ht, y, ht[Child(t, y, 0)], ht[Child(t, y, 1)])
        /\ ht \in [Slots -> Nat] /\ ht[Null] = 0 /\ \A y \in H : ht[y] > 0
        /\ ht[ch] \in Nat /\ ht[oth] \in Nat /\ ht[x] \in Nat
        /\ p \in H \cup {Null} /\ w \in {0, 1} /\ 1 - c \in {0, 1} /\ x \in NodeIds
    <3>1. -1 \in Int
      OBVIOUS
    <3>2. x \in H /\ c \in {0, 1} /\ Pending(t, H, sub, ht, rk, x, c, -1)
      BY <1>2, <2>1
    <3>. HIDE DEF t, x, c
    <3>3. AtNode(t, H, ht, x, c, -1)
      BY <3>1, <3>2, PendingAt
    <3>. QED BY <3>3 DEF AtNode
  <2>3. Shape(t, H, sub, rk)
    BY <2>1 DEF Pending
  <2>4. /\ ht[x] = 1 + Larger(ht[ch] - 1, ht[oth]) /\ Bal(t, x) \in {-1, 0, 1}
        /\ Bal(t, x) = IF c = 1 THEN (ht[ch] - 1) - ht[oth] ELSE ht[oth] - (ht[ch] - 1)
    BY <2>2 DEF LevelOn
  <2>5. new = IF c = 1 THEN ht[ch] - ht[oth] ELSE ht[oth] - ht[ch]
    <3>. HIDE DEF ch, oth
    <3>. QED BY <1>2, <2>2, <2>4 DEF child2balance
  <2>6. CASE new \in {-1, 0, 1}
    <3> DEFINE a == SetBal(t, x, new)
    <3>1. /\ Rises(a, t, H, sub, ht, rk, x, 1 + Larger(ht[ch], ht[oth])) /\ Balanced(a, t, x, new)
      <4>. HIDE DEF t, x, c, new
      <4>. QED BY <1>2, <2>1, <2>2, <2>3, <2>5, <2>6, Rebalanced
    <3>2. a \in AnyTree /\ a.num = m
      BY <3>1, <1>2 DEF Balanced
    <3>3. CASE new = 0
      <4>1. GrowTurn(s) = done(a)
        BY <1>5, <3>3 DEF GrowTurn
      <4>2. 1 + Larger(ht[ch], ht[oth]) = ht[x]
        <5>. HIDE DEF ch, oth, new
        <5>. QED BY <1>2, <2>2, <2>4, <2>5, <3>3 DEF Larger
      <4>3. \E sub2, ht2 : Tree(a, H, sub2, ht2, rk)
        <5>1. PICK sub2, ht2 : Pending(a, H, sub2, ht2, rk, p, w, ht[x] - ht[x])
          BY <3>1, <4>2 DEF Rises
        <5>2. ht[x] - ht[x] = 0
          BY <2>2
        <5>. QED BY <5>1, <5>2, PendingNone
      <4>. HIDE DEF a, done
      <4>. QED BY <4>1, <4>3, <3>2, <1>1
    <3>4. CASE new # 0
      <4>1. Bal(t, x) = 0
        <5>. HIDE DEF ch, oth
        <5>. QED BY <1>2, <2>4, <2>6, <3>4 DEF child2balance
      <4>2. GrowTurn(s) = [t |-> a, x |-> p, c |-> w]
        BY <1>5, <3>4, <4>1 DEF GrowTurn
      <4>3. ht[x] - (1 + Larger(ht[ch], ht[oth])) = -1
        <5>. HIDE DEF ch, oth, new
        <5>. QED BY <1>2, <2>2, <2>4, <2>5, <2>6, <4>1, <3>4 DEF Larger
      <4>4. PICK sub2, ht2 : /\ Pending(a, H, sub2, ht2, rk, p, w, -1)
                             /\ \A y \in H : y \notin sub[x] => sub2[y] = sub[y]
        BY <3>1, <4>3 DEF Rises
      <4>5. Grows(a, H, sub2, ht2, rk, p, w, n + 1)
        <5>1. CASE p = Null
          <6>. HIDE DEF a, p, w
          <6>1. Tree(a, H, sub2, ht2, rk)
            BY <4>4, <5>1, PendingNone
          <6>. QED BY <5>1, <6>1 DEF Grows
        <5>2. CASE p # Null
          <6>1. /\ p \in H /\ Child(t, p, w) = x /\ p \notin sub[x] /\ Mass(sub)[p] > Mass(sub)[x]
            BY <2>1, <2>3, <5>2, Up
          <6>2. Child(a, p, w) = x /\ Bal(a, x) = new
            <7>1. p \in NodeIds
              BY <6>1, <2>3 DEF Shape, Linked
            <7>. HIDE DEF a, p, w, new
            <7>. QED BY <7>1, <6>1, <2>2, <3>1 DEF Balanced
          <6>3. Mass(sub)[p] \in Nat /\ Mass(sub)[x] \in Nat /\ p \in Slots
            <7>1. \A y \in H : Mass(sub)[y] \in Nat
              BY <2>3, Masses
            <7>2. H \subseteq Slots
              BY <2>3, Names DEF Shape, Linked
            <7>. QED BY <7>1, <7>2, <6>1, <2>1
          <6>4. Mass(sub2)[p] > n + 1
            <7>1. sub2[p] = sub[p]
              BY <4>4, <6>1
            <7>2. Mass(sub2)[p] = Mass(sub)[p]
              BY <7>1, <6>3 DEF Mass
            <7>. QED BY <7>2, <6>1, <6>3, <2>1
          <6>. HIDE DEF a, p, w, new
          <6>. QED BY <4>4, <5>2, <6>1, <6>2, <6>4, <2>1, <3>4 DEF Grows
        <5>. QED BY <5>1, <5>2
      <4>6. p \in Slots
        BY <2>2, <2>3, Names DEF Shape, Linked
      <4>. HIDE DEF a, p, w
      <4>7. [t |-> a, x |-> p, c |-> w] \in Turning
        BY <4>6, <3>2, <2>2 DEF Turning
      <4>. QED BY <4>2, <4>5, <4>7, <3>2, <2>2 DEF Growing
    <3>. QED BY <3>3, <3>4
  <2>7. CASE new \notin {-1, 0, 1}
    <3> DEFINE r == avl_rotation(t, x, new)
    <3>1. /\ Bal(t, x) # 0 /\ new = 2 * child2balance(c) /\ ht[ch] = ht[oth] + 2 /\ ht[x] = ht[ch] /\ new # 0
          /\ ht[ch] # 1
      <4>. HIDE DEF ch, oth
      <4>1. CASE c = 0
        BY <4>1, <2>2, <2>4, <2>5, <2>7 DEF Larger, child2balance
      <4>2. CASE c = 1
        BY <4>2, <2>2, <2>4, <2>5, <2>7 DEF Larger, child2balance
      <4>. QED BY <4>1, <4>2, <1>2
    <3>2. Heavy(t, H, ht, x, c)
      BY <2>2, <3>1 DEF Heavy
    <3>3. /\ Rises(r.t, t, H, sub, ht, rk, x, IF Bal(t, ch) = 0 THEN ht[ch] + 1 ELSE ht[ch])
          /\ r.t.num = t.num
      <4>. HIDE DEF t, x, c, new
      <4>. QED BY <1>2, <2>1, <2>3, <3>1, <3>2, RotationRises
    <3>4. Rises(r.t, t, H, sub, ht, rk, x, ht[x])
      <4>1. Bal(t, ch) # 0
        BY <2>1, <3>1
      <4>. QED BY <4>1, <3>1, <3>3
    <3>5. PICK sub2, ht2 : Pending(r.t, H, sub2, ht2, rk, p, w, ht[x] - ht[x])
      BY <3>4 DEF Rises
    <3>6. Tree(r.t, H, sub2, ht2, rk)
      <4>1. ht[x] - ht[x] = 0
        BY <2>2
      <4>. HIDE DEF r
      <4>. QED BY <3>5, <4>1, PendingNone
    <3>7. r.t \in AnyTree
      <4>. HIDE DEF r
      <4>. QED BY <3>5 DEF Pending, Shape, Linked
    <3>8. GrowTurn(s) = done(r.t)
      BY <1>5, <3>1 DEF GrowTurn
    <3>9. r.t.num = m
      BY <3>3, <1>2
    <3>. HIDE DEF r, done
    <3>. QED BY <3>6, <3>7, <3>8, <3>9, <1>1
  <2>. QED BY <2>6, <2>7
<1>. QED BY <1>4, <1>5

\* Grow restores the balance on its way up.
LEMMA GrowIs ==
  ASSUME NEW t \in AnyTree, NEW H, NEW sub, NEW ht, NEW rk, NEW x \in Slots, NEW c \in {0, 1},
         Grows(t, H, sub, ht, rk, x, c, 0)
  PROVE  /\ \E sub2, ht2 : Tree(Grow(t, x, c), H, sub2, ht2, rk)
         /\ Grow(t, x, c).num = t.num
<1> DEFINE first == [t |-> t, x |-> x, c |-> c]
           V == [i \in Nat |-> {s \in Turning : Growing(s, H, rk, t.num, i)}]
           F == [s \in Turning |-> GrowTurn(s)]
           go[i \in 0 .. Turns] == IF i = 0 THEN first ELSE GrowTurn(go[i - 1])
<1>0. Turns \in Nat
  BY Finite
<1>1. first \in V[0]
  <2>1. first \in Turning
    BY DEF Turning
  <2>2. Growing(first, H, rk, t.num, 0)
    BY DEF Growing
  <2>. QED BY <2>1, <2>2
<1>2. ASSUME NEW i \in Nat, NEW s \in V[i] PROVE GrowTurn(s) \in V[i + 1] /\ F[s] = GrowTurn(s)
  <2>1. s \in Turning /\ Growing(s, H, rk, t.num, i)
    OBVIOUS
  <2>2. GrowTurn(s) \in Turning /\ Growing(GrowTurn(s), H, rk, t.num, i + 1)
    BY <2>1, GrowStep
  <2>. QED BY <2>1, <2>2
<1>. HIDE DEF first, V
<1>3. \A i \in 0 .. Turns - 1 : \A s \in V[i] : F[s] \in V[i + 1]
  <2>1. ASSUME NEW i \in 0 .. Turns - 1, NEW s \in V[i] PROVE F[s] \in V[i + 1]
    <3>1. i \in Nat
      BY <1>0
    <3>2. GrowTurn(s) \in V[i + 1] /\ F[s] = GrowTurn(s)
      BY <1>2, <3>1
    <3>. QED BY <3>2
  <2>. QED BY <2>1
<1>4. PICK g : Loops(g, Turns, first, F, V)
  <2>. HIDE DEF F
  <2>. QED BY <1>0, <1>1, <1>3, LoopExists
<1>5. g = [i \in 0 .. Turns |-> IF i = 0 THEN first ELSE GrowTurn(g[i - 1])]
  <2>1. ASSUME NEW i \in 0 .. Turns, i # 0 PROVE F[g[i - 1]] = GrowTurn(g[i - 1])
    <3>1. i - 1 \in 0 .. Turns /\ i - 1 \in Nat
      BY <2>1, <1>0
    <3>2. g[i - 1] \in V[i - 1]
      BY <3>1, <1>4 DEF Loops
    <3>. HIDE DEF F
    <3>. QED BY <3>1, <3>2, <1>2
  <2>. HIDE DEF F
  <2>2. ASSUME NEW i \in 0 .. Turns
        PROVE  (IF i = 0 THEN first ELSE F[g[i - 1]]) = (IF i = 0 THEN first ELSE GrowTurn(g[i - 1]))
    BY <2>1
  <2>3. [i \in 0 .. Turns |-> IF i = 0 THEN first ELSE F[g[i - 1]]]
          = [i \in 0 .. Turns |-> IF i = 0 THEN first ELSE GrowTurn(g[i - 1])]
    BY <2>2, Zenon
  <2>. QED BY <2>3, <1>4, Zenon DEF Loops
<1>. HIDE DEF F
<1>6. go = [i \in 0 .. Turns |-> IF i = 0 THEN first ELSE GrowTurn(go[i - 1])]
  BY <1>5
<1>7. Grow(t, x, c) = go[Turns].t
  BY DEF Grow, first
<1>. HIDE DEF go
<1>8. go[0] \in V[0] /\ \A i \in 0 .. Turns - 1 : go[i] \in V[i] => go[i + 1] \in V[i + 1]
  <2>1. go[0] = first
    <3>1. 0 \in 0 .. Turns
      BY <1>0
    <3>. QED BY <3>1, <1>6
  <2>2. ASSUME NEW i \in 0 .. Turns - 1, go[i] \in V[i] PROVE go[i + 1] \in V[i + 1]
    <3>1. i \in Nat /\ i + 1 \in 0 .. Turns /\ i + 1 # 0 /\ (i + 1) - 1 = i
      BY <1>0
    <3>2. go[i + 1] = GrowTurn(go[(i + 1) - 1])
      BY <3>1, <1>6, Zenon
    <3>. QED BY <3>1, <3>2, <2>2, <1>2
  <2>. QED BY <2>1, <2>2, <1>1
<1>9. go[Turns] \in V[Turns]
  BY <1>0, <1>8, LoopEnds
<1> DEFINE s == go[Turns]
<1>10. Growing(s, H, rk, t.num, Turns)
  BY <1>0, <1>9 DEF V
<1>. HIDE DEF s
<1>11. PICK sub2, ht2 : Grows(s.t, H, sub2, ht2, rk, s.x, s.c, Turns)
  BY <1>10 DEF Growing
<1>12. s.x = Null
  <2>1. SUFFICES ASSUME s.x # Null PROVE FALSE
    OBVIOUS
  <2>2. Shape(s.t, H, sub2, rk) /\ s.x \in H /\ Mass(sub2)[s.x] > Turns
    BY <2>1, <1>11 DEF Grows, Pending
  <2>3. Mass(sub2)[s.x] <= Turns /\ Mass(sub2)[s.x] \in Nat
    BY <2>2, Masses
  <2>. QED BY <2>2, <2>3, <1>0
<1>13. Tree(s.t, H, sub2, ht2, rk)
  BY <1>11, <1>12 DEF Grows
<1>. QED BY <1>7, <1>10, <1>13 DEF s, Growing

\* The place that the way up after a removal has reached, after n turns.
Shrinks(t, H, sub, ht, rk, x, c, n) ==
  IF x = Null THEN Tree(t, H, sub, ht, rk)
  ELSE Pending(t, H, sub, ht, rk, x, c, 1) /\ x \in H /\ Mass(sub)[x] > n

\* The way up after a removal: at s.x one level less is not yet counted.
Shrinking(s, H, rk, m, n) ==
  /\ s.t \in AnyTree /\ s.t.num = m /\ s.c \in {0, 1}
  /\ \E sub, ht : Shrinks(s.t, H, sub, ht, rk, s.x, s.c, n)

\* The way up goes on with one level less at the node, or is at its end.
LEMMA ShrinkOn ==
  ASSUME NEW t, NEW H, NEW sub, NEW ht, NEW rk, NEW x \in H, Shape(t, H, sub, rk), NEW a,
         NEW k, Rises(a, t, H, sub, ht, rk, x, k), ht[x] - k = 1, NEW n \in Nat, Mass(sub)[x] > n
  PROVE  \E sub2, ht2 : Shrinks(a, H, sub2, ht2, rk, Parent(t, x), Which(t, x), n + 1)
<1> DEFINE p == Parent(t, x)
           w == Which(t, x)
<1>1. PICK sub2, ht2 : /\ Pending(a, H, sub2, ht2, rk, p, w, 1)
                       /\ \A y \in H : y \notin sub[x] => sub2[y] = sub[y]
  BY DEF Rises
<1>2. CASE p = Null
  <2>. HIDE DEF p, w
  <2>1. Tree(a, H, sub2, ht2, rk)
    BY <1>1, <1>2, PendingNone
  <2>2. Shrinks(a, H, sub2, ht2, rk, p, w, n + 1)
    BY <1>2, <2>1 DEF Shrinks
  <2>. QED BY <2>2 DEF p, w
<1>3. CASE p # Null
  <2>1. p \in H /\ Child(t, p, w) = x /\ p \notin sub[x] /\ Mass(sub)[p] > Mass(sub)[x]
    BY <1>3, Up
  <2>2. \A y \in H : Mass(sub)[y] \in Nat
    BY Masses
  <2>3. H \subseteq Slots
    BY Names DEF Shape, Linked
  <2>4. sub2[p] = sub[p]
    BY <1>1, <2>1
  <2>5. Mass(sub2)[p] = Mass(sub)[p]
    BY <2>1, <2>3, <2>4 DEF Mass
  <2>6. Mass(sub2)[p] > n + 1
    BY <2>1, <2>2, <2>5
  <2>. HIDE DEF p, w
  <2>7. Shrinks(a, H, sub2, ht2, rk, p, w, n + 1)
    BY <1>1, <1>3, <2>1, <2>6 DEF Shrinks
  <2>. QED BY <2>7 DEF p, w
<1>. QED BY <1>2, <1>3

\* A turn of Shrink goes on with the parent, or ends with a balanced tree.
LEMMA ShrinkStep ==
  ASSUME NEW s \in Turning, NEW H, NEW rk, NEW m, NEW n \in Nat, Shrinking(s, H, rk, m, n)
  PROVE  ShrinkTurn(s) \in Turning /\ Shrinking(ShrinkTurn(s), H, rk, m, n + 1)
<1> DEFINE t == s.t
           x == s.x
           c == s.c
           p == Parent(t, x)
           w == Which(t, x)
           new == Bal(t, x) - child2balance(c)
           to(a, y, d) == [t |-> a, x |-> y, c |-> d]
           Good(a, y, d) == \E sub2, ht2 : Shrinks(a, H, sub2, ht2, rk, y, d, n + 1)
<1>1. ASSUME NEW a, a \in AnyTree, a.num = m, NEW y \in Slots, NEW d \in {0, 1}, Good(a, y, d)
      PROVE  to(a, y, d) \in Turning /\ Shrinking(to(a, y, d), H, rk, m, n + 1)
  <2>1. to(a, y, d).t = a /\ to(a, y, d).x = y /\ to(a, y, d).c = d
    OBVIOUS
  <2>2. to(a, y, d) \in Turning
    BY <1>1 DEF Turning
  <2>. HIDE DEF to
  <2>. QED BY <1>1, <2>1, <2>2 DEF Shrinking
<1>2. t \in AnyTree /\ t.num = m /\ c \in {0, 1} /\ x \in Slots /\ Null \in Slots
  BY Names DEF Shrinking, Turning
<1>3. PICK sub, ht : Shrinks(t, H, sub, ht, rk, x, c, n)
  BY DEF Shrinking
<1>4. CASE x = Null
  <2>1. ShrinkTurn(s) = s
    BY <1>4 DEF ShrinkTurn
  <2>2. Shrinks(t, H, sub, ht, rk, x, c, n + 1)
    BY <1>3, <1>4 DEF Shrinks
  <2>. QED BY <2>1, <2>2, <1>2 DEF Shrinking
<1>5. CASE x # Null
  <2> DEFINE ch == Child(t, x, c)
             oth == Child(t, x, 1 - c)
  <2>1. Pending(t, H, sub, ht, rk, x, c, 1) /\ x \in H /\ Mass(sub)[x] > n
    BY <1>3, <1>5 DEF Shrinks
  <2>2. /\ LevelOn(t, ht, x, c, ht[ch] + 1, ht[oth])
        /\ \A y \in H : y # x => Level(t, ht, y, ht[Child(t, y, 0)], ht[Child(t, y, 1)])
        /\ ht \in [Slots -> Nat] /\ ht[Null] = 0 /\ \A y \in H : ht[y] > 0
        /\ ht[ch] \in Nat /\ ht[oth] \in Nat /\ ht[x] \in Nat
        /\ p \in H \cup {Null} /\ w \in {0, 1} /\ 1 - c \in {0, 1} /\ x \in NodeIds /\ 1 - (1 - c) = c
        /\ H \subseteq Slots
    <3>1. 1 \in Int
      OBVIOUS
    <3>2. x \in H /\ c \in {0, 1} /\ Pending(t, H, sub, ht, rk, x, c, 1) /\ 1 - (1 - c) = c
      BY <1>2, <2>1
    <3>. HIDE DEF t, x, c
    <3>3. AtNode(t, H, ht, x, c, 1)
      BY <3>1, <3>2, PendingAt
    <3>. QED BY <3>2, <3>3 DEF AtNode
  <2>3. Shape(t, H, sub, rk) /\ p \in Slots
    BY <2>1, <2>2, <1>2 DEF Pending
  <2>4. /\ ht[x] = 1 + Larger(ht[ch] + 1, ht[oth]) /\ Bal(t, x) \in {-1, 0, 1}
        /\ Bal(t, x) = IF c = 1 THEN (ht[ch] + 1) - ht[oth] ELSE ht[oth] - (ht[ch] + 1)
    BY <2>2 DEF LevelOn
  <2>5. new = IF c = 1 THEN ht[ch] - ht[oth] ELSE ht[oth] - ht[ch]
    <3>. HIDE DEF ch, oth
    <3>. QED BY <1>2, <2>2, <2>4 DEF child2balance
  <2>6. CASE new \in {-1, 0, 1}
    <3> DEFINE a == SetBal(t, x, new)
    <3>1. /\ Rises(a, t, H, sub, ht, rk, x, 1 + Larger(ht[ch], ht[oth])) /\ Balanced(a, t, x, new)
      <4>. HIDE DEF t, x, c, new
      <4>. QED BY <1>2, <2>1, <2>2, <2>3, <2>5, <2>6, Rebalanced
    <3>2. a \in AnyTree /\ a.num = m
      BY <3>1, <1>2 DEF Balanced
    <3>3. CASE Bal(t, x) = 0
      <4>1. ShrinkTurn(s) = to(a, Null, 0)
        BY <1>5, <3>3 DEF ShrinkTurn
      <4>2. 1 + Larger(ht[ch], ht[oth]) = ht[x]
        <5>. HIDE DEF ch, oth, new
        <5>. QED BY <1>2, <2>2, <2>4, <2>5, <3>3 DEF Larger
      <4>3. Good(a, Null, 0)
        <5>1. PICK sub2, ht2 : Pending(a, H, sub2, ht2, rk, p, w, ht[x] - ht[x])
          BY <3>1, <4>2 DEF Rises
        <5>2. ht[x] - ht[x] = 0
          BY <2>2
        <5>3. Tree(a, H, sub2, ht2, rk)
          BY <5>1, <5>2, PendingNone
        <5>. QED BY <5>3 DEF Shrinks
      <4>. HIDE DEF a, to, Good
      <4>. QED BY <4>1, <4>3, <3>2, <1>1, <1>2
    <3>4. CASE Bal(t, x) # 0
      <4>1. new = 0
        <5>. HIDE DEF ch, oth
        <5>. QED BY <1>2, <2>4, <2>6, <3>4 DEF child2balance
      <4>2. ShrinkTurn(s) = to(a, p, w)
        BY <1>5, <3>4, <4>1 DEF ShrinkTurn
      <4>3. ht[x] - (1 + Larger(ht[ch], ht[oth])) = 1
        <5>. HIDE DEF ch, oth, new
        <5>1. ht[ch] = ht[oth]
          BY <1>2, <2>2, <2>5, <4>1
        <5>2. ht[x] = 1 + (ht[ch] + 1)
          BY <5>1, <2>2, <2>4 DEF Larger
        <5>. QED BY <5>1, <5>2, <2>2 DEF Larger
      <4>4. Good(a, p, w)
        <5>. HIDE DEF a, t, x
        <5>. QED BY <2>1, <2>3, <3>1, <4>3, ShrinkOn DEF Good
      <4>. HIDE DEF a, to, p, w, Good
      <4>. QED BY <4>2, <4>4, <3>2, <2>2, <2>3, <1>1
    <3>. QED BY <3>3, <3>4
  <2>7. CASE new \notin {-1, 0, 1}
    <3> DEFINE r == avl_rotation(t, x, new)
               k == IF Bal(t, oth) = 0 THEN ht[oth] + 1 ELSE ht[oth]
    <3>1. /\ Bal(t, x) # 0 /\ new = 2 * child2balance(1 - c) /\ ht[oth] = ht[ch] + 2 /\ ht[x] = ht[oth] + 1
          /\ new # 0
      <4>. HIDE DEF ch, oth
      <4>1. CASE c = 0
        BY <4>1, <2>2, <2>4, <2>5, <2>7 DEF Larger, child2balance
      <4>2. CASE c = 1
        BY <4>2, <2>2, <2>4, <2>5, <2>7 DEF Larger, child2balance
      <4>. QED BY <4>1, <4>2, <1>2
    <3>2. Heavy(t, H, ht, x, 1 - c)
      BY <2>2, <3>1 DEF Heavy
    <3>3. Rises(r.t, t, H, sub, ht, rk, x, k) /\ r.t.num = t.num /\ r.shorter = (Bal(t, oth) # 0)
      <4>. HIDE DEF t, x, c, new
      <4>. QED BY <1>2, <2>1, <2>2, <2>3, <3>1, <3>2, RotationRises
    <3>4. r.t \in AnyTree
      <4>. HIDE DEF r, k
      <4>. QED BY <3>3 DEF Rises, Pending, Shape, Linked
    <3>5. ShrinkTurn(s) = to(r.t, IF r.shorter THEN p ELSE Null, w)
      BY <1>5, <3>1 DEF ShrinkTurn
    <3>6. CASE Bal(t, oth) = 0
      <4>1. r.shorter = FALSE /\ ht[x] - k = 0
        <5>1. k = ht[oth] + 1
          BY <3>6
        <5>2. r.shorter = FALSE
          BY <3>3, <3>6
        <5>. HIDE DEF k, r, oth, ch, t, x
        <5>3. ht[x] - k = 0
          BY <3>1, <5>1, <2>2
        <5>. QED BY <5>2, <5>3
      <4>2. PICK sub2, ht2 : Pending(r.t, H, sub2, ht2, rk, p, w, ht[x] - k)
        BY <3>3 DEF Rises
      <4>3. Good(r.t, Null, w)
        <5>. HIDE DEF r, k
        <5>1. Tree(r.t, H, sub2, ht2, rk)
          BY <4>1, <4>2, PendingNone
        <5>. QED BY <5>1 DEF Shrinks
      <4>4. ShrinkTurn(s) = to(r.t, Null, w)
        BY <3>5, <4>1
      <4>5. r.t.num = m
        BY <3>3, <1>2
      <4>. HIDE DEF r, to, p, w, Good
      <4>. QED BY <4>3, <4>4, <4>5, <3>4, <2>2, <1>1, <1>2
    <3>7. CASE Bal(t, oth) # 0
      <4>1. r.shorter = TRUE /\ ht[x] - k = 1
        <5>1. k = ht[oth]
          BY <3>7
        <5>2. r.shorter = TRUE
          BY <3>3, <3>7
        <5>. HIDE DEF k, r, oth, ch, t, x
        <5>3. ht[x] - k = 1
          BY <3>1, <5>1, <2>2
        <5>. QED BY <5>2, <5>3
      <4>2. Good(r.t, p, w)
        <5>. HIDE DEF r, t, x, k
        <5>. QED BY <2>1, <2>3, <3>3, <4>1, ShrinkOn DEF Good
      <4>3. ShrinkTurn(s) = to(r.t, p, w)
        BY <3>5, <4>1
      <4>4. r.t.num = m
        BY <3>3, <1>2
      <4>. HIDE DEF r, to, p, w, Good
      <4>. QED BY <4>2, <4>3, <4>4, <3>4, <2>2, <2>3, <1>1
    <3>. QED BY <3>6, <3>7
  <2>. QED BY <2>6, <2>7
<1>. QED BY <1>4, <1>5

\* Shrink does after a removal.
LEMMA ShrinkIs ==
  ASSUME NEW t \in AnyTree, NEW H, NEW sub, NEW ht, NEW rk, NEW x \in Slots, NEW c \in {0, 1},
         Shrinks(t, H, sub, ht, rk, x, c, 0)
  PROVE  /\ \E sub2, ht2 : Tree(Shrink(t, x, c), H, sub2, ht2, rk)
         /\ Shrink(t, x, c).num = t.num
<1> DEFINE first == [t |-> t, x |-> x, c |-> c]
           V == [i \in Nat |-> {s \in Turning : Shrinking(s, H, rk, t.num, i)}]
           F == [s \in Turning |-> ShrinkTurn(s)]
           go[i \in 0 .. Turns] == IF i = 0 THEN first ELSE ShrinkTurn(go[i - 1])
<1>0. Turns \in Nat
  BY Finite
<1>1. first \in V[0]
  <2>1. first \in Turning
    BY DEF Turning
  <2>2. Shrinking(first, H, rk, t.num, 0)
    BY DEF Shrinking
  <2>. QED BY <2>1, <2>2
<1>2. ASSUME NEW i \in Nat, NEW s \in V[i] PROVE ShrinkTurn(s) \in V[i + 1] /\ F[s] = ShrinkTurn(s)
  <2>1. s \in Turning /\ Shrinking(s, H, rk, t.num, i)
    OBVIOUS
  <2>2. ShrinkTurn(s) \in Turning /\ Shrinking(ShrinkTurn(s), H, rk, t.num, i + 1)
    BY <2>1, ShrinkStep
  <2>. QED BY <2>1, <2>2
<1>. HIDE DEF first, V
<1>3. \A i \in 0 .. Turns - 1 : \A s \in V[i] : F[s] \in V[i + 1]
  <2>1. ASSUME NEW i \in 0 .. Turns - 1, NEW s \in V[i] PROVE F[s] \in V[i + 1]
    <3>1. i \in Nat
      BY <1>0
    <3>2. ShrinkTurn(s) \in V[i + 1] /\ F[s] = ShrinkTurn(s)
      BY <1>2, <3>1
    <3>. QED BY <3>2
  <2>. QED BY <2>1
<1>4. PICK g : Loops(g, Turns, first, F, V)
  <2>. HIDE DEF F
  <2>. QED BY <1>0, <1>1, <1>3, LoopExists
<1>5. g = [i \in 0 .. Turns |-> IF i = 0 THEN first ELSE ShrinkTurn(g[i - 1])]
  <2>1. ASSUME NEW i \in 0 .. Turns, i # 0 PROVE F[g[i - 1]] = ShrinkTurn(g[i - 1])
    <3>1. i - 1 \in 0 .. Turns /\ i - 1 \in Nat
      BY <2>1, <1>0
    <3>2. g[i - 1] \in V[i - 1]
      BY <3>1, <1>4 DEF Loops
    <3>. HIDE DEF F
    <3>. QED BY <3>1, <3>2, <1>2
  <2>. HIDE DEF F
  <2>2. ASSUME NEW i \in 0 .. Turns
        PROVE  (IF i = 0 THEN first ELSE F[g[i - 1]]) = (IF i = 0 THEN first ELSE ShrinkTurn(g[i - 1]))
    BY <2>1
  <2>3. [i \in 0 .. Turns |-> IF i = 0 THEN first ELSE F[g[i - 1]]]
          = [i \in 0 .. Turns |-> IF i = 0 THEN first ELSE ShrinkTurn(g[i - 1])]
    BY <2>2, Zenon
  <2>. QED BY <2>3, <1>4, Zenon DEF Loops
<1>. HIDE DEF F
<1>6. go = [i \in 0 .. Turns |-> IF i = 0 THEN first ELSE ShrinkTurn(go[i - 1])]
  BY <1>5
<1>7. Shrink(t, x, c) = go[Turns].t
  BY DEF Shrink, first
<1>. HIDE DEF go
<1>8. go[0] \in V[0] /\ \A i \in 0 .. Turns - 1 : go[i] \in V[i] => go[i + 1] \in V[i + 1]
  <2>1. go[0] = first
    <3>1. 0 \in 0 .. Turns
      BY <1>0
    <3>. QED BY <3>1, <1>6
  <2>2. ASSUME NEW i \in 0 .. Turns - 1, go[i] \in V[i] PROVE go[i + 1] \in V[i + 1]
    <3>1. i \in Nat /\ i + 1 \in 0 .. Turns /\ i + 1 # 0 /\ (i + 1) - 1 = i
      BY <1>0
    <3>2. go[i + 1] = ShrinkTurn(go[(i + 1) - 1])
      BY <3>1, <1>6, Zenon
    <3>. QED BY <3>1, <3>2, <2>2, <1>2
  <2>. QED BY <2>1, <2>2, <1>1
<1>9. go[Turns] \in V[Turns]
  BY <1>0, <1>8, LoopEnds
<1> DEFINE s == go[Turns]
<1>10. Shrinking(s, H, rk, t.num, Turns)
  BY <1>0, <1>9 DEF V
<1>. HIDE DEF s
<1>11. PICK sub2, ht2 : Shrinks(s.t, H, sub2, ht2, rk, s.x, s.c, Turns)
  BY <1>10 DEF Shrinking
<1>12. s.x = Null
  <2>1. SUFFICES ASSUME s.x # Null PROVE FALSE
    OBVIOUS
  <2>2. Shape(s.t, H, sub2, rk) /\ s.x \in H /\ Mass(sub2)[s.x] > Turns
    BY <2>1, <1>11 DEF Shrinks, Pending
  <2>3. Mass(sub2)[s.x] <= Turns /\ Mass(sub2)[s.x] \in Nat
    BY <2>2, Masses
  <2>. QED BY <2>2, <2>3, <1>0
<1>13. Tree(s.t, H, sub2, ht2, rk)
  BY <1>11, <1>12 DEF Shrinks
<1>. QED BY <1>7, <1>10, <1>13 DEF s, Shrinking
-----------------------------------------------------------------------------
(***************************************************************************)
(* Insertion.                                                              *)
(***************************************************************************)
\* u is t but for the fields of x, which are fresh, and the number of nodes.
Freshened(u, t, x, n) ==
  /\ u \in AnyTree /\ u.num = n /\ u.root = t.root
  /\ \A y \in NodeIds \ {x} :
       /\ Parent(u, y) = Parent(t, y) /\ Which(u, y) = Which(t, y) /\ Bal(u, y) = Bal(t, y)
       /\ \A d \in {0, 1} : Child(u, y, d) = Child(t, y, d)
  /\ Parent(u, x) = Null /\ Which(u, x) = 0 /\ Bal(u, x) = 0
  /\ \A d \in {0, 1} : Child(u, x, d) = Null

\* What the tree is once avl_insert has set up the new node.
LEMMA FreshIs ==
  ASSUME NEW t \in AnyTree, NEW x \in NodeIds, NEW n \in Int
  PROVE  Freshened([root |-> t.root, num |-> n, node |-> [t.node EXCEPT ![x] = Fresh]], t, x, n)
<1> DEFINE u == [root |-> t.root, num |-> n, node |-> [t.node EXCEPT ![x] = Fresh]]
<1>1. Fresh \in AnyNode
  <2>1. <<Null, Null>> \in [1 .. 2 -> Slots]
    BY Names
  <2>. QED BY <2>1, Names DEF Fresh, AnyNode
<1>2. /\ Fresh.parent = Null /\ Fresh.which = 0 /\ Fresh.bal = 0
      /\ \A d \in {0, 1} : Fresh.child[d + 1] = Null
  BY DEF Fresh
<1>3. t.node \in [NodeIds -> AnyNode] /\ t.root \in Slots
  BY DEF AnyTree
<1>4. u.root = t.root /\ u.num = n /\ u.node = [t.node EXCEPT ![x] = Fresh]
  OBVIOUS
<1>5. u \in AnyTree
  <2>1. [t.node EXCEPT ![x] = Fresh] \in [NodeIds -> AnyNode]
    BY <1>1, <1>3
  <2>. QED BY <2>1, <1>3 DEF AnyTree
<1>. HIDE DEF u
<1>6. u.node[x] = Fresh /\ \A y \in NodeIds \ {x} : u.node[y] = t.node[y]
  BY <1>3, <1>4
<1>7. Freshened(u, t, x, n)
  BY <1>2, <1>4, <1>5, <1>6 DEF Freshened, Parent, Which, Bal, Child
<1>. QED BY <1>7 DEF u

\* Below at on side c is the place of x in the order.
Fits(t, H, sub, rk, x, at, c) ==
  \/ at = Null /\ H = {}
  \/ /\ at \in H /\ Child(t, at, c) = Null /\ Side(rk, x, at, c)
     /\ \A y \in H : \A d \in {0, 1} : at \in sub[Child(t, y, d)] => Side(rk, x, y, d)

\* x has been linked in; the way up is yet to be gone.
LeafAdded(a, G, rk, at, c, n) ==
  /\ \E sub, ht : Grows(a, G, sub, ht, rk, at, c, 0)
  /\ a \in AnyTree /\ a.num = n

\* x is not in the tree t, in u its fields are fresh, and it belongs below at.
LeafPlace(u, t, H, sub, ht, rk, x, at, c, n) ==
  /\ Tree(t, H, sub, ht, rk) /\ x \in NodeIds \ H /\ c \in {0, 1}
  /\ Fits(t, H, sub, rk, x, at, c) /\ n = t.num + 1 /\ Freshened(u, t, x, n)

\* x is linked in as a leaf.
LEMMA LeafIs ==
  ASSUME NEW u, NEW t, NEW H, NEW sub, NEW ht, NEW rk, NEW x, NEW at, NEW c, NEW n,
         LeafPlace(u, t, H, sub, ht, rk, x, at, c, n)
  PROVE  LeafAdded(Attach(u, at, c, x), H \cup {x}, rk, at, c, n)
<1>. /\ Tree(t, H, sub, ht, rk) /\ x \in NodeIds \ H /\ c \in {0, 1}
     /\ Fits(t, H, sub, rk, x, at, c) /\ n = t.num + 1 /\ Freshened(u, t, x, n)
  BY DEF LeafPlace
<1> DEFINE a == Attach(u, at, c, x)
           G == H \cup {x}
           sub2 == [y \in Slots |-> IF y = x THEN {x}
                                    ELSE IF y \in H /\ at \in sub[y] THEN sub[y] \cup {x} ELSE sub[y]]
           ht2 == [y \in Slots |-> IF y = x THEN 1 ELSE ht[y]]
<1>0. /\ Shape(t, H, sub, rk) /\ Linked(t, H) /\ Ordered(t, H, sub, rk) /\ t \in AnyTree /\ u \in AnyTree
      /\ H \subseteq NodeIds /\ NodeIds \subseteq Slots /\ Null \in Slots /\ Null \notin NodeIds
      /\ x # Null /\ x \in Slots
  BY Names DEF Tree, Shape, Linked, Freshened
<1>1. at \in H \cup {Null} /\ at \in Slots /\ at # x
  BY <1>0 DEF Fits
<1>2. Attached(a, u, at, c, x)
  BY <1>0, <1>1, AttachIs
<1>. HIDE DEF a
<1>3. /\ a \in AnyTree /\ a.num = n /\ a.root = IF at = Null THEN x ELSE t.root
      /\ \A y \in H : /\ Parent(a, y) = Parent(t, y) /\ Which(a, y) = Which(t, y) /\ Bal(a, y) = Bal(t, y)
                      /\ \A d \in {0, 1} : Child(a, y, d) = IF y = at /\ d = c THEN x ELSE Child(t, y, d)
      /\ Parent(a, x) = at /\ Which(a, x) = c /\ Bal(a, x) = 0
      /\ \A d \in {0, 1} : Child(a, x, d) = Null
  BY <1>0, <1>1, <1>2 DEF Attached, Freshened
<1>4. CASE at = Null
  <2>1. H = {} /\ G = {x} /\ a.root = x
    BY <1>0, <1>3, <1>4 DEF Fits
  <2>2. Linked(a, G)
    BY <1>0, <1>3, <1>4, <2>1 DEF Linked
  <2>3. /\ sub \in [Slots -> SUBSET NodeIds] /\ rk \in [NodeIds -> Int] /\ sub[Null] = {}
        /\ ht \in [Slots -> Nat] /\ ht[Null] = 0
    BY <1>0 DEF Ordered, Tree, Levels
  <2>4. sub2 \in [Slots -> SUBSET NodeIds] /\ sub2[x] = {x} /\ sub2[Null] = {}
    BY <1>0, <2>1, <2>3
  <2>5. ht2 \in [Slots -> Nat] /\ ht2[x] = 1 /\ ht2[Null] = 0
    BY <1>0, <2>3
  <2>. HIDE DEF sub2, ht2, G
  <2>6. Ordered(a, G, sub2, rk)
    BY <2>1, <2>3, <2>4, <1>3 DEF Ordered
  <2>7. Levels(a, G, ht2, Null, 0, 0)
    BY <2>1, <2>5, <1>0, <1>3 DEF Levels, Level, Depth, Larger
  <2>8. Grows(a, G, sub2, ht2, rk, at, c, 0)
    BY <2>2, <2>6, <2>7, <1>4 DEF Grows, Tree, Shape
  <2>. QED BY <2>8, <1>3 DEF a, G, LeafAdded
<1>5. CASE at # Null
  <2>1. /\ at \in H /\ Child(t, at, c) = Null /\ Side(rk, x, at, c) /\ a.root = t.root
        /\ \A y \in H : \A d \in {0, 1} : at \in sub[Child(t, y, d)] => Side(rk, x, y, d)
    BY <1>3, <1>5 DEF Fits
  <2>2. Linked(a, G)
    <3>1. a.root \in G \cup {Null} /\ (a.root = Null => G = {})
      BY <1>0, <2>1 DEF Linked
    <3>2. \A y \in G : Parent(a, y) \in G \cup {Null} /\ (Parent(a, y) = Null <=> y = a.root)
      BY <1>0, <1>3, <1>5, <2>1 DEF Linked
    <3>3. \A y \in G : \A d \in {0, 1} : Child(a, y, d) \in G \cup {Null}
      BY <1>0, <1>3 DEF Linked
    <3>4. ASSUME NEW y \in G, NEW z \in G, NEW d \in {0, 1}
          PROVE  Child(a, y, d) = z <=> Parent(a, z) = y /\ Which(a, z) = d
      <4>1. z # Null
        BY <1>0
      <4>2. CASE z = x
        <5>1. y \in H => Child(t, y, d) # x
          BY <1>0 DEF Linked
        <5>. QED BY <4>1, <4>2, <5>1, <1>0, <1>1, <1>3, <2>1
      <4>3. CASE z # x /\ y = x
        BY <4>1, <4>3, <1>0, <1>3 DEF Linked
      <4>4. CASE z # x /\ y # x
        BY <4>1, <4>4, <2>1, <1>0, <1>3 DEF Linked
      <4>. QED BY <4>2, <4>3, <4>4
    <3>5. a \in AnyTree /\ G \subseteq NodeIds
      BY <1>0, <1>3
    <3>. QED BY <3>1, <3>2, <3>3, <3>4, <3>5 DEF Linked
  <2>3. /\ sub \in [Slots -> SUBSET NodeIds] /\ rk \in [NodeIds -> Int] /\ sub[Null] = {} /\ sub[t.root] = H
        /\ \A y \in H : sub[y] \subseteq H
        /\ \A y \in H : sub[y] = {y} \cup sub[Child(t, y, 0)] \cup sub[Child(t, y, 1)]
        /\ \A y \in H : \A d \in {0, 1} : \A z \in sub[Child(t, y, d)] : Side(rk, z, y, d)
        /\ \A y \in H : \A d \in {0, 1} : Child(t, y, d) \in H \cup {Null}
        /\ t.root \in H
    BY <1>0, <1>1, <2>1 DEF Ordered, Linked
  <2>4. /\ sub2 \in [Slots -> SUBSET NodeIds] /\ sub2[x] = {x} /\ sub2[Null] = {}
        /\ \A y \in H : sub2[y] = IF at \in sub[y] THEN sub[y] \cup {x} ELSE sub[y]
    <3>1. \A y \in Slots : sub[y] \cup {x} \in SUBSET NodeIds /\ sub[y] \in SUBSET NodeIds /\ {x} \in SUBSET NodeIds
      BY <1>0, <2>3
    <3>2. sub2 \in [Slots -> SUBSET NodeIds]
      BY <3>1
    <3>. QED BY <3>2, <1>0, <2>3
  <2>. HIDE DEF sub2
  <2>5. ASSUME NEW y \in H, NEW d \in {0, 1}
        PROVE  sub2[Child(a, y, d)] = IF at \in sub[Child(t, y, d)] \/ (y = at /\ d = c)
                                      THEN sub[Child(t, y, d)] \cup {x} ELSE sub[Child(t, y, d)]
    <3>1. CASE y = at /\ d = c
      BY <3>1, <1>3, <2>1, <2>3, <2>4
    <3>2. CASE ~ (y = at /\ d = c)
      <4>1. Child(a, y, d) = Child(t, y, d) /\ Child(t, y, d) \in H \cup {Null}
        BY <3>2, <1>3, <2>3
      <4>. QED BY <3>2, <4>1, <2>3, <2>4
    <3>. QED BY <3>1, <3>2
  <2>6. Ordered(a, G, sub2, rk)
    <3>1. sub2[a.root] = G
      BY <2>1, <2>3, <2>4
    <3>2. ASSUME NEW y \in G PROVE sub2[y] \subseteq G
      <4>1. y \in H => sub[y] \subseteq H
        BY <2>3
      <4>2. y \in H => sub2[y] \subseteq sub[y] \cup {x}
        BY <2>4
      <4>. QED BY <4>1, <4>2, <2>4
    <3>3. ASSUME NEW y \in G PROVE sub2[y] = {y} \cup sub2[Child(a, y, 0)] \cup sub2[Child(a, y, 1)]
      <4>1. CASE y = x
        BY <4>1, <1>3, <2>4
      <4>2. CASE y \in H
        <5>1. sub[y] = {y} \cup sub[Child(t, y, 0)] \cup sub[Child(t, y, 1)]
          BY <4>2, <2>3
        <5>2. sub2[y] = IF at \in sub[y] THEN sub[y] \cup {x} ELSE sub[y]
          BY <4>2, <2>4
        <5>3. sub2[Child(a, y, 0)] = IF at \in sub[Child(t, y, 0)] \/ (y = at /\ 0 = c)
                                     THEN sub[Child(t, y, 0)] \cup {x} ELSE sub[Child(t, y, 0)]
          BY <4>2, <2>5
        <5>4. sub2[Child(a, y, 1)] = IF at \in sub[Child(t, y, 1)] \/ (y = at /\ 1 = c)
                                     THEN sub[Child(t, y, 1)] \cup {x} ELSE sub[Child(t, y, 1)]
          BY <4>2, <2>5
        <5>5. c = 0 \/ c = 1
          OBVIOUS
        <5>. QED BY <5>1, <5>2, <5>3, <5>4, <5>5
      <4>. QED BY <4>1, <4>2
    <3>4. ASSUME NEW y \in G, NEW d \in {0, 1}, NEW z \in sub2[Child(a, y, d)] PROVE Side(rk, z, y, d)
      <4>1. CASE y = x
        BY <4>1, <1>3, <2>4
      <4>2. CASE y \in H
        <5>1. z \in sub[Child(t, y, d)] \/ (z = x /\ (at \in sub[Child(t, y, d)] \/ (y = at /\ d = c)))
          BY <4>2, <2>5
        <5>. QED BY <4>2, <5>1, <2>1, <2>3
      <4>. QED BY <4>1, <4>2
    <3>. QED BY <2>3, <2>4, <3>1, <3>2, <3>3, <3>4 DEF Ordered
  <2>7. /\ ht \in [Slots -> Nat] /\ ht[Null] = 0 /\ \A y \in H : ht[y] > 0
        /\ ht2 \in [Slots -> Nat] /\ ht2[x] = 1 /\ \A y \in Slots \ {x} : ht2[y] = ht[y]
    BY <1>0 DEF Tree, Levels
  <2>. HIDE DEF ht2
  <2>8. ASSUME NEW y \in H PROVE Level(a, ht2, y, Depth(a, ht2, at, c, -1, y, 0), Depth(a, ht2, at, c, -1, y, 1))
    <3>1. ASSUME NEW d \in {0, 1} PROVE Depth(a, ht2, at, c, -1, y, d) = ht[Child(t, y, d)]
      <4>1. Child(t, y, d) \in H \cup {Null} /\ ht[Child(t, y, d)] \in Nat
        BY <1>0, <2>3, <2>7
      <4>2. CASE y = at /\ d = c
        BY <4>2, <2>1, <2>7, <1>3 DEF Depth
      <4>3. CASE ~ (y = at /\ d = c)
        <5>1. Child(a, y, d) = Child(t, y, d) /\ Child(t, y, d) \in Slots \ {x}
          BY <4>1, <4>3, <1>0, <1>3
        <5>2. ht2[Child(t, y, d)] = ht[Child(t, y, d)]
          BY <5>1, <2>7
        <5>. QED BY <4>1, <4>3, <5>1, <5>2 DEF Depth
      <4>. QED BY <4>2, <4>3
    <3>2. /\ Depth(a, ht2, at, c, -1, y, 0) = ht[Child(t, y, 0)]
          /\ Depth(a, ht2, at, c, -1, y, 1) = ht[Child(t, y, 1)]
      BY <3>1
    <3>3. Level(t, ht, y, ht[Child(t, y, 0)], ht[Child(t, y, 1)])
      BY TreeLevels
    <3>4. ht2[y] = ht[y] /\ Bal(a, y) = Bal(t, y)
      BY <1>0, <1>3, <2>7
    <3>. QED BY <3>2, <3>3, <3>4 DEF Level
  <2>9. Level(a, ht2, x, Depth(a, ht2, at, c, -1, x, 0), Depth(a, ht2, at, c, -1, x, 1))
    <3>1. Depth(a, ht2, at, c, -1, x, 0) = 0 /\ Depth(a, ht2, at, c, -1, x, 1) = 0
      BY <1>0, <1>1, <1>3, <2>7 DEF Depth
    <3>. QED BY <3>1, <1>3, <2>7 DEF Level, Larger
  <2>10. Pending(a, G, sub2, ht2, rk, at, c, -1)
    <3>1. Levels(a, G, ht2, at, c, -1)
      BY <1>0, <2>7, <2>8, <2>9 DEF Levels
    <3>. QED BY <3>1, <2>2, <2>6 DEF Pending, Shape
  <2>11. Mass(sub2)[at] > 0
    <3>1. Shape(a, G, sub2, rk) /\ at \in G
      BY <2>1, <2>10 DEF Pending
    <3>. HIDE DEF G
    <3>. QED BY <3>1, Masses
  <2>12. Grows(a, G, sub2, ht2, rk, at, c, 0)
    <3>1. Child(a, at, c) = x /\ x \in G /\ at \in G
      BY <1>3, <2>1
    <3>. HIDE DEF G
    <3>. QED BY <3>1, <2>7, <2>10, <2>11, <1>5 DEF Grows
  <2>. QED BY <2>12, <1>3 DEF a, G, LeafAdded
<1>. QED BY <1>4, <1>5

\* avl_insert at the right place.
LEMMA InsertIs ==
  ASSUME NEW t, NEW H, NEW sub, NEW ht, NEW rk, Tree(t, H, sub, ht, rk), NEW x \in NodeIds \ H,
         NEW where, where.child \in {0, 1}, Fits(t, H, sub, rk, x, where.at, where.child)
  PROVE  /\ \E sub2, ht2 : Tree(avl_insert(t, x, where), H \cup {x}, sub2, ht2, rk)
         /\ avl_insert(t, x, where).num = t.num + 1
<1> DEFINE new == [t EXCEPT !.num = @ + 1, !.node[x] = Fresh]
           at == where.at
           c == where.child
           a == Attach(new, at, c, x)
<1>0. t \in AnyTree /\ H \subseteq NodeIds
  BY DEF Tree, Shape, Linked
<1>1. Freshened(new, t, x, t.num + 1)
  <2>1. new = [root |-> t.root, num |-> t.num + 1, node |-> [t.node EXCEPT ![x] = Fresh]]
    <3> DEFINE r == [t EXCEPT !.num = @ + 1]
    <3>1. t = [root |-> t.root, num |-> t.num, node |-> t.node]
      BY <1>0 DEF AnyTree
    <3>2. new = [r EXCEPT !.node[x] = Fresh]
      BY <3>1
    <3>3. r = [root |-> t.root, num |-> t.num + 1, node |-> t.node]
      BY <3>1
    <3>. HIDE DEF r, new
    <3>4. [r EXCEPT !.node[x] = Fresh] = [root |-> t.root, num |-> t.num + 1,
                                          node |-> [t.node EXCEPT ![x] = Fresh]]
      BY <3>3
    <3>. QED BY <3>2, <3>4
  <2>2. t.num + 1 \in Int
    <3>1. t.num \in Int
      BY <1>0 DEF AnyTree
    <3>. QED BY <3>1
  <2>. HIDE DEF new
  <2>. QED BY <1>0, <2>1, <2>2, FreshIs
<1>2. at \in Slots
  BY <1>0, Names DEF Fits
<1>. HIDE DEF new, at, c
<1>3. /\ \E sub2, ht2 : Grows(a, H \cup {x}, sub2, ht2, rk, at, c, 0)
      /\ a \in AnyTree /\ a.num = t.num + 1
  <2>1. Fits(t, H, sub, rk, x, at, c) /\ c \in {0, 1}
    BY DEF at, c
  <2> DEFINE n == t.num + 1
  <2>3. Freshened(new, t, x, n) /\ n = t.num + 1
    BY <1>1
  <2>. HIDE DEF n
  <2>2. LeafAdded(a, H \cup {x}, rk, at, c, n)
    <3>1. LeafPlace(new, t, H, sub, ht, rk, x, at, c, n)
      BY <2>1, <2>3 DEF LeafPlace
    <3>2. LeafAdded(Attach(new, at, c, x), H \cup {x}, rk, at, c, n)
      BY <3>1, LeafIs
    <3>. QED BY <3>2
  <2>. HIDE DEF a
  <2>. QED BY <2>2, <2>3 DEF LeafAdded
<1>. HIDE DEF a
<1>4. /\ \E sub2, ht2 : Tree(Grow(a, at, c), H \cup {x}, sub2, ht2, rk)
      /\ Grow(a, at, c).num = a.num
  BY <1>2, <1>3, GrowIs DEF c
<1>5. avl_insert(t, x, where) = Grow(a, at, c)
  BY DEF avl_insert, a, new, at, c
<1>. QED BY <1>3, <1>4, <1>5
-----------------------------------------------------------------------------
(***************************************************************************)
(* Searches and walks.                                                     *)
(***************************************************************************)
\* The keys in their own order.
Ident == [x \in NodeIds |-> x]

\* A tree of keys.
Search(t, H, sub, ht) == Tree(t, H, sub, ht, Ident) /\ H \subseteq AvlKeys

\* Sides are strict and transitive.
LEMMA SideIs ==
  ASSUME NEW rk \in [NodeIds -> Int], NEW x \in NodeIds, NEW y \in NodeIds, NEW d \in {0, 1}
  PROVE  /\ 1 - d \in {0, 1} /\ d # 1 - d /\ 1 - (1 - d) = d
         /\ Side(rk, x, y, d) <=> Side(rk, y, x, 1 - d)
         /\ Side(rk, x, y, d) => x # y /\ ~Side(rk, x, y, 1 - d) /\ ~Side(rk, y, x, d)
         /\ \A z \in NodeIds : Side(rk, x, y, d) /\ Side(rk, y, z, d) => Side(rk, x, z, d)
         /\ rk[x] # rk[y] => Side(rk, x, y, d) \/ Side(rk, x, y, 1 - d)
<1>1. \A z \in NodeIds : rk[z] \in Int
  OBVIOUS
<1>2. CASE d = 0
  BY <1>1, <1>2 DEF Side
<1>3. CASE d = 1
  BY <1>1, <1>3 DEF Side
<1>. QED BY <1>2, <1>3

\* Two sides are all there are.
LEMMA TwoSides ==
  ASSUME NEW d \in {0, 1}, NEW e \in {0, 1}
  PROVE  (e = d \/ e = 1 - d) /\ (e # d => e = 1 - d /\ d = 1 - e)
OBVIOUS

\* Nothing is above the root, and above a node there is what is above its parent.
LEMMA Above ==
  ASSUME NEW t, NEW H, NEW sub, NEW rk, Shape(t, H, sub, rk), NEW x \in H, NEW y \in H, NEW d \in {0, 1},
         x \in sub[Child(t, y, d)]
  PROVE  /\ Child(t, y, d) \in H
         /\ x # t.root /\ Parent(t, x) \in H
         /\ Parent(t, x) \in sub[Child(t, y, d)] \/ (Parent(t, x) = y /\ Which(t, x) = d)
<1>1. Linked(t, H) /\ t \in AnyTree /\ x \in NodeIds
  BY DEF Shape, Linked
<1>2. Child(t, y, d) \in H
  <2>1. Child(t, y, d) # Null
    BY DEF Shape, Ordered
  <2>. QED BY <2>1, <1>1 DEF Linked
<1>3. CASE x = Child(t, y, d)
  <2>1. Parent(t, x) = y /\ Which(t, x) = d
    BY <1>1, <1>3 DEF Linked
  <2>2. y # Null
    BY Names DEF Shape, Linked
  <2>3. x # t.root
    BY <1>1, <2>1, <2>2 DEF Linked
  <2>. QED BY <1>2, <2>1, <2>3
<1>4. CASE x # Child(t, y, d)
  <2>1. x # t.root /\ Parent(t, x) \in sub[Child(t, y, d)]
    BY <1>2, <1>4, SubUp
  <2>2. sub[Child(t, y, d)] \subseteq H
    BY <1>2, Sides
  <2>. QED BY <1>2, <2>1, <2>2
<1>. QED BY <1>3, <1>4

\* k is on its side of every node above x.
Beside(t, H, sub, rk, k, x) ==
  \A y \in H : \A d \in {0, 1} : x \in sub[Child(t, y, d)] => Side(rk, k, y, d)

\* The states of avl_find.
FindState == [node : Slots, at : Slots, child : {0, 1}]

\* Where the search is after n turns.
Finding(s, t, H, sub, k, n) ==
  /\ s.node \in H \cup {Null} /\ s.at \in H \cup {Null} /\ s.child \in {0, 1}
  /\ IF s.at = Null THEN s.node = t.root
     ELSE Child(t, s.at, s.child) = s.node /\ Side(Ident, k, s.at, s.child) /\ Beside(t, H, sub, Ident, k, s.at)
  /\ k \in H => k \in sub[s.node]
  /\ s.node \notin {Null, k} => Mass(sub)[s.node] <= Turns - n

\* A step down keeps the key, or its place, below.
LEMMA FindStep ==
  ASSUME NEW t, NEW H, NEW sub, NEW ht, Search(t, H, sub, ht), NEW k \in AvlKeys,
         NEW n \in Nat, NEW s \in FindState, Finding(s, t, H, sub, k, n)
  PROVE  FindTurn(t, k, s) \in FindState /\ Finding(FindTurn(t, k, s), t, H, sub, k, n + 1)
<1> DEFINE x == s.node
           d == balance2child(k - x)
           y == Child(t, x, d)
           s2 == [node |-> y, at |-> x, child |-> d]
<1>0. /\ Shape(t, H, sub, Ident) /\ Linked(t, H) /\ Ident \in [NodeIds -> Int] /\ H \subseteq AvlKeys
      /\ AvlKeys \subseteq NodeIds /\ AvlKeys \subseteq Nat /\ Null \notin NodeIds /\ H \subseteq Slots /\ Null \in Slots
      /\ Turns \in Nat
  BY Names, Finite DEF Search, Tree, Shape, Ordered, Linked
<1>0a. /\ \A v \in H : \A e \in {0, 1} : Child(t, v, e) \in H \cup {Null}
       /\ \A u, v \in H : \A e \in {0, 1} : Child(t, u, e) = v => Parent(t, v) = u /\ Which(t, v) = e
  BY <1>0 DEF Linked
<1>1. CASE x \in {Null, k}
  <2>1. FindTurn(t, k, s) = s
    BY <1>1 DEF FindTurn
  <2>. QED BY <2>1, <1>1 DEF Finding
<1>2. CASE x \notin {Null, k}
  <2>1. FindTurn(t, k, s) = s2
    BY <1>2 DEF FindTurn
  <2>2. x \in H /\ Mass(sub)[x] <= Turns - n
    BY <1>2 DEF Finding
  <2>3. k \in Nat /\ x \in Nat /\ k # x /\ k \in NodeIds /\ x \in NodeIds /\ Ident[k] = k /\ Ident[x] = x
    BY <1>0, <1>2, <2>2 DEF Ident
  <2>4. d \in {0, 1} /\ Side(Ident, k, x, d)
    <3>1. d = IF k > x THEN 1 ELSE 0
      BY <2>3 DEF balance2child
    <3>. QED BY <3>1, <2>3 DEF Side
  <2>. HIDE DEF x, d
  <2>5. y \in H \cup {Null} /\ y \in Slots /\ x \in Slots
    <3>1. Child(t, x, d) \in H \cup {Null}
      BY <1>0a, <2>2, <2>4
    <3>. QED BY <3>1, <2>2, <1>0
  <2>6. k \in H => k \in sub[y]
    <3>1. SUFFICES ASSUME k \in H PROVE k \in sub[y]
      OBVIOUS
    <3>2. k \in sub[x]
      BY <3>1 DEF Finding, x
    <3>3. 1 - d \in {0, 1} /\ ~Side(Ident, k, x, 1 - d)
      BY <1>0, <2>3, <2>4, SideIs
    <3>4. /\ sub[x] = {x} \cup sub[Child(t, x, d)] \cup sub[Child(t, x, 1 - d)]
          /\ \A z \in sub[Child(t, x, 1 - d)] : Side(Ident, z, x, 1 - d)
      <4>1. sub[x] = {x} \cup sub[Child(t, x, d)] \cup sub[Child(t, x, 1 - d)]
        BY <1>0, <2>2, <2>4, Sides
      <4>2. \A z \in sub[Child(t, x, 1 - d)] : Side(Ident, z, x, 1 - d)
        BY <1>0, <2>2, <3>3, Sides
      <4>. QED BY <4>1, <4>2
    <3>. QED BY <3>2, <3>3, <3>4, <2>3
  <2>7. Beside(t, H, sub, Ident, k, x)
    <3>1. SUFFICES ASSUME NEW z \in H, NEW e \in {0, 1}, x \in sub[Child(t, z, e)] PROVE Side(Ident, k, z, e)
      BY DEF Beside
    <3>2. x # t.root /\ (Parent(t, x) \in sub[Child(t, z, e)] \/ (Parent(t, x) = z /\ Which(t, x) = e))
      BY <1>0, <2>2, <3>1, Above
    <3>3. /\ s.at # Null /\ s.at \in H /\ s.child \in {0, 1}
          /\ Child(t, s.at, s.child) = x /\ Side(Ident, k, s.at, s.child) /\ Beside(t, H, sub, Ident, k, s.at)
      BY <3>2 DEF Finding, x
    <3>4. Parent(t, x) = s.at /\ Which(t, x) = s.child
      BY <3>3, <1>0a, <2>2
    <3>5. s.at \in sub[Child(t, z, e)] => Side(Ident, k, z, e)
      BY <3>3 DEF Beside
    <3>. QED BY <3>2, <3>3, <3>4, <3>5
  <2>8. y \notin {Null, k} => Mass(sub)[y] <= Turns - (n + 1)
    <3>1. SUFFICES ASSUME y \notin {Null, k} PROVE Mass(sub)[y] <= Turns - (n + 1)
      OBVIOUS
    <3>2. y \in H
      BY <3>1, <2>5
    <3>3. Mass(sub)[y] < Mass(sub)[x] /\ Mass(sub)[y] \in Nat /\ Mass(sub)[x] \in Nat
      BY <1>0, <2>2, <2>4, <3>2, Masses
    <3>. QED BY <3>3, <2>2, <1>0
  <2>9. s2.node = y /\ s2.at = x /\ s2.child = d /\ x # Null
    BY <1>0, <2>2
  <2>10. s2 \in FindState
    BY <2>4, <2>5 DEF FindState
  <2>. HIDE DEF s2, y
  <2>11. Finding(s2, t, H, sub, k, n + 1)
    BY <2>2, <2>4, <2>5, <2>6, <2>7, <2>8, <2>9 DEF Finding, y
  <2>. QED BY <2>1, <2>10, <2>11
<1>. QED BY <1>1, <1>2

\* avl_find returns the node with the key, or the place for it.
LEMMA FindIs ==
  ASSUME NEW t, NEW H, NEW sub, NEW ht, Search(t, H, sub, ht), NEW k \in AvlKeys
  PROVE  /\ avl_find(t, k).node = IF k \in H THEN k ELSE Null
         /\ avl_find(t, k).child \in {0, 1}
         /\ k \notin H => Fits(t, H, sub, Ident, k, avl_find(t, k).at, avl_find(t, k).child)
<1> DEFINE first == [node |-> t.root, at |-> Null, child |-> 0]
           V == [i \in Nat |-> {s \in FindState : Finding(s, t, H, sub, k, i)}]
           F == [s \in FindState |-> FindTurn(t, k, s)]
           go[i \in 0 .. Turns] == IF i = 0 THEN first ELSE FindTurn(t, k, go[i - 1])
<1>0. /\ Shape(t, H, sub, Ident) /\ Linked(t, H) /\ Null \in Slots /\ H \subseteq Slots
      /\ t.root \in H \cup {Null} /\ Turns \in Nat /\ Null \notin H /\ H \subseteq AvlKeys /\ Null \notin AvlKeys
  BY Names, Finite DEF Search, Tree, Shape, Linked
<1>1. first \in V[0]
  <2>1. first \in FindState
    BY <1>0 DEF FindState
  <2>2. k \in H => k \in sub[t.root]
    BY <1>0 DEF Shape, Ordered
  <2>3. t.root \notin {Null, k} => Mass(sub)[t.root] <= Turns - 0
    BY <1>0, Masses
  <2>4. first.node = t.root /\ first.at = Null /\ first.child = 0
    OBVIOUS
  <2>. HIDE DEF first
  <2>5. Finding(first, t, H, sub, k, 0)
    BY <2>2, <2>3, <2>4, <1>0 DEF Finding
  <2>. QED BY <2>1, <2>5
<1>2. ASSUME NEW i \in Nat, NEW s \in V[i] PROVE FindTurn(t, k, s) \in V[i + 1]
  <2>1. s \in FindState /\ Finding(s, t, H, sub, k, i)
    OBVIOUS
  <2>2. FindTurn(t, k, s) \in FindState /\ Finding(FindTurn(t, k, s), t, H, sub, k, i + 1)
    BY <2>1, FindStep
  <2>. QED BY <2>2
<1>3. ASSUME NEW i \in Nat, NEW s \in V[i] PROVE F[s] = FindTurn(t, k, s) /\ F[s] \in V[i + 1]
  <2>1. F[s] = FindTurn(t, k, s)
    OBVIOUS
  <2>. HIDE DEF first, V, F
  <2>. QED BY <2>1, <1>2
<1>. HIDE DEF first, V, F
<1>4. PICK g : Loops(g, Turns, first, F, V)
  <2>1. \A i \in 0 .. Turns - 1 : \A s \in V[i] : F[s] \in V[i + 1]
    BY <1>0, <1>3
  <2>. QED BY <2>1, <1>0, <1>1, LoopExists
<1>5. g = [i \in 0 .. Turns |-> IF i = 0 THEN first ELSE FindTurn(t, k, g[i - 1])]
  <2>1. ASSUME NEW i \in 0 .. Turns, i # 0 PROVE F[g[i - 1]] = FindTurn(t, k, g[i - 1])
    <3>1. i - 1 \in 0 .. Turns /\ i - 1 \in Nat
      BY <2>1, <1>0
    <3>2. g[i - 1] \in V[i - 1]
      BY <3>1, <1>4 DEF Loops
    <3>. QED BY <3>1, <3>2, <1>3
  <2>2. ASSUME NEW i \in 0 .. Turns
        PROVE  (IF i = 0 THEN first ELSE F[g[i - 1]]) = (IF i = 0 THEN first ELSE FindTurn(t, k, g[i - 1]))
    BY <2>1
  <2>3. [i \in 0 .. Turns |-> IF i = 0 THEN first ELSE F[g[i - 1]]]
          = [i \in 0 .. Turns |-> IF i = 0 THEN first ELSE FindTurn(t, k, g[i - 1])]
    BY <2>2, Zenon
  <2>. QED BY <2>3, <1>4, Zenon DEF Loops
<1>6. go = [i \in 0 .. Turns |-> IF i = 0 THEN first ELSE FindTurn(t, k, go[i - 1])]
  BY <1>5
<1>7. avl_find(t, k) = go[Turns]
  BY DEF avl_find, first
<1>. HIDE DEF go
<1>8. go[0] \in V[0] /\ \A i \in 0 .. Turns - 1 : go[i] \in V[i] => go[i + 1] \in V[i + 1]
  <2>1. go[0] = first
    <3>1. 0 \in 0 .. Turns
      BY <1>0
    <3>. QED BY <3>1, <1>6
  <2>2. ASSUME NEW i \in 0 .. Turns - 1, go[i] \in V[i] PROVE go[i + 1] \in V[i + 1]
    <3>1. i \in Nat /\ i + 1 \in 0 .. Turns /\ i + 1 # 0 /\ (i + 1) - 1 = i
      BY <1>0
    <3>2. go[i + 1] = FindTurn(t, k, go[(i + 1) - 1])
      BY <3>1, <1>6, Zenon
    <3>3. go[i + 1] = FindTurn(t, k, go[i])
      BY <3>1, <3>2
    <3>. QED BY <3>1, <3>3, <2>2, <1>2
  <2>. QED BY <2>1, <2>2, <1>1
<1>9. go[Turns] \in V[Turns] /\ \A i \in 0 .. Turns : go[i] \in V[i]
  BY <1>0, <1>8, LoopEnds
<1> DEFINE f == go[Turns]
<1>10. Finding(f, t, H, sub, k, Turns)
  BY <1>0, <1>9 DEF V
<1>. HIDE DEF f
<1>11. f.node \in {Null, k}
  <2>1. SUFFICES ASSUME f.node \notin {Null, k} PROVE FALSE
    OBVIOUS
  <2>2. f.node \in H /\ Mass(sub)[f.node] <= Turns - Turns
    BY <2>1, <1>10 DEF Finding
  <2>3. Mass(sub)[f.node] > 0 /\ Mass(sub)[f.node] \in Nat
    BY <2>2, <1>0, Masses
  <2>. QED BY <2>2, <2>3, <1>0
<1>12. /\ f.node \in H \cup {Null} /\ f.at \in H \cup {Null} /\ f.child \in {0, 1}
       /\ f.at = Null => f.node = t.root
       /\ f.at # Null => /\ Child(t, f.at, f.child) = f.node /\ Side(Ident, k, f.at, f.child)
                         /\ Beside(t, H, sub, Ident, k, f.at)
       /\ k \in H => k \in sub[f.node]
  BY <1>10 DEF Finding
<1>13. f.node = IF k \in H THEN k ELSE Null
  <2>1. k \in H => f.node # Null
    BY <1>0, <1>12 DEF Shape, Ordered
  <2>. QED BY <2>1, <1>0, <1>11, <1>12
<1>14. k \notin H => Fits(t, H, sub, Ident, k, f.at, f.child)
  <2>1. SUFFICES ASSUME k \notin H PROVE Fits(t, H, sub, Ident, k, f.at, f.child)
    OBVIOUS
  <2>2. f.node = Null
    BY <2>1, <1>13
  <2>3. CASE f.at = Null
    BY <2>2, <2>3, <1>0, <1>12 DEF Fits, Linked
  <2>4. CASE f.at # Null
    BY <2>2, <2>4, <1>12 DEF Fits, Beside
  <2>. QED BY <2>3, <2>4
<1>. QED BY <1>7, <1>12, <1>13, <1>14 DEF f
\* One step outwards.
OuterTurn(t, y, c) == IF Child(t, y, c) = Null THEN y ELSE Child(t, y, c)

\* z is the last node below x on side c.
Outer(t, sub, rk, x, c, z) ==
  z \in sub[x] /\ Child(t, z, c) = Null /\ \A v \in sub[x] \ {z} : Side(rk, v, z, 1 - c)

\* After n steps outwards from x: y, and the rest below x is before it.
Outward(t, sub, rk, x, c, y, n) ==
  /\ y \in sub[x] /\ (Child(t, y, c) = Null \/ Mass(sub)[y] <= Turns - n)
  /\ \A v \in sub[x] \ sub[y] : \A u \in sub[y] : Side(rk, v, u, 1 - c)

\* A step outwards leaves only nodes on the near side behind.
LEMMA OuterStep ==
  ASSUME NEW t, NEW H, NEW sub, NEW rk, Shape(t, H, sub, rk), NEW x \in H, NEW c \in {0, 1},
         NEW n \in Nat, NEW y \in Slots, Outward(t, sub, rk, x, c, y, n)
  PROVE  OuterTurn(t, y, c) \in Slots /\ Outward(t, sub, rk, x, c, OuterTurn(t, y, c), n + 1)
<1> DEFINE z == Child(t, y, c)
<1>1. CASE z = Null
  <2>1. OuterTurn(t, y, c) = y
    BY <1>1 DEF OuterTurn
  <2>. QED BY <2>1, <1>1 DEF Outward
<1>2. CASE z # Null
  <2>1. OuterTurn(t, y, c) = z
    BY <1>2 DEF OuterTurn
  <2>2. /\ y \in sub[x] /\ Mass(sub)[y] <= Turns - n
        /\ \A v \in sub[x] \ sub[y] : \A u \in sub[y] : Side(rk, v, u, 1 - c)
    BY <1>2 DEF Outward
  <2>3. y \in H
    BY <2>2, Sides
  <2>4. z \in H /\ z \in sub[z] /\ z \in Slots
    BY <1>2, <2>3, Sides, Names
  <2>5. /\ sub[y] = {y} \cup sub[z] \cup sub[Child(t, y, 1 - c)]
        /\ \A u \in sub[z] : Side(rk, u, y, c)
    BY <2>3, Sides
  <2>6. \A u \in sub[Child(t, y, 1 - c)] : Side(rk, u, y, 1 - c)
    <3>1. 1 - c \in {0, 1}
      OBVIOUS
    <3>. QED BY <3>1, <2>3, Sides
  <2>7. z \in sub[x]
    BY <2>2, <2>3, <2>4, <2>5, SubUp
  <2>8. Mass(sub)[z] <= Turns - (n + 1)
    <3>1. Mass(sub)[z] < Mass(sub)[y] /\ Mass(sub)[z] \in Nat /\ Mass(sub)[y] \in Nat
      BY <2>3, <2>4, Masses
    <3>2. Turns \in Nat
      BY Finite
    <3>. HIDE DEF z
    <3>. QED BY <3>1, <3>2, <2>2
  <2>9. ASSUME NEW v \in sub[x] \ sub[z], NEW u \in sub[z] PROVE Side(rk, v, u, 1 - c)
    <3>1. u \in sub[y] /\ Side(rk, u, y, c)
      BY <2>5
    <3>2. CASE v \notin sub[y]
      BY <2>2, <3>1, <3>2
    <3>3. CASE v \in sub[y]
      <4>1. u \in NodeIds /\ v \in NodeIds /\ y \in NodeIds /\ rk \in [NodeIds -> Int] /\ 1 - c \in {0, 1}
        <5>1. u \in H /\ v \in H /\ 1 - c \in {0, 1}
          BY <2>3, <2>4, <3>3, Sides
        <5>. QED BY <5>1, <2>3 DEF Shape, Linked, Ordered
      <4>2. Side(rk, y, u, 1 - c)
        BY <3>1, <4>1, SideIs
      <4>3. v = y \/ Side(rk, v, y, 1 - c)
        BY <3>3, <2>5, <2>6
      <4>. QED BY <4>1, <4>2, <4>3, SideIs
    <3>. QED BY <3>2, <3>3
  <2>. HIDE DEF z
  <2>10. Outward(t, sub, rk, x, c, z, n + 1)
    BY <2>7, <2>8, <2>9 DEF Outward
  <2>. QED BY <2>1, <2>4, <2>10
<1>. QED BY <1>1, <1>2

\* The loop of Outermost reaches the last node.
LEMMA OuterIs ==
  ASSUME NEW t, NEW H, NEW sub, NEW rk, Shape(t, H, sub, rk), NEW x \in H, NEW c \in {0, 1}
  PROVE  Outer(t, sub, rk, x, c, Outermost(t, x, c))
<1> DEFINE first == x
           V == [i \in Nat |-> {s \in Slots : Outward(t, sub, rk, x, c, s, i)}]
           F == [s \in Slots |-> OuterTurn(t, s, c)]
           go[i \in 0 .. Turns] == IF i = 0 THEN first ELSE OuterTurn(t, go[i - 1], c)
<1>0. Turns \in Nat /\ H \subseteq Slots /\ sub \in [Slots -> SUBSET NodeIds] /\ Null \notin H
  BY Names, Finite DEF Shape, Ordered, Linked
<1>1. first \in V[0]
  <2>1. x \in sub[x] /\ x \in Slots
    BY <1>0, Sides
  <2>2. Mass(sub)[x] <= Turns - 0
    BY <1>0, Masses
  <2>3. Outward(t, sub, rk, x, c, x, 0)
    BY <2>1, <2>2 DEF Outward
  <2>. QED BY <2>1, <2>3
<1>2. ASSUME NEW i \in Nat, NEW s \in V[i] PROVE OuterTurn(t, s, c) \in V[i + 1]
  <2>1. s \in Slots /\ Outward(t, sub, rk, x, c, s, i)
    OBVIOUS
  <2>2. OuterTurn(t, s, c) \in Slots /\ Outward(t, sub, rk, x, c, OuterTurn(t, s, c), i + 1)
    BY <2>1, OuterStep
  <2>. QED BY <2>2
<1>3. ASSUME NEW i \in Nat, NEW s \in V[i] PROVE F[s] = OuterTurn(t, s, c) /\ F[s] \in V[i + 1]
  <2>1. F[s] = OuterTurn(t, s, c)
    OBVIOUS
  <2>. HIDE DEF first, V, F
  <2>. QED BY <2>1, <1>2
<1>. HIDE DEF first, V, F
<1>4. PICK g : Loops(g, Turns, first, F, V)
  <2>1. \A i \in 0 .. Turns - 1 : \A s \in V[i] : F[s] \in V[i + 1]
    BY <1>0, <1>3
  <2>. QED BY <2>1, <1>0, <1>1, LoopExists
<1>5. g = [i \in 0 .. Turns |-> IF i = 0 THEN first ELSE OuterTurn(t, g[i - 1], c)]
  <2>1. ASSUME NEW i \in 0 .. Turns, i # 0 PROVE F[g[i - 1]] = OuterTurn(t, g[i - 1], c)
    <3>1. i - 1 \in 0 .. Turns /\ i - 1 \in Nat
      BY <2>1, <1>0
    <3>2. g[i - 1] \in V[i - 1]
      BY <3>1, <1>4 DEF Loops
    <3>. QED BY <3>1, <3>2, <1>3
  <2>2. ASSUME NEW i \in 0 .. Turns
        PROVE  (IF i = 0 THEN first ELSE F[g[i - 1]]) = (IF i = 0 THEN first ELSE OuterTurn(t, g[i - 1], c))
    BY <2>1
  <2>3. [i \in 0 .. Turns |-> IF i = 0 THEN first ELSE F[g[i - 1]]]
          = [i \in 0 .. Turns |-> IF i = 0 THEN first ELSE OuterTurn(t, g[i - 1], c)]
    BY <2>2, Zenon
  <2>. QED BY <2>3, <1>4, Zenon DEF Loops
<1>6. go = [i \in 0 .. Turns |-> IF i = 0 THEN first ELSE OuterTurn(t, go[i - 1], c)]
  BY <1>5
<1>7. Outermost(t, x, c) = go[Turns]
  BY DEF Outermost, OuterTurn, first
<1>. HIDE DEF go
<1>8. go[0] \in V[0] /\ \A i \in 0 .. Turns - 1 : go[i] \in V[i] => go[i + 1] \in V[i + 1]
  <2>1. go[0] = first
    <3>1. 0 \in 0 .. Turns
      BY <1>0
    <3>. QED BY <3>1, <1>6
  <2>2. ASSUME NEW i \in 0 .. Turns - 1, go[i] \in V[i] PROVE go[i + 1] \in V[i + 1]
    <3>1. i \in Nat /\ i + 1 \in 0 .. Turns /\ i + 1 # 0 /\ (i + 1) - 1 = i
      BY <1>0
    <3>2. go[i + 1] = OuterTurn(t, go[(i + 1) - 1], c)
      BY <3>1, <1>6, Zenon
    <3>3. go[i + 1] = OuterTurn(t, go[i], c)
      BY <3>1, <3>2
    <3>. QED BY <3>1, <3>3, <2>2, <1>2
  <2>. QED BY <2>1, <2>2, <1>1
<1>9. go[Turns] \in V[Turns] /\ \A i \in 0 .. Turns : go[i] \in V[i]
  BY <1>0, <1>8, LoopEnds
<1> DEFINE z == go[Turns]
<1>10. Outward(t, sub, rk, x, c, z, Turns)
  BY <1>0, <1>9 DEF V
<1>. HIDE DEF z
<1>11. z \in sub[x] /\ z \in H
  BY <1>10, Sides DEF Outward
<1>12. Child(t, z, c) = Null
  <2>1. SUFFICES ASSUME Child(t, z, c) # Null PROVE FALSE
    OBVIOUS
  <2>2. Mass(sub)[z] <= Turns - Turns
    BY <2>1, <1>10 DEF Outward
  <2>3. Mass(sub)[z] > 0 /\ Mass(sub)[z] \in Nat
    BY <1>11, Masses
  <2>. QED BY <2>2, <2>3, <1>0
<1>13. ASSUME NEW v \in sub[x] \ {z} PROVE Side(rk, v, z, 1 - c)
  <2>1. z \in sub[z]
    BY <1>11, Sides
  <2>2. CASE v \notin sub[z]
    BY <2>1, <2>2, <1>10 DEF Outward
  <2>3. CASE v \in sub[z]
    <3>1. 1 - c \in {0, 1} /\ sub[z] = {z} \cup sub[Child(t, z, c)] \cup sub[Child(t, z, 1 - c)]
      BY <1>11, Sides
    <3>2. sub[Child(t, z, c)] = {}
      BY <1>12 DEF Shape, Ordered
    <3>3. v \in sub[Child(t, z, 1 - c)]
      BY <2>3, <3>1, <3>2
    <3>. QED BY <3>1, <3>3, <1>11, Sides
  <2>. QED BY <2>2, <2>3
<1>14. Outer(t, sub, rk, x, c, z)
  BY <1>11, <1>12, <1>13 DEF Outer
<1>. QED BY <1>7, <1>14 DEF z

\* z is the neighbour of x on side d, or Null when there is none.
Neighbour(H, rk, x, d, z) ==
  /\ z \in H \cup {Null} /\ (z # Null => Side(rk, z, x, d))
  /\ \A v \in H \ {x, z} : Side(rk, v, x, 1 - d) \/ (z # Null /\ Side(rk, v, z, d))

\* After n steps up from x, which has no child on side d.
Climbing(s, t, H, sub, rk, x, d, n) ==
  IF s.done THEN Neighbour(H, rk, x, d, s.node)
  ELSE /\ s.node \in H /\ x \in sub[s.node] /\ Mass(sub)[s.node] > n
       /\ \A v \in sub[s.node] \ {x} : Side(rk, v, x, 1 - d)

\* A step up: from the side right the parent is the neighbour, else it is passed.
LEMMA ClimbStep ==
  ASSUME NEW t, NEW H, NEW sub, NEW rk, Shape(t, H, sub, rk), NEW x \in H, NEW d \in {0, 1},
         NEW n \in Nat, NEW s \in [node : Slots, done : BOOLEAN], Climbing(s, t, H, sub, rk, x, d, n)
  PROVE  /\ ClimbTurn(t, s, 1 - d) \in [node : Slots, done : BOOLEAN]
         /\ Climbing(ClimbTurn(t, s, 1 - d), t, H, sub, rk, x, d, n + 1)
<1> DEFINE y == s.node
           p == Parent(t, y)
           to(b) == [node |-> p, done |-> b]
<1>0. /\ Linked(t, H) /\ t \in AnyTree /\ H \subseteq NodeIds /\ NodeIds \subseteq Slots /\ 1 - d \in {0, 1}
      /\ rk \in [NodeIds -> Int] /\ Null \notin NodeIds /\ sub[t.root] = H /\ 1 - (1 - d) = d
  BY Names DEF Shape, Linked, Ordered
<1>1. CASE s.done
  <2>1. ClimbTurn(t, s, 1 - d) = s
    BY <1>1 DEF ClimbTurn
  <2>. QED BY <2>1, <1>1 DEF Climbing
<1>2. CASE ~s.done
  <2>1. ClimbTurn(t, s, 1 - d) = to(p = Null \/ Which(t, y) = 1 - d)
    BY <1>2 DEF ClimbTurn
  <2>2. /\ y \in H /\ x \in sub[y] /\ Mass(sub)[y] > n
        /\ \A v \in sub[y] \ {x} : Side(rk, v, x, 1 - d)
    BY <1>2 DEF Climbing
  <2>. HIDE DEF y
  <2>3. p \in H \cup {Null} /\ (p = Null <=> y = t.root) /\ p \in Slots /\ Which(t, y) \in {0, 1}
    <3>1. y \in NodeIds
      BY <1>0, <2>2
    <3>. QED BY <3>1, <1>0, <2>2, Fields DEF Linked
  <2>4. \A b \in BOOLEAN : to(b).node = p /\ to(b).done = b /\ to(b) \in [node : Slots, done : BOOLEAN]
    BY <2>3
  <2>. HIDE DEF to, p
  <2>5. CASE p = Null
    <3>1. Neighbour(H, rk, x, d, p)
      BY <2>2, <2>3, <2>5, <1>0 DEF Neighbour
    <3>2. ClimbTurn(t, s, 1 - d) = to(TRUE)
      BY <2>1, <2>5
    <3>3. Climbing(to(TRUE), t, H, sub, rk, x, d, n + 1)
      BY <2>4, <3>1 DEF Climbing
    <3>. QED BY <3>2, <3>3, <2>4
  <2>6. CASE p # Null
    <3>1. p \in H /\ p \in NodeIds /\ Child(t, p, Which(t, y)) = y
      BY <2>2, <2>3, <2>6, <1>0 DEF Linked, p
    <3>2. ASSUME NEW e \in {0, 1}
          PROVE  /\ sub[p] = {p} \cup sub[Child(t, p, e)] \cup sub[Child(t, p, 1 - e)] /\ sub[p] \subseteq H
                 /\ \A v \in sub[Child(t, p, e)] : Side(rk, v, p, e)
      BY <3>1, Sides
    <3>3. CASE Which(t, y) = 1 - d
      <4>1. /\ \A v \in sub[y] : Side(rk, v, p, 1 - d)
            /\ sub[p] = {p} \cup sub[y] \cup sub[Child(t, p, d)]
        BY <3>1, <3>2, <3>3, <1>0
      <4>2. Side(rk, p, x, d)
        BY <4>1, <2>2, <3>1, <1>0, SideIs
      <4>3. ASSUME NEW v \in H \ {x, p} PROVE Side(rk, v, x, 1 - d) \/ Side(rk, v, p, d)
        <5>1. CASE v \in sub[y]
          BY <5>1, <2>2
        <5>2. CASE v \in sub[Child(t, p, d)]
          BY <5>2, <3>2
        <5>3. CASE v \notin sub[p]
          <6>1. PICK e \in {0, 1} : \A a \in sub[p] : Side(rk, v, a, e)
            BY <5>3, <3>1, Apart
          <6>2. x \in sub[p] /\ p \in sub[p]
            BY <4>1, <2>2
          <6>3. e = d \/ e = 1 - d
            BY TwoSides
          <6>. QED BY <6>1, <6>2, <6>3
        <5>. QED BY <5>1, <5>2, <5>3, <4>1
      <4>4. Neighbour(H, rk, x, d, p)
        BY <4>2, <4>3, <3>1, <2>6 DEF Neighbour
      <4>5. ClimbTurn(t, s, 1 - d) = to(TRUE)
        BY <2>1, <3>3
      <4>6. Climbing(to(TRUE), t, H, sub, rk, x, d, n + 1)
        BY <2>4, <4>4 DEF Climbing
      <4>. QED BY <4>5, <4>6, <2>4
    <3>4. CASE Which(t, y) # 1 - d
      <4>1. Which(t, y) = d
        BY <3>4, <2>3, TwoSides
      <4>2. /\ \A v \in sub[y] : Side(rk, v, p, d)
            /\ sub[p] = {p} \cup sub[y] \cup sub[Child(t, p, 1 - d)]
            /\ \A v \in sub[Child(t, p, 1 - d)] : Side(rk, v, p, 1 - d)
        BY <3>1, <3>2, <4>1, <1>0
      <4>3. x \in sub[p] /\ Side(rk, p, x, 1 - d)
        BY <4>2, <2>2, <3>1, <1>0, SideIs
      <4>4. ASSUME NEW v \in sub[p] \ {x} PROVE Side(rk, v, x, 1 - d)
        <5>1. v \in NodeIds
          BY <3>2, <1>0
        <5>2. v \in sub[y] \/ v = p \/ Side(rk, v, p, 1 - d)
          BY <4>2
        <5>. QED BY <5>1, <5>2, <4>3, <2>2, <3>1, <1>0, SideIs
      <4>5. Mass(sub)[p] > n + 1
        <5>1. Mass(sub)[y] < Mass(sub)[p] /\ Mass(sub)[y] \in Nat /\ Mass(sub)[p] \in Nat
          BY <2>2, <2>3, <3>1, Masses
        <5>. QED BY <5>1, <2>2
      <4>6. ClimbTurn(t, s, 1 - d) = to(FALSE)
        BY <2>1, <2>6, <3>4
      <4>7. Climbing(to(FALSE), t, H, sub, rk, x, d, n + 1)
        BY <2>4, <3>1, <4>3, <4>4, <4>5 DEF Climbing
      <4>. QED BY <4>6, <4>7, <2>4
    <3>. QED BY <3>3, <3>4
  <2>. QED BY <2>5, <2>6
<1>. QED BY <1>1, <1>2

\* From a node without a child on side d, Climb reaches its neighbour there.
LEMMA ClimbIs ==
  ASSUME NEW t, NEW H, NEW sub, NEW rk, Shape(t, H, sub, rk), NEW x \in H, NEW d \in {0, 1},
         Child(t, x, d) = Null
  PROVE  Neighbour(H, rk, x, d, Climb(t, x, 1 - d))
<1> DEFINE first == [node |-> x, done |-> FALSE]
           V == [i \in Nat |-> {s \in [node : Slots, done : BOOLEAN] : Climbing(s, t, H, sub, rk, x, d, i)}]
           F == [s \in [node : Slots, done : BOOLEAN] |-> ClimbTurn(t, s, 1 - d)]
           go[i \in 0 .. Turns] == IF i = 0 THEN first ELSE ClimbTurn(t, go[i - 1], 1 - d)
<1>0. Turns \in Nat /\ H \subseteq Slots /\ Null \notin H /\ sub[Null] = {} /\ 1 - d \in {0, 1}
  BY Names, Finite DEF Shape, Ordered, Linked
<1>1. first \in V[0]
  <2>1. first.node = x /\ first.done = FALSE /\ first \in [node : Slots, done : BOOLEAN]
    BY <1>0
  <2>. HIDE DEF first
  <2>2. x \in sub[x] /\ Mass(sub)[x] > 0
    BY Sides, Masses
  <2>3. sub[x] = {x} \cup sub[Child(t, x, d)] \cup sub[Child(t, x, 1 - d)]
    BY Sides
  <2>4. \A v \in sub[Child(t, x, 1 - d)] : Side(rk, v, x, 1 - d)
    BY <1>0, Sides
  <2>5. \A v \in sub[x] \ {x} : Side(rk, v, x, 1 - d)
    BY <2>3, <2>4, <1>0
  <2>6. Climbing(first, t, H, sub, rk, x, d, 0)
    BY <2>1, <2>2, <2>5 DEF Climbing
  <2>. QED BY <2>1, <2>6
<1>2. ASSUME NEW i \in Nat, NEW s \in V[i] PROVE ClimbTurn(t, s, 1 - d) \in V[i + 1]
  <2>1. s \in [node : Slots, done : BOOLEAN] /\ Climbing(s, t, H, sub, rk, x, d, i)
    OBVIOUS
  <2>2. /\ ClimbTurn(t, s, 1 - d) \in [node : Slots, done : BOOLEAN]
        /\ Climbing(ClimbTurn(t, s, 1 - d), t, H, sub, rk, x, d, i + 1)
    BY <2>1, ClimbStep
  <2>. QED BY <2>2
<1>3. ASSUME NEW i \in Nat, NEW s \in V[i] PROVE F[s] = ClimbTurn(t, s, 1 - d) /\ F[s] \in V[i + 1]
  <2>1. F[s] = ClimbTurn(t, s, 1 - d)
    OBVIOUS
  <2>. HIDE DEF first, V, F
  <2>. QED BY <2>1, <1>2
<1>. HIDE DEF first, V, F
<1>4. PICK g : Loops(g, Turns, first, F, V)
  <2>1. \A i \in 0 .. Turns - 1 : \A s \in V[i] : F[s] \in V[i + 1]
    BY <1>0, <1>3
  <2>. QED BY <2>1, <1>0, <1>1, LoopExists
<1>5. g = [i \in 0 .. Turns |-> IF i = 0 THEN first ELSE ClimbTurn(t, g[i - 1], 1 - d)]
  <2>1. ASSUME NEW i \in 0 .. Turns, i # 0 PROVE F[g[i - 1]] = ClimbTurn(t, g[i - 1], 1 - d)
    <3>1. i - 1 \in 0 .. Turns /\ i - 1 \in Nat
      BY <2>1, <1>0
    <3>2. g[i - 1] \in V[i - 1]
      BY <3>1, <1>4 DEF Loops
    <3>. QED BY <3>1, <3>2, <1>3
  <2>2. ASSUME NEW i \in 0 .. Turns
        PROVE  (IF i = 0 THEN first ELSE F[g[i - 1]]) = (IF i = 0 THEN first ELSE ClimbTurn(t, g[i - 1], 1 - d))
    BY <2>1
  <2>3. [i \in 0 .. Turns |-> IF i = 0 THEN first ELSE F[g[i - 1]]]
          = [i \in 0 .. Turns |-> IF i = 0 THEN first ELSE ClimbTurn(t, g[i - 1], 1 - d)]
    BY <2>2, Zenon
  <2>. QED BY <2>3, <1>4, Zenon DEF Loops
<1>6. go = [i \in 0 .. Turns |-> IF i = 0 THEN first ELSE ClimbTurn(t, go[i - 1], 1 - d)]
  BY <1>5
<1>7. Climb(t, x, 1 - d) = go[Turns].node
  BY DEF Climb, first
<1>. HIDE DEF go
<1>8. go[0] \in V[0] /\ \A i \in 0 .. Turns - 1 : go[i] \in V[i] => go[i + 1] \in V[i + 1]
  <2>1. go[0] = first
    <3>1. 0 \in 0 .. Turns
      BY <1>0
    <3>. QED BY <3>1, <1>6
  <2>2. ASSUME NEW i \in 0 .. Turns - 1, go[i] \in V[i] PROVE go[i + 1] \in V[i + 1]
    <3>1. i \in Nat /\ i + 1 \in 0 .. Turns /\ i + 1 # 0 /\ (i + 1) - 1 = i
      BY <1>0
    <3>2. go[i + 1] = ClimbTurn(t, go[(i + 1) - 1], 1 - d)
      BY <3>1, <1>6, Zenon
    <3>3. go[i + 1] = ClimbTurn(t, go[i], 1 - d)
      BY <3>1, <3>2
    <3>. QED BY <3>1, <3>3, <2>2, <1>2
  <2>. QED BY <2>1, <2>2, <1>1
<1>9. go[Turns] \in V[Turns] /\ \A i \in 0 .. Turns : go[i] \in V[i]
  BY <1>0, <1>8, LoopEnds
<1> DEFINE z == go[Turns]
<1>10. Climbing(z, t, H, sub, rk, x, d, Turns)
  BY <1>0, <1>9 DEF V
<1>. HIDE DEF z
<1>11. z.done
  <2>1. SUFFICES ASSUME ~z.done PROVE FALSE
    OBVIOUS
  <2>2. z.node \in H /\ Mass(sub)[z.node] > Turns
    BY <2>1, <1>10 DEF Climbing
  <2>3. Mass(sub)[z.node] <= Turns /\ Mass(sub)[z.node] \in Nat
    BY <2>2, Masses
  <2>. QED BY <2>2, <2>3, <1>0
<1>12. Neighbour(H, rk, x, d, z.node)
  BY <1>10, <1>11 DEF Climbing
<1>. QED BY <1>7, <1>12 DEF z

\* avl_walk returns the neighbour.
LEMMA WalkIs ==
  ASSUME NEW t, NEW H, NEW sub, NEW rk, Shape(t, H, sub, rk), NEW x \in H, NEW d \in {0, 1}
  PROVE  Neighbour(H, rk, x, d, avl_walk(t, x, d))
<1> DEFINE y == Child(t, x, d)
           z == Outermost(t, y, 1 - d)
<1>0. 1 - d \in {0, 1} /\ 1 - (1 - d) = d /\ Null \notin H
  BY Names DEF Shape, Linked
<1>1. CASE y = Null
  <2>1. avl_walk(t, x, d) = Climb(t, x, 1 - d)
    BY <1>1 DEF avl_walk
  <2>. QED BY <2>1, <1>1, ClimbIs
<1>2. CASE y # Null
  <2>1. avl_walk(t, x, d) = z
    BY <1>2 DEF avl_walk
  <2>2. y \in H /\ sub[y] \subseteq H /\ x \in sub[x]
    BY <1>2, Sides
  <2>3. Outer(t, sub, rk, y, 1 - d, z)
    BY <1>0, <2>2, OuterIs
  <2>4. /\ sub[x] = {x} \cup sub[y] \cup sub[Child(t, x, 1 - d)]
        /\ \A v \in sub[y] : Side(rk, v, x, d)
    BY Sides
  <2>5. \A v \in sub[Child(t, x, 1 - d)] : Side(rk, v, x, 1 - d)
    BY <1>0, Sides
  <2>. HIDE DEF y, z
  <2>6. z \in sub[y] /\ \A v \in sub[y] \ {z} : Side(rk, v, z, d)
    BY <2>3, <1>0 DEF Outer
  <2>7. ASSUME NEW v \in H \ {x, z} PROVE Side(rk, v, x, 1 - d) \/ Side(rk, v, z, d)
    <3>1. CASE v \in sub[x]
      BY <3>1, <2>4, <2>5, <2>6
    <3>2. CASE v \notin sub[x]
      <4>1. PICK e \in {0, 1} : \A a \in sub[x] : Side(rk, v, a, e)
        BY <3>2, Apart
      <4>2. x \in sub[x] /\ z \in sub[x] /\ (e = d \/ e = 1 - d)
        BY <2>2, <2>4, <2>6, TwoSides
      <4>. QED BY <4>1, <4>2
    <3>. QED BY <3>1, <3>2
  <2>8. z \in H /\ z # Null /\ Side(rk, z, x, d)
    BY <2>2, <2>4, <2>6, <1>0
  <2>. QED BY <2>1, <2>7, <2>8 DEF Neighbour
<1>. QED BY <1>1, <1>2
\* The nodes other than at are on the same side of at and of what fits below it.
LEMMA Gap ==
  ASSUME NEW t, NEW H, NEW sub, NEW rk, Shape(t, H, sub, rk), NEW k \in NodeIds, NEW at \in H,
         NEW c \in {0, 1}, Fits(t, H, sub, rk, k, at, c), NEW v \in H \ {at}
  PROVE  \E e \in {0, 1} : Side(rk, v, at, e) /\ Side(rk, v, k, e)
<1>0. /\ rk \in [NodeIds -> Int] /\ H \subseteq NodeIds /\ at \in NodeIds /\ v \in NodeIds
      /\ 1 - c \in {0, 1} /\ sub[Null] = {} /\ Null \notin H
  BY Names DEF Shape, Ordered, Linked
<1>1. /\ Child(t, at, c) = Null /\ Side(rk, k, at, c)
      /\ \A y \in H : \A d \in {0, 1} : at \in sub[Child(t, y, d)] => Side(rk, k, y, d)
  BY <1>0 DEF Fits
<1>2. Side(rk, at, k, 1 - c)
  BY <1>0, <1>1, SideIs
<1>3. CASE v \in sub[at]
  <2>1. v \in sub[Child(t, at, 1 - c)]
    BY <1>0, <1>1, <1>3, Sides
  <2>2. Side(rk, v, at, 1 - c)
    BY <1>0, <2>1, Sides
  <2>. QED BY <2>2, <1>0, <1>2, SideIs
<1>4. CASE v \notin sub[at]
  <2>1. PICK y \in H : \E d \in {0, 1} : at \in sub[Child(t, y, d)] /\ v \in sub[y] /\ v \notin sub[Child(t, y, d)]
    BY <1>4, Fork
  <2>2. PICK d \in {0, 1} : at \in sub[Child(t, y, d)] /\ v \in sub[y] /\ v \notin sub[Child(t, y, d)]
    BY <2>1
  <2>3. /\ 1 - d \in {0, 1} /\ sub[y] = {y} \cup sub[Child(t, y, d)] \cup sub[Child(t, y, 1 - d)]
        /\ Side(rk, at, y, d) /\ Side(rk, k, y, d) /\ y \in NodeIds
    BY <1>1, <2>2, Sides
  <2>4. Side(rk, y, at, 1 - d) /\ Side(rk, y, k, 1 - d)
    BY <1>0, <2>3, SideIs
  <2>5. v = y \/ Side(rk, v, y, 1 - d)
    <3>1. v = y \/ v \in sub[Child(t, y, 1 - d)]
      BY <2>2, <2>3
    <3>. QED BY <3>1, <2>3, Sides
  <2>. QED BY <2>3, <2>4, <2>5, <1>0, SideIs
<1>. QED BY <1>3, <1>4

\* avl_nearest: the neighbours of a place.
LEMMA NearestIs ==
  ASSUME NEW t, NEW H, NEW sub, NEW rk, Shape(t, H, sub, rk), NEW k \in NodeIds \ H, NEW d \in {0, 1},
         NEW where, where.child \in {0, 1}, Fits(t, H, sub, rk, k, where.at, where.child)
  PROVE  Neighbour(H, rk, k, d, avl_nearest(t, where, d))
<1> DEFINE at == where.at
           c == where.child
           z == avl_walk(t, at, d)
<1>0. /\ rk \in [NodeIds -> Int] /\ H \subseteq NodeIds /\ 1 - d \in {0, 1} /\ Null \notin H
      /\ (c = d \/ c = 1 - d) /\ d # 1 - d
  <2>1. c = d \/ c = 1 - d
    BY TwoSides
  <2>. QED BY <2>1, Names DEF Shape, Ordered, Linked
<1>1. CASE at = Null
  <2>1. H = {} /\ avl_nearest(t, where, d) = Null
    BY <1>0, <1>1 DEF Fits, avl_nearest
  <2>. QED BY <2>1 DEF Neighbour
<1>2. CASE at # Null
  <2>1. at \in H /\ Side(rk, k, at, c)
    BY <1>2 DEF Fits
  <2>2. \A v \in H \ {at} : \E e \in {0, 1} : Side(rk, v, at, e) /\ Side(rk, v, k, e)
    <3>1. Fits(t, H, sub, rk, k, at, c) /\ c \in {0, 1}
      OBVIOUS
    <3>. HIDE DEF at, c
    <3>. QED BY <2>1, <3>1, Gap
  <2>3. CASE c = 1 - d
    <3>1. avl_nearest(t, where, d) = at
      BY <2>3, <1>0 DEF avl_nearest
    <3>. HIDE DEF at, c
    <3>2. Side(rk, at, k, d)
      BY <1>0, <2>1, <2>3, SideIs
    <3>3. ASSUME NEW v \in H \ {k, at} PROVE Side(rk, v, k, 1 - d) \/ Side(rk, v, at, d)
      <4>1. PICK e \in {0, 1} : Side(rk, v, at, e) /\ Side(rk, v, k, e)
        BY <2>2
      <4>2. e = d \/ e = 1 - d
        BY TwoSides
      <4>. QED BY <4>1, <4>2
    <3>. QED BY <3>1, <3>2, <3>3, <2>1, <1>2 DEF Neighbour
  <2>4. CASE c = d
    <3>1. avl_nearest(t, where, d) = z
      BY <2>4, <1>2 DEF avl_nearest
    <3>. HIDE DEF at, c
    <3>2. Neighbour(H, rk, at, d, z)
      BY <2>1, WalkIs
    <3>3. Side(rk, at, k, 1 - d)
      BY <1>0, <2>1, <2>4, SideIs
    <3>. HIDE DEF z
    <3>4. /\ z \in H \cup {Null} /\ (z # Null => Side(rk, z, at, d))
          /\ \A v \in H \ {at, z} : Side(rk, v, at, 1 - d) \/ (z # Null /\ Side(rk, v, z, d))
      BY <3>2 DEF Neighbour
    <3>5. ASSUME NEW v \in H \ {at}, NEW b \in {0, 1}, Side(rk, v, at, b) PROVE Side(rk, v, k, b)
      <4>1. PICK e \in {0, 1} : Side(rk, v, at, e) /\ Side(rk, v, k, e)
        BY <2>2
      <4>2. e = b \/ e = 1 - b
        BY TwoSides
      <4>3. v \in NodeIds /\ at \in NodeIds
        BY <1>0, <2>1
      <4>4. ~Side(rk, v, at, 1 - b)
        BY <4>3, <3>5, <1>0, SideIs
      <4>. QED BY <4>1, <4>2, <4>4
    <3>6. z # Null => Side(rk, z, k, d)
      <4>1. z # Null => z \in H /\ z # at
        <5>1. z # Null => z \in NodeIds /\ at \in NodeIds /\ Side(rk, z, at, d)
          BY <3>4, <2>1, <1>0
        <5>. QED BY <5>1, <3>4, <1>0, SideIs
      <4>. QED BY <4>1, <3>4, <3>5
    <3>7. ASSUME NEW v \in H \ {k, z} PROVE Side(rk, v, k, 1 - d) \/ (z # Null /\ Side(rk, v, z, d))
      <4>1. CASE v = at
        BY <4>1, <3>3
      <4>2. CASE v # at
        BY <4>2, <3>4, <3>5, <1>0
      <4>. QED BY <4>1, <4>2
    <3>. QED BY <3>1, <3>4, <3>6, <3>7 DEF Neighbour
  <2>. QED BY <2>3, <2>4, <1>0
<1>. QED BY <1>1, <1>2

\* k fits where a child is missing when nothing is between.
LEMMA FitsBetween ==
  ASSUME NEW t, NEW H, NEW sub, NEW rk, Shape(t, H, sub, rk), NEW k \in NodeIds, NEW at \in H,
         NEW c \in {0, 1}, Child(t, at, c) = Null, Side(rk, k, at, c),
         \A v \in H \ {at} : Side(rk, v, at, 1 - c) \/ Side(rk, v, k, c)
  PROVE  Fits(t, H, sub, rk, k, at, c)
<1>0. /\ rk \in [NodeIds -> Int] /\ H \subseteq NodeIds /\ at \in NodeIds
      /\ 1 - c \in {0, 1} /\ 1 - (1 - c) = c
  BY DEF Shape, Ordered, Linked
<1>1. ASSUME NEW y \in H, NEW d \in {0, 1}, at \in sub[Child(t, y, d)] PROVE Side(rk, k, y, d)
  <2>1. Side(rk, at, y, d) /\ y \in NodeIds
    BY <1>1, Sides
  <2>2. CASE d = c
    BY <2>1, <2>2, <1>0, SideIs
  <2>3. CASE d # c
    <3>1. d = 1 - c
      BY <2>3, TwoSides
    <3>2. Side(rk, y, at, c) /\ y # at /\ ~Side(rk, y, at, 1 - c)
      BY <3>1, <2>1, <1>0, SideIs
    <3>3. Side(rk, y, k, c)
      BY <3>2
    <3>4. Side(rk, k, y, 1 - c)
      BY <3>3, <2>1, <1>0, SideIs
    <3>. QED BY <3>1, <3>4
  <2>. QED BY <2>2, <2>3
<1>. QED BY <1>1 DEF Fits

\* here is the neighbour of k on the other side than d.
HerePlace(t, H, sub, ht, rk, k, d, here) ==
  /\ Tree(t, H, sub, ht, rk) /\ k \in NodeIds \ H /\ d \in {0, 1} /\ here \in H
  /\ Neighbour(H, rk, k, 1 - d, here)

\* k has been added to the tree.
Grown(u, t, H, rk, k) == (\E sub, ht : Tree(u, H \cup {k}, sub, ht, rk)) /\ u.num = t.num + 1

\* avl_insert_here, next to the neighbour of the new node.
LEMMA InsertHereIs ==
  ASSUME NEW t, NEW H, NEW sub, NEW ht, NEW rk, NEW k, NEW d, NEW here, HerePlace(t, H, sub, ht, rk, k, d, here)
  PROVE  Grown(avl_insert_here(t, k, here, d), t, H, rk, k)
<1>. /\ Tree(t, H, sub, ht, rk) /\ k \in NodeIds \ H /\ d \in {0, 1} /\ here \in H
     /\ Neighbour(H, rk, k, 1 - d, here)
  BY DEF HerePlace
<1> DEFINE y == Child(t, here, d)
           z == Outermost(t, y, 1 - d)
           near == [at |-> here, child |-> d]
           far == [at |-> z, child |-> 1 - d]
<1>0. /\ rk \in [NodeIds -> Int] /\ H \subseteq NodeIds /\ Shape(t, H, sub, rk) /\ here \in NodeIds
      /\ 1 - d \in {0, 1} /\ 1 - (1 - d) = d /\ Null \notin H /\ d # 1 - d
  BY Names DEF Tree, Shape, Ordered, Linked
<1>1. /\ Side(rk, here, k, 1 - d)
      /\ \A v \in H \ {k, here} : Side(rk, v, k, d) \/ Side(rk, v, here, 1 - d)
  BY <1>0 DEF Neighbour
<1>2. Side(rk, k, here, d)
  BY <1>0, <1>1, SideIs
<1>3. CASE y = Null
  <2>1. Fits(t, H, sub, rk, k, here, d)
    BY <1>0, <1>1, <1>2, <1>3, FitsBetween
  <2>2. avl_insert_here(t, k, here, d) = avl_insert(t, k, near)
    BY <1>3 DEF avl_insert_here
  <2>3. near.at = here /\ near.child = d
    OBVIOUS
  <2>. HIDE DEF near
  <2>4. near.child \in {0, 1} /\ Fits(t, H, sub, rk, k, near.at, near.child)
    BY <2>1, <2>3
  <2>5. /\ \E sub2, ht2 : Tree(avl_insert(t, k, near), H \cup {k}, sub2, ht2, rk)
        /\ avl_insert(t, k, near).num = t.num + 1
    BY <2>4, InsertIs
  <2>. QED BY <2>2, <2>5 DEF Grown
<1>4. CASE y # Null
  <2>1. y \in H
    BY <1>0, <1>4, Sides
  <2>2. Outer(t, sub, rk, y, 1 - d, z)
    BY <1>0, <2>1, OuterIs
  <2>3. Neighbour(H, rk, here, d, z)
    <3>1. z = avl_walk(t, here, d)
      BY <1>4 DEF avl_walk
    <3>. HIDE DEF z
    <3>. QED BY <3>1, <1>0, WalkIs
  <2>4. avl_insert_here(t, k, here, d) = avl_insert(t, k, far)
    BY <1>4 DEF avl_insert_here
  <2>5. far.at = z /\ far.child = 1 - d
    OBVIOUS
  <2>. HIDE DEF z, far
  <2>6. z \in sub[y] /\ Child(t, z, 1 - d) = Null /\ z \in H /\ z \in NodeIds
    <3>1. sub[y] \subseteq H
      BY <1>0, <2>1, Sides
    <3>. QED BY <3>1, <2>2, <1>0 DEF Outer
  <2>7. Side(rk, z, here, d) /\ z # here /\ ~Side(rk, z, here, 1 - d)
    <3>1. Side(rk, z, here, d)
      BY <2>6, <1>0, Sides
    <3>. QED BY <3>1, <2>6, <1>0, SideIs
  <2>8. Side(rk, z, k, d)
    BY <2>6, <2>7, <1>1
  <2>9. Side(rk, k, z, 1 - d)
    BY <2>6, <2>8, <1>0, SideIs
  <2>10. ASSUME NEW v \in H \ {z} PROVE Side(rk, v, z, d) \/ Side(rk, v, k, 1 - d)
    <3>1. v = here \/ Side(rk, v, here, 1 - d) \/ Side(rk, v, z, d)
      BY <2>3 DEF Neighbour
    <3>. QED BY <3>1, <1>0, <1>1, SideIs
  <2>11. Fits(t, H, sub, rk, k, z, 1 - d)
    BY <2>6, <2>9, <2>10, <1>0, FitsBetween
  <2>12. far.child \in {0, 1} /\ Fits(t, H, sub, rk, k, far.at, far.child)
    BY <2>5, <2>11, <1>0
  <2>13. /\ \E sub2, ht2 : Tree(avl_insert(t, k, far), H \cup {k}, sub2, ht2, rk)
         /\ avl_insert(t, k, far).num = t.num + 1
    BY <2>12, InsertIs
  <2>. QED BY <2>4, <2>13 DEF Grown
<1>. QED BY <1>3, <1>4

\* avl_add.
LEMMA AddIs ==
  ASSUME NEW t, NEW H, NEW sub, NEW ht, Search(t, H, sub, ht), NEW k \in AvlKeys \ H
  PROVE  /\ \E sub2, ht2 : Search(avl_add(t, k), H \cup {k}, sub2, ht2)
         /\ avl_add(t, k).num = t.num + 1
<1> DEFINE where == avl_find(t, k)
<1>1. where.child \in {0, 1} /\ Fits(t, H, sub, Ident, k, where.at, where.child)
  BY FindIs
<1>2. avl_add(t, k) = avl_insert(t, k, where)
  BY DEF avl_add
<1>3. Tree(t, H, sub, ht, Ident) /\ k \in NodeIds \ H /\ H \cup {k} \subseteq AvlKeys
  BY Names DEF Search
<1>. HIDE DEF where
<1>. QED BY <1>1, <1>2, <1>3, InsertIs DEF Search
-----------------------------------------------------------------------------
(***************************************************************************)
(* Removal.                                                                *)
(***************************************************************************)
\* What the nodes outside H hold is no part of the tree.
LEMMA SameTree ==
  ASSUME NEW t, NEW H, NEW sub, NEW ht, NEW rk, Tree(t, H, sub, ht, rk), NEW u \in AnyTree, u.root = t.root,
         \A y \in H : Parent(u, y) = Parent(t, y) /\ Which(u, y) = Which(t, y) /\ Bal(u, y) = Bal(t, y),
         \A y \in H : \A d \in {0, 1} : Child(u, y, d) = Child(t, y, d)
  PROVE  Tree(u, H, sub, ht, rk)
<1>1. Shape(u, H, sub, rk)
  BY SameShape DEF Tree
<1>2. Levels(u, H, ht, Null, 0, 0)
  <2>1. ASSUME NEW y \in H, NEW d \in {0, 1} PROVE Depth(u, ht, Null, 0, 0, y, d) = Depth(t, ht, Null, 0, 0, y, d)
    BY DEF Depth
  <2>2. \A y \in H : Level(t, ht, y, Depth(t, ht, Null, 0, 0, y, 0), Depth(t, ht, Null, 0, 0, y, 1))
    BY DEF Tree, Levels
  <2>3. \A y \in H : Level(u, ht, y, Depth(u, ht, Null, 0, 0, y, 0), Depth(u, ht, Null, 0, 0, y, 1))
    BY <2>1, <2>2 DEF Level
  <2>. QED BY <2>3 DEF Tree, Levels
<1>. QED BY <1>1, <1>2 DEF Tree

\* Ranks that put the nodes in the same order.
LEMMA Reorder ==
  ASSUME NEW t, NEW H, NEW sub, NEW ht, NEW rk, Tree(t, H, sub, ht, rk), NEW rk2 \in [NodeIds -> Int],
         \A u, v \in H : \A d \in {0, 1} : Side(rk, u, v, d) => Side(rk2, u, v, d)
  PROVE  Tree(t, H, sub, ht, rk2)
<1>1. ASSUME NEW x \in H, NEW d \in {0, 1}, NEW y \in sub[Child(t, x, d)] PROVE Side(rk2, y, x, d)
  <2>1. Side(rk, y, x, d)
    BY DEF Tree, Shape, Ordered
  <2>2. y \in H
    <3>1. sub[x] = {x} \cup sub[Child(t, x, d)] \cup sub[Child(t, x, 1 - d)] /\ sub[x] \subseteq H
      BY Sides DEF Tree
    <3>. QED BY <3>1
  <2>. QED BY <2>1, <2>2
<1>2. Ordered(t, H, sub, rk2)
  BY <1>1 DEF Tree, Shape, Ordered
<1>. QED BY <1>2 DEF Tree, Shape

\* d has no child on side 1 - c, and a has its other child in its place.
CutAt(a, t, H, sub, rk, d, c) ==
  /\ Shape(t, H, sub, rk) /\ d \in H /\ c \in {0, 1} /\ Child(t, d, 1 - c) = Null
  /\ a \in AnyTree /\ a.root = IF Parent(t, d) = Null THEN Child(t, d, c) ELSE t.root
  /\ \A y \in NodeIds :
       /\ Parent(a, y) = IF y = Child(t, d, c) THEN Parent(t, d) ELSE Parent(t, y)
       /\ Which(a, y) = IF y = Child(t, d, c) THEN Which(t, d) ELSE Which(t, y)
       /\ Bal(a, y) = Bal(t, y)
       /\ \A e \in {0, 1} : Child(a, y, e) = IF y = Parent(t, d) /\ e = Which(t, d) THEN Child(t, d, c)
                                             ELSE Child(t, y, e)

\* The subtrees without d.
Without(sub, d) == [y \in Slots |-> sub[y] \ {d}]

\* The links stay those of a tree.
LEMMA CutLinked ==
  ASSUME NEW a, NEW t, NEW H, NEW sub, NEW rk, NEW d, NEW c, CutAt(a, t, H, sub, rk, d, c)
  PROVE  Linked(a, H \ {d})
<1> DEFINE q == Child(t, d, c)
           p == Parent(t, d)
           w == Which(t, d)
           G == H \ {d}
<1>0. /\ Linked(t, H) /\ Shape(t, H, sub, rk) /\ d \in H /\ c \in {0, 1} /\ Child(t, d, 1 - c) = Null
      /\ H \subseteq NodeIds /\ Null \notin NodeIds /\ t \in AnyTree
  BY Names DEF CutAt, Shape, Linked
<1>1. /\ a \in AnyTree /\ a.root = IF p = Null THEN q ELSE t.root
      /\ \A y \in NodeIds :
           /\ Parent(a, y) = IF y = q THEN p ELSE Parent(t, y)
           /\ Which(a, y) = IF y = q THEN w ELSE Which(t, y)
           /\ \A e \in {0, 1} : Child(a, y, e) = IF y = p /\ e = w THEN q ELSE Child(t, y, e)
  BY DEF CutAt
<1>2. /\ t.root \in H \cup {Null} /\ (t.root = Null => H = {})
      /\ \A y \in H : Parent(t, y) \in H \cup {Null} /\ (Parent(t, y) = Null <=> y = t.root)
      /\ \A x \in H : \A e \in {0, 1} : Child(t, x, e) \in H \cup {Null}
      /\ \A x, y \in H : \A e \in {0, 1} : Child(t, x, e) = y <=> Parent(t, y) = x /\ Which(t, y) = e
  BY <1>0 DEF Linked
<1>3. q \in G \cup {Null} /\ p \in G \cup {Null} /\ w \in {0, 1}
  <2>1. q # d
    BY <1>0, Sides
  <2>2. p # d
    <3>1. d \in sub[d] /\ d # Null
      BY <1>0, Sides
    <3>2. p # Null => p \notin sub[d]
      BY <1>0, Up
    <3>. QED BY <3>1, <3>2
  <2>. QED BY <2>1, <2>2, <1>0, <1>2, Fields
<1>4. q # Null => Parent(t, q) = d /\ Which(t, q) = c /\ q # p
  <2>1. q # Null => Parent(t, q) = d /\ Which(t, q) = c
    BY <1>0, <1>2, <1>3
  <2>2. q # Null => q \in sub[d]
    BY <1>0, Sides
  <2>3. p # Null => p \notin sub[d]
    BY <1>0, Up
  <2>. QED BY <2>1, <2>2, <2>3
<1>5. p # Null => Child(t, p, w) = d
  BY <1>0, <1>2, <1>3
<1>6. \A y \in H : \A e \in {0, 1} : Child(t, y, e) = d => y = p /\ e = w
  BY <1>0, <1>2
<1>7. \A y \in H : Parent(t, y) = d => y = q
  <2>1. SUFFICES ASSUME NEW y \in H, Parent(t, y) = d PROVE y = q
    OBVIOUS
  <2>2. Which(t, y) \in {0, 1} /\ y # Null
    BY <1>0, Fields
  <2>3. Child(t, d, Which(t, y)) = y
    BY <1>0, <1>2, <2>1, <2>2
  <2>4. Which(t, y) = c \/ Which(t, y) = 1 - c
    BY <1>0, <2>2, TwoSides
  <2>. QED BY <2>2, <2>3, <2>4, <1>0
<1>. HIDE DEF q, p, w
<1>8. a.root \in G \cup {Null} /\ (a.root = Null => G = {})
  <2>1. CASE p = Null
    <3>1. d = t.root /\ a.root = q
      BY <2>1, <1>0, <1>1, <1>2 DEF p
    <3>2. q = Null => H = {d}
      <4>1. sub[d] = {d} \cup sub[Child(t, d, c)] \cup sub[Child(t, d, 1 - c)]
        BY <1>0, Sides
      <4>2. sub[d] = H /\ sub[Null] = {}
        BY <3>1, <1>0 DEF Shape, Ordered
      <4>. QED BY <4>1, <4>2, <1>0 DEF q
    <3>. QED BY <3>1, <3>2, <1>3
  <2>2. CASE p # Null
    <3>1. t.root # d /\ a.root = t.root /\ H # {}
      BY <2>2, <1>0, <1>1, <1>2 DEF p
    <3>. QED BY <3>1, <1>2
  <2>. QED BY <2>1, <2>2
<1>9. ASSUME NEW y \in G PROVE Parent(a, y) \in G \cup {Null} /\ (Parent(a, y) = Null <=> y = a.root)
  <2>1. y \in H /\ y # d /\ y \in NodeIds /\ y # Null
    BY <1>0
  <2>2. CASE y = q
    <3>1. Parent(a, y) = p /\ Parent(t, y) = d
      BY <2>1, <2>2, <1>1, <1>4
    <3>2. y # t.root
      BY <3>1, <2>1, <1>0, <1>2
    <3>. QED BY <3>1, <3>2, <2>2, <1>1, <1>3
  <2>3. CASE y # q
    <3>1. Parent(a, y) = Parent(t, y) /\ Parent(t, y) # d
      BY <2>1, <2>3, <1>1, <1>7
    <3>2. p = Null => y # t.root
      BY <2>1, <1>0, <1>2 DEF p
    <3>. QED BY <3>1, <3>2, <2>1, <2>3, <1>1, <1>2
  <2>. QED BY <2>2, <2>3
<1>10. ASSUME NEW y \in G, NEW e \in {0, 1} PROVE Child(a, y, e) \in G \cup {Null}
  <2>1. y \in H /\ y \in NodeIds
    BY <1>0
  <2>2. Child(a, y, e) = IF y = p /\ e = w THEN q ELSE Child(t, y, e)
    BY <2>1, <1>1
  <2>. QED BY <2>1, <2>2, <1>2, <1>3, <1>6
<1>11. ASSUME NEW y \in G, NEW z \in G, NEW e \in {0, 1}
       PROVE  Child(a, y, e) = z <=> Parent(a, z) = y /\ Which(a, z) = e
  <2>1. y \in H /\ y \in NodeIds /\ z \in H /\ z \in NodeIds /\ y # d /\ z # d /\ z # Null /\ y # Null
    BY <1>0
  <2>2. /\ Child(a, y, e) = IF y = p /\ e = w THEN q ELSE Child(t, y, e)
        /\ Parent(a, z) = IF z = q THEN p ELSE Parent(t, z)
        /\ Which(a, z) = IF z = q THEN w ELSE Which(t, z)
    BY <2>1, <1>1
  <2>3. Child(t, y, e) = z <=> Parent(t, z) = y /\ Which(t, z) = e
    BY <2>1, <1>2
  <2>4. CASE z = q
    <3>1. Child(t, y, e) # z
      BY <2>1, <2>3, <2>4, <1>4
    <3>. QED BY <2>2, <2>4, <3>1
  <2>5. CASE z # q
    <3>1. y = p /\ e = w => Child(t, y, e) = d
      BY <2>1, <1>5
    <3>. QED BY <2>1, <2>2, <2>3, <2>5, <3>1
  <2>. QED BY <2>4, <2>5
<1>12. a \in AnyTree /\ G \subseteq NodeIds
  BY <1>0, <1>1
<1>13. Linked(a, G)
  <2>. HIDE DEF G
  <2>. QED BY <1>8, <1>9, <1>10, <1>11, <1>12 DEF Linked
<1>. QED BY <1>13
\* The links down to d are links to its child now, the others are as before.
CutLinks(a, t, H, d, c) ==
  \A y \in H \ {d} : \A e \in {0, 1} :
    IF y = Parent(t, d) /\ e = Which(t, d) THEN Child(t, y, e) = d /\ Child(a, y, e) = Child(t, d, c)
    ELSE Child(t, y, e) # d /\ Child(a, y, e) = Child(t, y, e)

\* So does the order.
LEMMA CutOrdered ==
  ASSUME NEW a, NEW t, NEW H, NEW sub, NEW rk, NEW d, NEW c, CutAt(a, t, H, sub, rk, d, c)
  PROVE  Ordered(a, H \ {d}, Without(sub, d), rk) /\ CutLinks(a, t, H, d, c)
<1> DEFINE q == Child(t, d, c)
           p == Parent(t, d)
           w == Which(t, d)
           G == H \ {d}
           cut == Without(sub, d)
<1>0. /\ Linked(t, H) /\ Shape(t, H, sub, rk) /\ Ordered(t, H, sub, rk) /\ d \in H /\ c \in {0, 1}
      /\ Child(t, d, 1 - c) = Null /\ H \subseteq NodeIds /\ NodeIds \subseteq Slots /\ Null \in Slots /\ Null \notin NodeIds
  BY Names DEF CutAt, Shape, Linked
<1>1. /\ a.root = IF p = Null THEN q ELSE t.root
      /\ \A y \in NodeIds : \A e \in {0, 1} : Child(a, y, e) = IF y = p /\ e = w THEN q ELSE Child(t, y, e)
  BY DEF CutAt
<1>2. ASSUME NEW y \in G, NEW e \in {0, 1}
      PROVE  IF y = p /\ e = w THEN Child(t, y, e) = d /\ Child(a, y, e) = q
             ELSE Child(t, y, e) # d /\ Child(a, y, e) = Child(t, y, e)
  <2>1. y \in H /\ Child(t, y, e) = d <=> p = y /\ w = e
    BY <1>0 DEF Linked
  <2>. HIDE DEF p, w, q
  <2>2. Child(a, y, e) = IF y = p /\ e = w THEN q ELSE Child(t, y, e)
    BY <1>0, <1>1
  <2>. QED BY <2>1, <2>2
<1>3. /\ sub[d] = {d} \cup sub[q] /\ d \notin sub[q]
  <2>1. sub[d] = {d} \cup sub[q] \cup sub[Child(t, d, 1 - c)] /\ d \notin sub[q]
    BY <1>0, Sides
  <2>. QED BY <2>1, <1>0 DEF Ordered
<1>4. /\ cut \in [Slots -> SUBSET NodeIds] /\ \A y \in Slots : cut[y] = sub[y] \ {d}
  <2>1. \A y \in Slots : sub[y] \ {d} \in SUBSET NodeIds
    BY <1>0 DEF Ordered
  <2>. QED BY <2>1 DEF Without
<1>5. q \in H \cup {Null} /\ q \in Slots
  BY <1>0 DEF Linked
<1>. HIDE DEF cut
<1>6. ASSUME NEW y \in G, NEW e \in {0, 1} PROVE cut[Child(a, y, e)] = sub[Child(t, y, e)] \ {d}
  <2>1. CASE y = p /\ e = w
    <3>1. Child(t, y, e) = d /\ Child(a, y, e) = q
      BY <2>1, <1>2
    <3>2. cut[q] = sub[q] \ {d}
      BY <1>4, <1>5
    <3>. HIDE DEF q
    <3>. QED BY <3>1, <3>2, <1>3
  <2>2. CASE ~ (y = p /\ e = w)
    <3>1. Child(a, y, e) = Child(t, y, e) /\ Child(t, y, e) \in Slots
      <4>1. Child(t, y, e) \in H \cup {Null}
        BY <1>0 DEF Linked
      <4>. QED BY <4>1, <2>2, <1>2, <1>0
    <3>. QED BY <3>1, <1>4
  <2>. QED BY <2>1, <2>2
<1>7. cut[a.root] = G
  <2>1. CASE p = Null
    <3>1. d = t.root /\ a.root = q /\ sub[d] = H
      BY <2>1, <1>0, <1>1 DEF Linked, Ordered
    <3>2. cut[q] = sub[q] \ {d}
      BY <1>4, <1>5
    <3>. HIDE DEF q
    <3>. QED BY <3>1, <3>2, <1>3
  <2>2. CASE p # Null
    <3>1. a.root = t.root /\ t.root \in Slots /\ sub[t.root] = H
      BY <2>2, <1>0, <1>1 DEF Linked, Ordered
    <3>. QED BY <3>1, <1>4
  <2>. QED BY <2>1, <2>2
<1>8. ASSUME NEW y \in G PROVE cut[y] \subseteq G /\ cut[y] = {y} \cup cut[Child(a, y, 0)] \cup cut[Child(a, y, 1)]
  <2>1. y \in H /\ y \in Slots /\ y # d
    BY <1>0
  <2>2. sub[y] \subseteq H /\ sub[y] = {y} \cup sub[Child(t, y, 0)] \cup sub[Child(t, y, 1)]
    BY <2>1, <1>0 DEF Ordered
  <2>3. cut[y] = sub[y] \ {d}
    BY <2>1, <1>4
  <2>4. /\ cut[Child(a, y, 0)] = sub[Child(t, y, 0)] \ {d}
        /\ cut[Child(a, y, 1)] = sub[Child(t, y, 1)] \ {d}
    BY <1>6
  <2>. QED BY <2>1, <2>2, <2>3, <2>4
<1>9. ASSUME NEW y \in G, NEW e \in {0, 1}, NEW z \in cut[Child(a, y, e)] PROVE Side(rk, z, y, e)
  <2>1. z \in sub[Child(t, y, e)]
    BY <1>6
  <2>. QED BY <2>1, <1>0 DEF Ordered
<1>10. cut[Null] = {} /\ rk \in [NodeIds -> Int]
  BY <1>0, <1>4 DEF Ordered
<1>11. Ordered(a, G, cut, rk)
  <2>. HIDE DEF G
  <2>. QED BY <1>4, <1>7, <1>8, <1>9, <1>10 DEF Ordered
<1>12. CutLinks(a, t, H, d, c)
  BY <1>2 DEF CutLinks
<1>. QED BY <1>11, <1>12 DEF cut

\* One level is missing below the parent of the node that was cut out.
LEMMA CutShrinks ==
  ASSUME NEW a, NEW t, NEW H, NEW sub, NEW ht, NEW rk, NEW d, NEW c,
         Tree(t, H, sub, ht, rk), CutAt(a, t, H, sub, rk, d, c)
  PROVE  Shrinks(a, H \ {d}, Without(sub, d), ht, rk, Parent(t, d), Which(t, d), 0)
<1> DEFINE q == Child(t, d, c)
           p == Parent(t, d)
           w == Which(t, d)
           G == H \ {d}
<1>0. /\ Tree(t, H, sub, ht, rk) /\ Shape(t, H, sub, rk) /\ d \in H /\ c \in {0, 1} /\ Child(t, d, 1 - c) = Null
      /\ H \subseteq NodeIds /\ Null \notin NodeIds
      /\ \A y \in NodeIds : Bal(a, y) = Bal(t, y)
  BY Names DEF CutAt, Tree, Shape, Linked
<1>1. Linked(a, G) /\ Ordered(a, G, Without(sub, d), rk)
  BY CutLinked, CutOrdered
<1>2. ASSUME NEW y \in G, NEW e \in {0, 1}
      PROVE  IF y = p /\ e = w THEN Child(t, y, e) = d /\ Child(a, y, e) = q
             ELSE Child(t, y, e) # d /\ Child(a, y, e) = Child(t, y, e)
  <2>1. CutLinks(a, t, H, d, c)
    BY CutOrdered
  <2>. QED BY <2>1 DEF CutLinks
<1>3. ht[d] = ht[q] + 1
  <2>1. Level(t, ht, d, ht[Child(t, d, 0)], ht[Child(t, d, 1)]) /\ ht[q] \in Nat
    BY <1>0, TreeLevels
  <2>2. ht[Null] = 0
    BY <1>0 DEF Tree, Levels
  <2>3. (c = 0 /\ ht[Child(t, d, 0)] = ht[q] /\ ht[Child(t, d, 1)] = 0)
        \/ (c = 1 /\ ht[Child(t, d, 1)] = ht[q] /\ ht[Child(t, d, 0)] = 0)
    BY <1>0, <2>2
  <2>4. ht[d] = 1 + Larger(ht[Child(t, d, 0)], ht[Child(t, d, 1)])
    BY <2>1 DEF Level
  <2>. HIDE DEF q
  <2>. QED BY <2>1, <2>3, <2>4 DEF Larger
<1>4. ASSUME NEW y \in G PROVE Level(a, ht, y, Depth(a, ht, p, w, 1, y, 0), Depth(a, ht, p, w, 1, y, 1))
  <2>1. ASSUME NEW e \in {0, 1} PROVE Depth(a, ht, p, w, 1, y, e) = ht[Child(t, y, e)]
    <3>1. ht[Child(t, y, e)] \in Nat
      BY <1>0, TreeLevels
    <3>2. CASE y = p /\ e = w
      <4>1. Child(t, y, e) = d /\ Child(a, y, e) = q
        BY <3>2, <1>2
      <4>. HIDE DEF q, p, w
      <4>. QED BY <3>2, <4>1, <1>3 DEF Depth
    <3>3. CASE ~ (y = p /\ e = w)
      <4>1. Child(a, y, e) = Child(t, y, e)
        BY <3>3, <1>2
      <4>. HIDE DEF q, p, w
      <4>. QED BY <3>1, <3>3, <4>1 DEF Depth
    <3>. QED BY <3>2, <3>3
  <2>2. /\ Depth(a, ht, p, w, 1, y, 0) = ht[Child(t, y, 0)]
        /\ Depth(a, ht, p, w, 1, y, 1) = ht[Child(t, y, 1)]
    BY <2>1
  <2>3. Level(t, ht, y, ht[Child(t, y, 0)], ht[Child(t, y, 1)])
    BY <1>0, TreeLevels
  <2>4. Bal(a, y) = Bal(t, y)
    BY <1>0
  <2>. HIDE DEF p, w
  <2>. QED BY <2>2, <2>3, <2>4 DEF Level
<1>. HIDE DEF p, w
<1>5. Pending(a, G, Without(sub, d), ht, rk, p, w, 1)
  <2>1. Levels(a, G, ht, p, w, 1)
    BY <1>0, <1>4 DEF Tree, Levels
  <2>. QED BY <2>1, <1>1 DEF Pending, Shape
<1>6. CASE p = Null
  <2>1. Tree(a, G, Without(sub, d), ht, rk)
    <3>. HIDE DEF G
    <3>. QED BY <1>5, <1>6, PendingNone
  <2>2. Shrinks(a, G, Without(sub, d), ht, rk, p, w, 0)
    BY <2>1, <1>6 DEF Shrinks
  <2>. QED BY <2>2 DEF p, w
<1>7. CASE p # Null
  <2>1. p \in G
    <3>1. Parent(t, d) # Null => Parent(t, d) \in H /\ Parent(t, d) \notin sub[d]
      BY <1>0, Up
    <3>2. d \in sub[d]
      BY <1>0, Sides
    <3>. QED BY <3>1, <3>2, <1>7 DEF p
  <2>2. Mass(Without(sub, d))[p] > 0
    <3>1. Shape(a, G, Without(sub, d), rk)
      BY <1>5 DEF Pending
    <3>. HIDE DEF G
    <3>. QED BY <3>1, <2>1, Masses
  <2>3. Shrinks(a, G, Without(sub, d), ht, rk, p, w, 0)
    <3>. HIDE DEF G
    <3>. QED BY <1>5, <1>7, <2>1, <2>2 DEF Shrinks
  <2>. QED BY <2>3 DEF p, w
<1>. QED BY <1>6, <1>7

\* A node that lacks a child is cut out.
LEMMA CutOutIs ==
  ASSUME NEW t, NEW H, NEW sub, NEW ht, NEW rk, Tree(t, H, sub, ht, rk), NEW d \in H,
         Child(t, d, 0) = Null \/ Child(t, d, 1) = Null
  PROVE  /\ \E sub2, ht2 : Tree(CutOut(t, d), H \ {d}, sub2, ht2, rk)
         /\ CutOut(t, d).num = t.num - 1
<1> DEFINE c == IF Child(t, d, 0) # Null THEN 0 ELSE 1
           p == Parent(t, d)
           w == Which(t, d)
           q == Child(t, d, c)
           n == t.num - 1
           less == [t EXCEPT !.num = @ - 1]
           a == Attach(less, p, w, q)
<1>0. t \in AnyTree /\ d \in NodeIds /\ c \in {0, 1} /\ Child(t, d, 1 - c) = Null
  BY DEF Tree, Shape, Linked
<1>1. p \in Slots /\ w \in {0, 1} /\ q \in Slots
  BY <1>0, Fields
<1>2. less \in AnyTree /\ less.num = n /\ less.root = t.root /\ less.node = t.node
  <2>1. n \in Int
    BY <1>0 DEF AnyTree
  <2>. QED BY <1>0, <2>1 DEF AnyTree
<1>3. CutOut(t, d) = Shrink(a, p, w)
  <2>1. q = IF Child(t, d, 0) # Null THEN Child(t, d, 0) ELSE Child(t, d, 1)
    OBVIOUS
  <2>. HIDE DEF q, c
  <2>. QED BY <2>1 DEF CutOut
<1>4. \A y \in NodeIds :
        /\ Parent(less, y) = Parent(t, y) /\ Which(less, y) = Which(t, y) /\ Bal(less, y) = Bal(t, y)
        /\ \A e \in {0, 1} : Child(less, y, e) = Child(t, y, e)
  BY <1>2 DEF Parent, Which, Bal, Child
<1>. HIDE DEF c, less, n
<1>5. Attached(a, less, p, w, q)
  <2>. HIDE DEF a, p, w, q
  <2>1. Attached(Attach(less, p, w, q), less, p, w, q)
    BY <1>1, <1>2, AttachIs
  <2>. QED BY <2>1 DEF a
<1>. HIDE DEF a
<1>6. CutAt(a, t, H, sub, rk, d, c)
  BY <1>0, <1>2, <1>4, <1>5 DEF CutAt, Attached, Tree
<1>7. Shrinks(a, H \ {d}, Without(sub, d), ht, rk, p, w, 0)
  BY <1>6, CutShrinks
<1>8. a \in AnyTree /\ a.num = n
  BY <1>2, <1>5 DEF Attached
<1>. HIDE DEF p, w
<1>9. /\ \E sub2, ht2 : Tree(Shrink(a, p, w), H \ {d}, sub2, ht2, rk)
      /\ Shrink(a, p, w).num = a.num
  BY <1>1, <1>7, <1>8, ShrinkIs
<1>10. t.num - 1 = n
  BY DEF n
<1>. QED BY <1>3, <1>8, <1>9, <1>10
\* u is t with other names for the nodes: those in G stand for those in H.
Renames(u, t, G, H, f, g) ==
  /\ u \in AnyTree /\ G \subseteq NodeIds /\ u.root = g[t.root]
  /\ f[Null] = Null /\ g[Null] = Null
  /\ \A y \in G : f[y] \in H /\ g[f[y]] = y
  /\ \A x \in H : g[x] \in G /\ f[g[x]] = x
  /\ \A y \in G : /\ Parent(u, y) = g[Parent(t, f[y])]
                  /\ Which(u, y) = Which(t, f[y]) /\ Bal(u, y) = Bal(t, f[y])
                  /\ \A d \in {0, 1} : Child(u, y, d) = g[Child(t, f[y], d)]

\* Other names make the same tree.
LEMMA RenamedTree ==
  ASSUME NEW t, NEW H, NEW sub, NEW ht, NEW rk, Tree(t, H, sub, ht, rk), NEW u, NEW G, NEW f, NEW g,
         Renames(u, t, G, H, f, g), NEW rk2 \in [NodeIds -> Int], \A y \in G : rk2[y] = rk[f[y]]
  PROVE  \E sub2, ht2 : Tree(u, G, sub2, ht2, rk2)
<1> DEFINE sub2 == [y \in Slots |-> IF y \in G THEN {z \in G : f[z] \in sub[f[y]]} ELSE {}]
           ht2 == [y \in Slots |-> IF y \in G THEN ht[f[y]] ELSE 0]
<1>0. /\ Linked(t, H) /\ Ordered(t, H, sub, rk) /\ t \in AnyTree /\ H \subseteq NodeIds
      /\ NodeIds \subseteq Slots /\ Null \in Slots /\ Null \notin NodeIds
  BY Names DEF Tree, Shape, Linked
<1>1. /\ u \in AnyTree /\ G \subseteq NodeIds /\ u.root = g[t.root]
      /\ f[Null] = Null /\ g[Null] = Null
      /\ \A y \in G : f[y] \in H /\ g[f[y]] = y
      /\ \A x \in H : g[x] \in G /\ f[g[x]] = x
      /\ \A y \in G : /\ Parent(u, y) = g[Parent(t, f[y])]
                      /\ Which(u, y) = Which(t, f[y]) /\ Bal(u, y) = Bal(t, f[y])
                      /\ \A d \in {0, 1} : Child(u, y, d) = g[Child(t, f[y], d)]
  BY DEF Renames
<1>2. /\ t.root \in H \cup {Null} /\ (t.root = Null => H = {})
      /\ \A y \in H : Parent(t, y) \in H \cup {Null} /\ (Parent(t, y) = Null <=> y = t.root)
      /\ \A x \in H : \A e \in {0, 1} : Child(t, x, e) \in H \cup {Null}
      /\ \A x, y \in H : \A e \in {0, 1} : Child(t, x, e) = y <=> Parent(t, y) = x /\ Which(t, y) = e
  BY <1>0 DEF Linked
<1>3. ASSUME NEW a \in H \cup {Null} PROVE g[a] \in G \cup {Null} /\ \A y \in G : g[a] = y <=> a = f[y]
  <2>1. CASE a = Null
    BY <2>1, <1>0, <1>1
  <2>2. CASE a \in H
    BY <2>2, <1>0, <1>1
  <2>. QED BY <2>1, <2>2
<1>4. \A a \in H \cup {Null} : g[a] = Null <=> a = Null
  BY <1>0, <1>1
<1>5. Linked(u, G)
  <2>1. u.root \in G \cup {Null} /\ (u.root = Null => G = {})
    BY <1>1, <1>2, <1>3, <1>4
  <2>2. ASSUME NEW y \in G PROVE Parent(u, y) \in G \cup {Null} /\ (Parent(u, y) = Null <=> y = u.root)
    <3>1. f[y] \in H /\ Parent(u, y) = g[Parent(t, f[y])] /\ Parent(t, f[y]) \in H \cup {Null}
      BY <1>1, <1>2
    <3>2. Parent(u, y) = Null <=> f[y] = t.root
      BY <3>1, <1>2, <1>4
    <3>3. y = u.root <=> f[y] = t.root
      BY <1>1, <1>2, <1>3
    <3>. QED BY <3>1, <3>2, <3>3, <1>3
  <2>3. ASSUME NEW x \in G, NEW d \in {0, 1} PROVE Child(u, x, d) \in G \cup {Null}
    BY <1>1, <1>2, <1>3
  <2>4. ASSUME NEW x \in G, NEW y \in G, NEW d \in {0, 1}
        PROVE  Child(u, x, d) = y <=> Parent(u, y) = x /\ Which(u, y) = d
    <3>1. f[x] \in H /\ f[y] \in H
      BY <1>1
    <3>2. Child(u, x, d) = y <=> Child(t, f[x], d) = f[y]
      BY <3>1, <1>1, <1>2, <1>3
    <3>3. Parent(u, y) = x <=> Parent(t, f[y]) = f[x]
      BY <3>1, <1>1, <1>2, <1>3
    <3>. QED BY <3>1, <3>2, <3>3, <1>1, <1>2
  <2>. QED BY <2>1, <2>2, <2>3, <2>4, <1>1 DEF Linked
<1>6. /\ sub \in [Slots -> SUBSET NodeIds] /\ rk \in [NodeIds -> Int]
      /\ sub[Null] = {} /\ sub[t.root] = H
      /\ \A x \in H : sub[x] \subseteq H /\ sub[x] = {x} \cup sub[Child(t, x, 0)] \cup sub[Child(t, x, 1)]
      /\ \A x \in H : \A d \in {0, 1} : \A y \in sub[Child(t, x, d)] : Side(rk, y, x, d)
  BY <1>0 DEF Ordered
<1>7. /\ sub2 \in [Slots -> SUBSET NodeIds] /\ sub2[Null] = {}
      /\ \A y \in G : sub2[y] = {z \in G : f[z] \in sub[f[y]]}
  <2>1. \A y \in Slots : (IF y \in G THEN {z \in G : f[z] \in sub[f[y]]} ELSE {}) \in SUBSET NodeIds
    BY <1>1
  <2>2. sub2 \in [Slots -> SUBSET NodeIds]
    BY <2>1
  <2>. QED BY <2>2, <1>0, <1>1
<1>. HIDE DEF sub2
<1>8. ASSUME NEW a \in H \cup {Null} PROVE sub2[g[a]] = {z \in G : f[z] \in sub[a]}
  <2>1. CASE a = Null
    BY <2>1, <1>1, <1>6, <1>7
  <2>2. CASE a \in H
    <3>1. g[a] \in G /\ f[g[a]] = a
      BY <2>2, <1>1
    <3>. QED BY <3>1, <1>7
  <2>. QED BY <2>1, <2>2
<1>9. ASSUME NEW y \in G, NEW d \in {0, 1} PROVE sub2[Child(u, y, d)] = {z \in G : f[z] \in sub[Child(t, f[y], d)]}
  <2>1. Child(u, y, d) = g[Child(t, f[y], d)] /\ Child(t, f[y], d) \in H \cup {Null}
    BY <1>1, <1>2
  <2>. QED BY <2>1, <1>8
<1>10. Ordered(u, G, sub2, rk2)
  <2>1. sub2[u.root] = G
    <3>1. sub2[u.root] = {z \in G : f[z] \in sub[t.root]}
      BY <1>1, <1>2, <1>8
    <3>. QED BY <3>1, <1>1, <1>6
  <2>2. \A x \in G : sub2[x] \subseteq G
    BY <1>7
  <2>3. ASSUME NEW x \in G PROVE sub2[x] = {x} \cup sub2[Child(u, x, 0)] \cup sub2[Child(u, x, 1)]
    <3>1. f[x] \in H /\ sub[f[x]] = {f[x]} \cup sub[Child(t, f[x], 0)] \cup sub[Child(t, f[x], 1)]
      BY <1>1, <1>6
    <3>2. /\ sub2[x] = {z \in G : f[z] \in sub[f[x]]}
          /\ sub2[Child(u, x, 0)] = {z \in G : f[z] \in sub[Child(t, f[x], 0)]}
          /\ sub2[Child(u, x, 1)] = {z \in G : f[z] \in sub[Child(t, f[x], 1)]}
      BY <1>7, <1>9
    <3>3. \A z \in G : f[z] = f[x] <=> z = x
      BY <1>1
    <3>. QED BY <3>1, <3>2, <3>3
  <2>4. ASSUME NEW x \in G, NEW d \in {0, 1}, NEW y \in sub2[Child(u, x, d)] PROVE Side(rk2, y, x, d)
    <3>1. y \in G /\ f[y] \in sub[Child(t, f[x], d)] /\ f[x] \in H
      BY <1>1, <1>9
    <3>2. Side(rk, f[y], f[x], d)
      BY <3>1, <1>6
    <3>3. rk2[y] = rk[f[y]] /\ rk2[x] = rk[f[x]]
      BY <3>1
    <3>. QED BY <3>2, <3>3 DEF Side
  <2>. QED BY <2>1, <2>2, <2>3, <2>4, <1>7 DEF Ordered
<1>11. /\ ht \in [Slots -> Nat] /\ ht[Null] = 0 /\ \A y \in H : ht[y] > 0
  BY DEF Tree, Levels
<1>12. /\ ht2 \in [Slots -> Nat] /\ ht2[Null] = 0 /\ \A y \in G : ht2[y] = ht[f[y]]
  <2>1. \A y \in Slots : (IF y \in G THEN ht[f[y]] ELSE 0) \in Nat
    BY <1>0, <1>1, <1>11
  <2>2. ht2 \in [Slots -> Nat]
    BY <2>1
  <2>. QED BY <2>2, <1>0, <1>1
<1>. HIDE DEF ht2
<1>13. \A a \in H \cup {Null} : ht2[g[a]] = ht[a]
  BY <1>1, <1>11, <1>12
<1>14. ASSUME NEW y \in G PROVE Level(u, ht2, y, Depth(u, ht2, Null, 0, 0, y, 0), Depth(u, ht2, Null, 0, 0, y, 1))
  <2>1. f[y] \in H /\ y # Null
    BY <1>0, <1>1
  <2>2. ASSUME NEW d \in {0, 1} PROVE Depth(u, ht2, Null, 0, 0, y, d) = ht[Child(t, f[y], d)]
    <3>1. Child(u, y, d) = g[Child(t, f[y], d)] /\ Child(t, f[y], d) \in H \cup {Null}
      BY <2>1, <1>1, <1>2
    <3>2. ht2[Child(u, y, d)] = ht[Child(t, f[y], d)] /\ ht[Child(t, f[y], d)] \in Nat
      BY <3>1, <1>0, <1>11, <1>13
    <3>. QED BY <3>2, <2>1 DEF Depth
  <2>3. /\ Depth(u, ht2, Null, 0, 0, y, 0) = ht[Child(t, f[y], 0)]
        /\ Depth(u, ht2, Null, 0, 0, y, 1) = ht[Child(t, f[y], 1)]
    BY <2>2
  <2>4. Level(t, ht, f[y], ht[Child(t, f[y], 0)], ht[Child(t, f[y], 1)])
    BY <2>1, TreeLevels
  <2>5. ht2[y] = ht[f[y]] /\ Bal(u, y) = Bal(t, f[y])
    BY <1>1, <1>12
  <2>. QED BY <2>3, <2>4, <2>5 DEF Level
<1>15. Levels(u, G, ht2, Null, 0, 0)
  BY <1>1, <1>11, <1>12, <1>14 DEF Levels
<1>16. Tree(u, G, sub2, ht2, rk2)
  BY <1>5, <1>10, <1>15 DEF Tree, Shape
<1>. QED BY <1>16
\* x has two children and y is its neighbour below it on side l: how they hang
\* together with the nodes around them.
Neighbours(t, H, x, l, y, c) ==
  /\ t \in AnyTree /\ H \subseteq AvlKeys /\ x \in H /\ y \in H /\ x # y /\ l \in {0, 1} /\ c \in {0, 1}
  /\ Parent(t, x) \in (H \ {x, y}) \cup {Null} /\ Which(t, x) \in {0, 1}
  /\ (Parent(t, x) = Null <=> x = t.root) /\ t.root \in H /\ t.root # y
  /\ Parent(t, y) \in H \ {y} /\ Which(t, y) \in {0, 1} /\ Parent(t, y) # Parent(t, x)
  /\ (Parent(t, y) = x <=> Child(t, x, l) = y) /\ (Parent(t, y) = x => Which(t, y) = l)
  /\ Child(t, x, l) \in H \ {x} /\ Child(t, x, 1 - l) \in H \ {x, y}
  /\ Child(t, x, l) # Child(t, x, 1 - l)
  /\ \A d \in {0, 1} : Child(t, y, d) \in (H \ {x, y, Child(t, x, 0), Child(t, x, 1)}) \cup {Null}
  /\ Child(t, y, 1 - c) = Null
  /\ \A z \in H : \A d \in {0, 1} : /\ Child(t, z, d) \in H \cup {Null}
                                    /\ Child(t, z, d) = x <=> Parent(t, x) = z /\ Which(t, x) = d
                                    /\ Child(t, z, d) = y <=> Parent(t, y) = z /\ Which(t, y) = d
  /\ \A z \in H : /\ Parent(t, z) \in H \cup {Null}
                  /\ Parent(t, z) = x <=> z \in {Child(t, x, l), Child(t, x, 1 - l)}
                  /\ Parent(t, z) = y <=> z = Child(t, y, c)
  /\ Which(t, Child(t, x, l)) = l /\ Which(t, Child(t, x, 1 - l)) = 1 - l
  /\ Child(t, y, c) # Null => Which(t, Child(t, y, c)) = c

\* The node with two children and its neighbour are placed like this.
LEMMA NeighboursAre ==
  ASSUME NEW t, NEW H, NEW sub, NEW rk, Shape(t, H, sub, rk), H \subseteq AvlKeys, NEW x \in H,
         Child(t, x, 0) # Null, Child(t, x, 1) # Null, NEW l \in {0, 1},
         NEW y \in sub[Child(t, x, l)], Child(t, y, 1 - l) = Null, NEW c \in {0, 1}, Child(t, y, 1 - c) = Null
  PROVE  Neighbours(t, H, x, l, y, c)
<1> DEFINE p == Parent(t, x)
           q == Parent(t, y)
           cl == Child(t, x, l)
           cr == Child(t, x, 1 - l)
<1>0. /\ t \in AnyTree /\ H \subseteq NodeIds /\ Null \notin NodeIds /\ Linked(t, H) /\ 1 - l \in {0, 1} /\ l # 1 - l
      /\ 1 - c \in {0, 1} /\ c # 1 - c /\ sub[Null] = {}
  BY Names DEF Shape, Linked, Ordered
<1>1. /\ t.root \in H \cup {Null} /\ (t.root = Null => H = {})
      /\ \A v \in H : Parent(t, v) \in H \cup {Null} /\ (Parent(t, v) = Null <=> v = t.root)
      /\ \A u \in H : \A e \in {0, 1} : Child(t, u, e) \in H \cup {Null}
      /\ \A u, v \in H : \A e \in {0, 1} : Child(t, u, e) = v <=> Parent(t, v) = u /\ Which(t, v) = e
  BY <1>0 DEF Linked
<1>2. cl # Null /\ cr # Null
  <2>1. \A e \in {0, 1} : Child(t, x, e) # Null
    OBVIOUS
  <2>. QED BY <2>1, <1>0
<1>3. cl \in H /\ cr \in H /\ Parent(t, cl) = x /\ Which(t, cl) = l /\ Parent(t, cr) = x /\ Which(t, cr) = 1 - l
  BY <1>0, <1>1, <1>2
<1>4. /\ sub[x] = {x} \cup sub[cl] \cup sub[cr] /\ x \notin sub[cl] /\ x \notin sub[cr] /\ cr \in sub[cr] /\ cl \in sub[cl]
      /\ \A z \in sub[cl] : z \notin sub[cr]
  <2>1. /\ sub[x] = {x} \cup sub[cl] \cup sub[cr] /\ x \notin sub[cl] /\ (cl # Null => cl \in sub[cl])
        /\ \A z \in sub[cl] : z \notin sub[cr]
    BY Sides
  <2>2. x \notin sub[cr] /\ (cr # Null => cr \in sub[cr])
    BY <1>0, Sides
  <2>. QED BY <2>1, <2>2, <1>2
<1>5. y \in H /\ y # x /\ y \in sub[x] /\ y \notin sub[cr] /\ y \in sub[y] /\ y # cr
  <2>1. sub[cl] \subseteq H
    BY <1>3, Sides
  <2>. QED BY <2>1, <1>4, Sides
<1>6. q \in sub[x] /\ q \in H /\ y # t.root
  <2>1. y # t.root /\ q \in sub[x]
    BY <1>5, SubUp
  <2>2. sub[x] \subseteq H
    BY Sides
  <2>. QED BY <2>1, <2>2
<1>7. p # Null => p \notin sub[x]
  BY Up
<1>8. p \in (H \ {x, y}) \cup {Null} /\ q # p
  <2>1. x \in sub[x]
    BY <1>4
  <2>. QED BY <2>1, <1>1, <1>5, <1>6, <1>7, <1>0
<1>9. \A z \in H : Which(t, z) \in {0, 1}
  BY <1>0, Fields
<1>10. Child(t, q, Which(t, y)) = y
  BY <1>1, <1>5, <1>6, <1>9
<1>11. q # y
  <2>1. y \notin sub[Child(t, y, Which(t, y))]
    BY <1>5, <1>9, Sides
  <2>2. Child(t, y, Which(t, y)) # Null => Child(t, y, Which(t, y)) \in sub[Child(t, y, Which(t, y))]
    BY <1>5, <1>9, Sides
  <2>. QED BY <2>1, <2>2, <1>0, <1>5, <1>10
<1>12. (q = x <=> cl = y) /\ (q = x => Which(t, y) = l)
  <2>1. q = x => y = cl
    <3>1. SUFFICES ASSUME q = x PROVE y = cl
      OBVIOUS
    <3>2. Which(t, y) = l \/ Which(t, y) = 1 - l
      BY <1>5, <1>9, TwoSides
    <3>. QED BY <3>1, <3>2, <1>5, <1>10
  <2>. QED BY <2>1, <1>3
<1>13. \A z \in H : Parent(t, z) = x <=> z \in {cl, cr}
  <2>1. SUFFICES ASSUME NEW z \in H, Parent(t, z) = x PROVE z \in {cl, cr}
    BY <1>3
  <2>2. Child(t, x, Which(t, z)) = z
    BY <2>1, <1>1, <1>9
  <2>3. Which(t, z) = l \/ Which(t, z) = 1 - l
    BY <1>9, TwoSides
  <2>. QED BY <2>2, <2>3
<1>14. /\ \A z \in H : Parent(t, z) = y <=> z = Child(t, y, c)
       /\ Child(t, y, c) # Null => Which(t, Child(t, y, c)) = c
  <2>1. ASSUME NEW z \in H, Parent(t, z) = y PROVE z = Child(t, y, c)
    <3>1. Child(t, y, Which(t, z)) = z /\ z # Null
      BY <2>1, <1>0, <1>1, <1>5, <1>9
    <3>2. Which(t, z) = c \/ Which(t, z) = 1 - c
      BY <1>9, TwoSides
    <3>. QED BY <3>1, <3>2
  <2>. QED BY <2>1, <1>1, <1>5
<1>15. ASSUME NEW d \in {0, 1}
       PROVE  Child(t, y, d) \in (H \ {x, y, Child(t, x, 0), Child(t, x, 1)}) \cup {Null}
  <2>1. SUFFICES ASSUME Child(t, y, d) # Null
                 PROVE  Child(t, y, d) \in H /\ \A e \in {0, 1} : Child(t, y, d) \notin {x, y, Child(t, x, e)}
    OBVIOUS
  <2>2. Child(t, y, d) \in H /\ Parent(t, Child(t, y, d)) = y
    BY <2>1, <1>1, <1>5
  <2>3. \A e \in {0, 1} : Parent(t, Child(t, x, e)) = x
    BY <1>1
  <2>4. p # y /\ q # y
    BY <1>0, <1>5, <1>8, <1>11
  <2>. QED BY <2>2, <2>3, <2>4, <1>5
<1>16. t.root \in H
  BY <1>1
<1>17. cl # cr /\ cl # x /\ cr # x
  BY <1>4
<1>18. \A z \in H : \A d \in {0, 1} :
         /\ Child(t, z, d) \in H \cup {Null}
         /\ Child(t, z, d) = x <=> Parent(t, x) = z /\ Which(t, x) = d
         /\ Child(t, z, d) = y <=> Parent(t, y) = z /\ Which(t, y) = d
  BY <1>1, <1>5
<1>19. \A z \in H : /\ Parent(t, z) \in H \cup {Null}
                    /\ Parent(t, z) = x <=> z \in {cl, cr}
                    /\ Parent(t, z) = y <=> z = Child(t, y, c)
  BY <1>1, <1>13, <1>14
<1>20. Which(t, x) \in {0, 1} /\ Which(t, y) \in {0, 1} /\ (p = Null <=> x = t.root)
  BY <1>1, <1>5, <1>9
<1>. QED BY <1>0, <1>3, <1>5, <1>6, <1>8, <1>11, <1>12, <1>14, <1>15, <1>16, <1>17, <1>18, <1>19, <1>20 DEF Neighbours

\* The links after Swapped: y in the place of x, Tmp in that of y.
SwapLinked(u, t, x, l, y, c) ==
  /\ u \in AnyTree /\ u.num = t.num /\ u.root = IF Parent(t, x) = Null THEN y ELSE t.root
  /\ \A z \in NodeIds \ {x} :
       /\ Parent(u, z) = IF z = Child(t, y, c) THEN Tmp
                         ELSE IF z = Tmp THEN IF Parent(t, y) = x THEN y ELSE Parent(t, y)
                         ELSE IF z = y THEN Parent(t, x)
                         ELSE IF z \in {Child(t, x, l), Child(t, x, 1 - l)} THEN y
                         ELSE Parent(t, z)
       /\ Which(u, z) = IF z = Tmp THEN Which(t, y) ELSE IF z = y THEN Which(t, x) ELSE Which(t, z)
       /\ Bal(u, z) = IF z = Tmp THEN Bal(t, y) ELSE IF z = y THEN Bal(t, x) ELSE Bal(t, z)
       /\ \A d \in {0, 1} :
            Child(u, z, d) = IF z = Tmp THEN Child(t, y, d)
                             ELSE IF z = y
                             THEN IF d = l /\ Parent(t, y) = x THEN Tmp ELSE Child(t, x, d)
                             ELSE IF z = Parent(t, x) /\ d = Which(t, x) THEN y
                             ELSE IF z = Parent(t, y) /\ d = Which(t, y) THEN Tmp
                             ELSE Child(t, z, d)
\* The node y takes the fields of x, Tmp those of y.
Copies(t1, t, x, y) == t1 = [t EXCEPT !.node[Tmp] = t.node[y], !.node[y] = t.node[x]]

\* The fields that avl_remove copies at first.
LEMMA CopiesAre ==
  ASSUME NEW t \in AnyTree, NEW x \in NodeIds, NEW y \in NodeIds, y # Tmp,
         NEW t1, Copies(t1, t, x, y)
  PROVE  /\ t1 \in AnyTree /\ t1.num = t.num /\ t1.root = t.root
         /\ \A z \in NodeIds : t1.node[z] = IF z = y THEN t.node[x] ELSE IF z = Tmp THEN t.node[y] ELSE t.node[z]
<1> DEFINE r == [t EXCEPT !.node[Tmp] = t.node[y]]
<1>0. /\ Tmp \in NodeIds /\ t.node \in [NodeIds -> AnyNode] /\ t.root \in Slots /\ t.num \in Int
      /\ t = [root |-> t.root, num |-> t.num, node |-> t.node]
  BY Names DEF AnyTree
<1>1. r = [root |-> t.root, num |-> t.num, node |-> [t.node EXCEPT ![Tmp] = t.node[y]]]
  BY <1>0
<1>2. t1 = [r EXCEPT !.node[y] = t.node[x]]
  BY <1>0 DEF Copies
<1>. HIDE DEF r
<1>3. r.node \in [NodeIds -> AnyNode] /\ r.root = t.root /\ r.num = t.num
  <2>1. [t.node EXCEPT ![Tmp] = t.node[y]] \in [NodeIds -> AnyNode]
    BY <1>0
  <2>. QED BY <2>1, <1>1
<1>4. \A z \in NodeIds : r.node[z] = IF z = Tmp THEN t.node[y] ELSE t.node[z]
  BY <1>0, <1>1
<1>5. t1 = [root |-> t.root, num |-> t.num, node |-> [r.node EXCEPT ![y] = t.node[x]]]
  BY <1>1, <1>2
<1>6. t1.node \in [NodeIds -> AnyNode] /\ t1.root = t.root /\ t1.num = t.num
  <2>1. [r.node EXCEPT ![y] = t.node[x]] \in [NodeIds -> AnyNode]
    BY <1>0, <1>3
  <2>. QED BY <2>1, <1>5
<1>7. t1 \in AnyTree
  <2>1. [r.node EXCEPT ![y] = t.node[x]] \in [NodeIds -> AnyNode]
    BY <1>0, <1>3
  <2>. QED BY <2>1, <1>0, <1>5 DEF AnyTree
<1>8. \A z \in NodeIds : t1.node[z] = IF z = y THEN t.node[x] ELSE IF z = Tmp THEN t.node[y] ELSE t.node[z]
  BY <1>3, <1>4, <1>5
<1>. QED BY <1>6, <1>7, <1>8

\* After the swap the links are these.
LEMMA SwapIs ==
  ASSUME NEW t, NEW H, NEW x, NEW l, NEW y, NEW c, Neighbours(t, H, x, l, y, c),
         l = balance2child(Bal(t, x)), y = Outermost(t, Child(t, x, l), 1 - l),
         c = IF Child(t, y, 1) # Null THEN 1 ELSE 0
  PROVE  SwapLinked(Swapped(t, x), t, x, l, y, c)
<1> DEFINE p == Parent(t, x)
           w == Which(t, x)
           q == Parent(t, y)
           v == Which(t, y)
           cl == Child(t, x, l)
           cr == Child(t, x, 1 - l)
           b == Child(t, y, c)
           L == IF q = x THEN Tmp ELSE cl
           Q == IF q = x THEN y ELSE q
           t1 == [t EXCEPT !.node[Tmp] = t.node[y], !.node[y] = t.node[x]]
           t2 == Attach(t1, y, l, L)
           t3 == Attach(t2, y, 1 - l, cr)
           t4 == Attach(t3, p, w, y)
           t5 == Attach(t4, Q, v, Tmp)
           t6 == Attach(t5, Tmp, c, b)
<1>0. /\ t \in AnyTree /\ H \subseteq NodeIds /\ x \in NodeIds /\ y \in NodeIds /\ Tmp \in NodeIds /\ Tmp \notin H
      /\ NodeIds \subseteq Slots /\ Null \in Slots /\ Null \notin NodeIds /\ 1 - l \in {0, 1} /\ l \in {0, 1} /\ c \in {0, 1}
  BY Names DEF Neighbours
<1>1. Swapped(t, x) = t6
  BY Zenon DEF Swapped
<1>2. /\ t1 \in AnyTree /\ t1.num = t.num /\ t1.root = t.root
      /\ \A z \in NodeIds : t1.node[z] = IF z = y THEN t.node[x] ELSE IF z = Tmp THEN t.node[y] ELSE t.node[z]
  <2>1. y # Tmp
    BY <1>0 DEF Neighbours
  <2>2. Copies(t1, t, x, y)
    BY DEF Copies
  <2>. HIDE DEF t1
  <2>. QED BY <1>0, <2>1, <2>2, CopiesAre
<1>. HIDE DEF t1
<1>3. \A z \in NodeIds :
        /\ Parent(t1, z) = IF z = y THEN p ELSE IF z = Tmp THEN q ELSE Parent(t, z)
        /\ Which(t1, z) = IF z = y THEN w ELSE IF z = Tmp THEN v ELSE Which(t, z)
        /\ Bal(t1, z) = IF z = y THEN Bal(t, x) ELSE IF z = Tmp THEN Bal(t, y) ELSE Bal(t, z)
        /\ \A d \in {0, 1} : Child(t1, z, d) = IF z = y THEN Child(t, x, d)
                                               ELSE IF z = Tmp THEN Child(t, y, d) ELSE Child(t, z, d)
  BY <1>2 DEF Parent, Which, Bal, Child
<1>4. /\ x \in H /\ y \in H /\ x # y /\ 1 - l # l /\ t.root \in H
      /\ p \in (H \ {x, y}) \cup {Null} /\ w \in {0, 1} /\ (p = Null <=> x = t.root) /\ t.root # y
      /\ q \in H \ {y} /\ v \in {0, 1} /\ q # p
      /\ (q = x <=> cl = y) /\ (q = x => v = l)
      /\ cl \in H \ {x} /\ cr \in H \ {x, y} /\ cl # cr
      /\ b \in (H \ {x, y, cl, cr}) \cup {Null}
      /\ Which(t, cl) = l /\ Which(t, cr) = 1 - l /\ (b # Null => Which(t, b) = c)
      /\ \A z \in H : (Parent(t, z) = x <=> z \in {cl, cr}) /\ (Parent(t, z) = y <=> z = b)
      /\ \A z \in H : \A d \in {0, 1} : /\ Child(t, z, d) = x <=> p = z /\ w = d
                                        /\ Child(t, z, d) = y <=> q = z /\ v = d
  <2>1. b \in (H \ {x, y, Child(t, x, 0), Child(t, x, 1)}) \cup {Null}
    BY <1>0 DEF Neighbours
  <2>2. b \in (H \ {x, y, cl, cr}) \cup {Null}
    <3>1. {Child(t, x, 0), Child(t, x, 1)} = {cl, cr}
      BY <1>0
    <3>. HIDE DEF b, cl, cr
    <3>. QED BY <2>1, <3>1
  <2>3. 1 - l # l
    BY <1>0
  <2>. QED BY <2>2, <2>3 DEF Neighbours
<1>5. p \in Slots /\ q \in Slots /\ cl \in Slots /\ cr \in Slots /\ b \in Slots /\ L \in Slots /\ Q \in Slots
      /\ x \in Slots /\ y \in Slots /\ Tmp \in Slots
  BY <1>0, <1>4
<1>. HIDE DEF p, w, q, v, cl, cr, b, L, Q
<1>6. Attached(t2, t1, y, l, L)
  BY <1>0, <1>2, <1>5, AttachIs
<1>. HIDE DEF t2
<1>7. Attached(t3, t2, y, 1 - l, cr)
  <2>1. t2 \in AnyTree
    BY <1>6 DEF Attached
  <2>. QED BY <1>0, <1>4, <1>5, <2>1, AttachIs
<1>. HIDE DEF t3
<1>8. Attached(t4, t3, p, w, y)
  <2>1. t3 \in AnyTree
    BY <1>7 DEF Attached
  <2>. QED BY <1>0, <1>4, <1>5, <2>1, AttachIs
<1>. HIDE DEF t4
<1>9. Attached(t5, t4, Q, v, Tmp)
  <2>1. t4 \in AnyTree
    BY <1>8 DEF Attached
  <2>. QED BY <1>0, <1>4, <1>5, <2>1, AttachIs
<1>. HIDE DEF t5
<1>10. Attached(t6, t5, Tmp, c, b)
  <2>1. t5 \in AnyTree
    BY <1>9 DEF Attached
  <2>. QED BY <1>0, <1>4, <1>5, <2>1, AttachIs
<1>. HIDE DEF t6
<1>11. t6 \in AnyTree /\ t6.num = t.num /\ t6.root = IF p = Null THEN y ELSE t.root
  <2>1. t6 \in AnyTree /\ t6.num = t.num
    BY <1>2, <1>6, <1>7, <1>8, <1>9, <1>10 DEF Attached
  <2>2. /\ t2.root = (IF y = Null THEN L ELSE t1.root)
        /\ t3.root = (IF y = Null THEN cr ELSE t2.root)
        /\ t4.root = (IF p = Null THEN y ELSE t3.root)
        /\ t5.root = (IF Q = Null THEN Tmp ELSE t4.root)
        /\ t6.root = (IF Tmp = Null THEN b ELSE t5.root)
    BY <1>6, <1>7, <1>8, <1>9, <1>10 DEF Attached
  <2>3. y # Null /\ Tmp # Null /\ Q # Null
    BY <1>0, <1>4 DEF Q
  <2>. QED BY <2>1, <2>2, <2>3, <1>2
<1>12. ASSUME NEW z \in NodeIds \ {x}
       PROVE  Parent(t6, z) = IF z = b THEN Tmp
                              ELSE IF z = Tmp THEN IF q = x THEN y ELSE q
                              ELSE IF z = y THEN p
                              ELSE IF z \in {cl, cr} THEN y
                              ELSE Parent(t, z)
  <2>1. /\ Parent(t2, z) = IF z = L THEN y ELSE Parent(t1, z)
        /\ Parent(t3, z) = IF z = cr THEN y ELSE Parent(t2, z)
        /\ Parent(t4, z) = IF z = y THEN p ELSE Parent(t3, z)
        /\ Parent(t5, z) = IF z = Tmp THEN Q ELSE Parent(t4, z)
        /\ Parent(t6, z) = IF z = b THEN Tmp ELSE Parent(t5, z)
    BY <1>6, <1>7, <1>8, <1>9, <1>10 DEF Attached
  <2>. QED BY <2>1, <1>0, <1>3, <1>4 DEF L, Q
<1>13. ASSUME NEW z \in NodeIds \ {x}
       PROVE  Which(t6, z) = IF z = Tmp THEN v ELSE IF z = y THEN w ELSE Which(t, z)
  <2>1. /\ Which(t2, z) = IF z = L THEN l ELSE Which(t1, z)
        /\ Which(t3, z) = IF z = cr THEN 1 - l ELSE Which(t2, z)
        /\ Which(t4, z) = IF z = y THEN w ELSE Which(t3, z)
        /\ Which(t5, z) = IF z = Tmp THEN v ELSE Which(t4, z)
        /\ Which(t6, z) = IF z = b THEN c ELSE Which(t5, z)
    BY <1>6, <1>7, <1>8, <1>9, <1>10 DEF Attached
  <2>. QED BY <2>1, <1>0, <1>3, <1>4 DEF L
<1>14. ASSUME NEW z \in NodeIds \ {x}
       PROVE  Bal(t6, z) = IF z = Tmp THEN Bal(t, y) ELSE IF z = y THEN Bal(t, x) ELSE Bal(t, z)
  <2>1. Bal(t6, z) = Bal(t1, z)
    BY <1>6, <1>7, <1>8, <1>9, <1>10 DEF Attached
  <2>. QED BY <2>1, <1>0, <1>3, <1>4
<1>15. ASSUME NEW z \in NodeIds \ {x}, NEW d \in {0, 1}
       PROVE  Child(t6, z, d) = IF z = Tmp THEN Child(t, y, d)
                                ELSE IF z = y THEN IF d = l /\ q = x THEN Tmp ELSE Child(t, x, d)
                                ELSE IF z = p /\ d = w THEN y
                                ELSE IF z = q /\ d = v THEN Tmp
                                ELSE Child(t, z, d)
  <2>1. /\ Child(t2, z, d) = IF z = y /\ d = l THEN L ELSE Child(t1, z, d)
        /\ Child(t3, z, d) = IF z = y /\ d = 1 - l THEN cr ELSE Child(t2, z, d)
        /\ Child(t4, z, d) = IF z = p /\ d = w THEN y ELSE Child(t3, z, d)
        /\ Child(t5, z, d) = IF z = Q /\ d = v THEN Tmp ELSE Child(t4, z, d)
        /\ Child(t6, z, d) = IF z = Tmp /\ d = c THEN b ELSE Child(t5, z, d)
    BY <1>6, <1>7, <1>8, <1>9, <1>10 DEF Attached
  <2>2. Child(t1, z, d) = IF z = y THEN Child(t, x, d) ELSE IF z = Tmp THEN Child(t, y, d) ELSE Child(t, z, d)
    BY <1>3
  <2>3. CASE z = Tmp
    <3>1. d = c => b = Child(t, y, d)
      BY DEF b
    <3>2. z # y /\ z # p /\ z # Q
      BY <2>3, <1>0, <1>4 DEF Q
    <3>. QED BY <2>1, <2>2, <2>3, <3>1, <3>2
  <2>4. CASE z = y
    <3>1. (d = l => cl = Child(t, x, d)) /\ (d = 1 - l => cr = Child(t, x, d))
      BY DEF cl, cr
    <3>2. z # p /\ z # q /\ z # Tmp
      BY <2>4, <1>0, <1>4
    <3>3. d = l \/ d = 1 - l
      BY <1>0, TwoSides
    <3>4. Child(t3, z, d) = IF d = l /\ q = x THEN Tmp ELSE Child(t, x, d)
      BY <2>1, <2>2, <2>4, <3>1, <3>3, <1>4 DEF L
    <3>5. Child(t6, z, d) = IF z = Q /\ d = v THEN Tmp ELSE Child(t3, z, d)
      BY <2>1, <2>4, <3>2
    <3>6. z = Q <=> q = x
      BY <2>4, <3>2, <1>4 DEF Q
    <3>. QED BY <2>4, <3>2, <3>4, <3>5, <3>6, <1>4
  <2>5. CASE z # Tmp /\ z # y
    <3>1. z = Q <=> z = q /\ q # x
      BY <2>5, <1>4 DEF Q
    <3>2. Child(t3, z, d) = Child(t, z, d)
      BY <2>1, <2>2, <2>5
    <3>3. ~ (z = p /\ z = q)
      BY <1>4
    <3>. QED BY <2>1, <2>5, <3>1, <3>2, <3>3
  <2>. QED BY <2>3, <2>4, <2>5
<1>16. SwapLinked(t6, t, x, l, y, c)
  BY <1>11, <1>12, <1>13, <1>14, <1>15 DEF SwapLinked, p, q, v, w, cl, cr, b
<1>. QED BY <1>1, <1>16
\* A node with two children and its neighbour change places.
LEMMA SwapRenames ==
  ASSUME NEW u, NEW t, NEW H, NEW x, NEW l, NEW y, NEW c, Neighbours(t, H, x, l, y, c),
         SwapLinked(u, t, x, l, y, c)
  PROVE  Renames(u, t, (H \ {x}) \cup {Tmp}, H,
                 [z \in Slots |-> IF z = y THEN x ELSE IF z = Tmp THEN y ELSE z],
                 [z \in Slots |-> IF z = x THEN y ELSE IF z = y THEN Tmp ELSE z])
<1> DEFINE G == (H \ {x}) \cup {Tmp}
           f == [z \in Slots |-> IF z = y THEN x ELSE IF z = Tmp THEN y ELSE z]
           g == [z \in Slots |-> IF z = x THEN y ELSE IF z = y THEN Tmp ELSE z]
           p == Parent(t, x)
           w == Which(t, x)
           q == Parent(t, y)
           v == Which(t, y)
           cl == Child(t, x, l)
           cr == Child(t, x, 1 - l)
           b == Child(t, y, c)
<1>0. /\ t \in AnyTree /\ H \subseteq NodeIds /\ x \in NodeIds /\ y \in NodeIds /\ Tmp \in NodeIds /\ Tmp \notin H
      /\ NodeIds \subseteq Slots /\ Null \in Slots /\ Null \notin NodeIds /\ 1 - l \in {0, 1} /\ l \in {0, 1} /\ c \in {0, 1}
      /\ l # 1 - l
  BY Names DEF Neighbours
<1>1. /\ x \in H /\ y \in H /\ x # y /\ t.root \in H
      /\ p \in (H \ {x, y}) \cup {Null} /\ (p = Null <=> x = t.root) /\ t.root # y
      /\ q \in H \ {y} /\ q # p /\ (q = x <=> cl = y) /\ (q = x => v = l)
      /\ cl \in H \ {x} /\ cr \in H \ {x, y} /\ cl # cr
      /\ \A d \in {0, 1} : Child(t, y, d) \in (H \ {x, y, Child(t, x, 0), Child(t, x, 1)}) \cup {Null}
      /\ \A z \in H : /\ Parent(t, z) \in H \cup {Null}
                      /\ Parent(t, z) = x <=> z \in {cl, cr}
                      /\ Parent(t, z) = y <=> z = b
      /\ \A z \in H : \A d \in {0, 1} : /\ Child(t, z, d) \in H \cup {Null}
                                        /\ Child(t, z, d) = x <=> p = z /\ w = d
                                        /\ Child(t, z, d) = y <=> q = z /\ v = d
  BY DEF Neighbours
<1>2. b \notin {cl, cr, x, y}
  <2>1. {Child(t, x, 0), Child(t, x, 1)} = {cl, cr}
    BY <1>0
  <2>2. b \in (H \ {x, y, Child(t, x, 0), Child(t, x, 1)}) \cup {Null}
    BY <1>0, <1>1
  <2>. HIDE DEF b, cl, cr
  <2>. QED BY <2>1, <2>2, <1>0, <1>1
<1>3. u \in AnyTree /\ u.root = IF p = Null THEN y ELSE t.root
  BY DEF SwapLinked
<1>4. \A z \in NodeIds \ {x} :
       /\ Parent(u, z) = IF z = b THEN Tmp
                         ELSE IF z = Tmp THEN IF q = x THEN y ELSE q
                         ELSE IF z = y THEN p
                         ELSE IF z \in {cl, cr} THEN y
                         ELSE Parent(t, z)
       /\ Which(u, z) = IF z = Tmp THEN v ELSE IF z = y THEN w ELSE Which(t, z)
       /\ Bal(u, z) = IF z = Tmp THEN Bal(t, y) ELSE IF z = y THEN Bal(t, x) ELSE Bal(t, z)
       /\ \A d \in {0, 1} :
            Child(u, z, d) = IF z = Tmp THEN Child(t, y, d)
                             ELSE IF z = y THEN IF d = l /\ q = x THEN Tmp ELSE Child(t, x, d)
                             ELSE IF z = p /\ d = w THEN y
                             ELSE IF z = q /\ d = v THEN Tmp
                             ELSE Child(t, z, d)
  BY DEF SwapLinked
<1>5. f[Null] = Null /\ g[Null] = Null
  BY <1>0
<1>6. f[y] = x /\ f[Tmp] = y /\ \A z \in H \ {x, y} : f[z] = z
  BY <1>0, <1>1
<1>7. g[x] = y /\ g[y] = Tmp /\ \A z \in (H \ {x, y}) \cup {Null} : g[z] = z
  BY <1>0, <1>1
<1>. HIDE DEF f, g, p, q, v, w, cl, cr, b
<1>8. \A z \in G : z = y \/ z = Tmp \/ z \in H \ {x, y}
  OBVIOUS
<1>9. ASSUME NEW z \in G PROVE f[z] \in H /\ g[f[z]] = z
  BY <1>1, <1>6, <1>7, <1>8
<1>10. ASSUME NEW z \in H PROVE g[z] \in G /\ f[g[z]] = z
  BY <1>0, <1>1, <1>6, <1>7
<1>11. u.root = g[t.root]
  BY <1>1, <1>3, <1>7
<1>12. ASSUME NEW z \in G
       PROVE  Parent(u, z) = g[Parent(t, f[z])] /\ Which(u, z) = Which(t, f[z]) /\ Bal(u, z) = Bal(t, f[z])
  <2>1. z \in NodeIds \ {x}
    BY <1>0, <1>1
  <2>2. Parent(t, x) = p /\ Parent(t, y) = q /\ Which(t, x) = w /\ Which(t, y) = v
    BY DEF p, q, w, v
  <2>3. CASE z = y
    <3>1. f[z] = x /\ z # b /\ z # Tmp
      BY <2>3, <1>0, <1>1, <1>2, <1>6
    <3>2. g[p] = p
      BY <1>1, <1>7
    <3>. QED BY <2>1, <2>2, <2>3, <3>1, <3>2, <1>4
  <2>4. CASE z = Tmp
    <3>1. f[z] = y /\ z # b /\ z # y
      <4>1. b \in H \cup {Null}
        BY <1>0, <1>1 DEF b
      <4>. QED BY <4>1, <2>4, <1>0, <1>1, <1>6
    <3>2. g[q] = IF q = x THEN y ELSE q
      BY <1>1, <1>7
    <3>. QED BY <2>1, <2>2, <2>4, <3>1, <3>2, <1>4
  <2>5. CASE z \in H \ {x, y}
    <3>1. f[z] = z /\ z # Tmp
      BY <2>5, <1>0, <1>6
    <3>2. /\ Parent(t, z) \in H \cup {Null}
          /\ Parent(t, z) = x <=> z \in {cl, cr}
          /\ Parent(t, z) = y <=> z = b
      BY <2>5, <1>1
    <3>3. Parent(u, z) = IF z = b THEN Tmp ELSE IF z \in {cl, cr} THEN y ELSE Parent(t, z)
      BY <2>1, <2>5, <3>1, <1>4
    <3>4. Which(u, z) = Which(t, z) /\ Bal(u, z) = Bal(t, z)
      BY <2>1, <2>5, <3>1, <1>4
    <3>5. Parent(u, z) = g[Parent(t, z)]
      BY <3>2, <3>3, <1>1, <1>2, <1>7
    <3>. QED BY <3>1, <3>4, <3>5
  <2>. QED BY <2>3, <2>4, <2>5, <1>8
<1>13. ASSUME NEW z \in G, NEW d \in {0, 1} PROVE Child(u, z, d) = g[Child(t, f[z], d)]
  <2>1. z \in NodeIds \ {x}
    BY <1>0, <1>1
  <2>2. CASE z = y
    <3>1. f[z] = x /\ z # Tmp
      BY <2>2, <1>0, <1>1, <1>6
    <3>2. Child(u, z, d) = IF d = l /\ q = x THEN Tmp ELSE Child(t, x, d)
      BY <2>1, <2>2, <3>1, <1>4
    <3>3. CASE d = l
      <4>1. Child(t, x, d) = cl
        BY <3>3 DEF cl
      <4>. QED BY <3>1, <3>2, <3>3, <4>1, <1>1, <1>7
    <3>4. CASE d # l
      <4>1. Child(t, x, d) = cr
        <5>1. d = 1 - l
          BY <3>4, <1>0, TwoSides
        <5>. QED BY <5>1 DEF cr
      <4>. QED BY <3>1, <3>2, <3>4, <4>1, <1>1, <1>7
    <3>. QED BY <3>3, <3>4
  <2>3. CASE z = Tmp
    <3>1. f[z] = y /\ Child(u, z, d) = Child(t, y, d)
      BY <2>1, <2>3, <1>4, <1>6
    <3>2. Child(t, y, d) \in (H \ {x, y}) \cup {Null}
      BY <1>1
    <3>. QED BY <3>1, <3>2, <1>7
  <2>4. CASE z \in H \ {x, y}
    <3>1. f[z] = z /\ z # Tmp
      BY <2>4, <1>0, <1>6
    <3>2. Child(u, z, d) = IF z = p /\ d = w THEN y ELSE IF z = q /\ d = v THEN Tmp ELSE Child(t, z, d)
      BY <2>1, <2>4, <3>1, <1>4
    <3>3. /\ Child(t, z, d) \in H \cup {Null}
          /\ Child(t, z, d) = x <=> p = z /\ w = d
          /\ Child(t, z, d) = y <=> q = z /\ v = d
      BY <2>4, <1>1
    <3>. QED BY <3>1, <3>2, <3>3, <1>1, <1>7
  <2>. QED BY <2>2, <2>3, <2>4, <1>8
<1>14. G \subseteq NodeIds
  BY <1>0
<1>15. Renames(u, t, G, H, f, g)
  BY <1>3, <1>5, <1>9, <1>10, <1>11, <1>12, <1>13, <1>14 DEF Renames
<1>. QED BY <1>15 DEF f, g
\* In rk2 the neighbour y of x has the rank of x.
TakesRank(H, rk, rk2, x, l, y) ==
  /\ H \in SUBSET NodeIds /\ rk \in [NodeIds -> Int] /\ rk2 \in [NodeIds -> Int] /\ x \in H /\ y \in H
  /\ l \in {0, 1} /\ Neighbour(H, rk, x, l, y) /\ rk2[y] = rk[x] /\ \A z \in H \ {x, y} : rk2[z] = rk[z]

\* This keeps the order of the nodes other than x.
LEMMA InPlace ==
  ASSUME NEW H, NEW rk, NEW rk2, NEW x, NEW y, NEW l, TakesRank(H, rk, rk2, x, l, y),
         NEW u \in H \ {x}, NEW v \in H \ {x}, NEW d \in {0, 1}, Side(rk2, u, v, d)
  PROVE  Side(rk, u, v, d)
<1>. /\ H \in SUBSET NodeIds /\ rk \in [NodeIds -> Int] /\ rk2 \in [NodeIds -> Int] /\ x \in H /\ y \in H
     /\ l \in {0, 1} /\ Neighbour(H, rk, x, l, y) /\ rk2[y] = rk[x] /\ \A z \in H \ {x, y} : rk2[z] = rk[z]
  BY DEF TakesRank
<1>0. /\ 1 - l \in {0, 1} /\ 1 - d \in {0, 1} /\ x \in NodeIds /\ y \in NodeIds /\ u \in NodeIds /\ v \in NodeIds
      /\ y # Null /\ Side(rk, y, x, l)
      /\ \A z \in H \ {x, y} : Side(rk, z, x, 1 - l) \/ Side(rk, z, y, l)
  BY Names DEF Neighbour
<1>1. ASSUME NEW z \in H \ {x, y}, NEW e \in {0, 1}, Side(rk, x, z, e) PROVE Side(rk, y, z, e)
  <2>1. z \in NodeIds /\ (e = l \/ e = 1 - l) /\ 1 - e \in {0, 1}
    BY TwoSides
  <2>2. CASE Side(rk, z, x, 1 - l)
    <3>1. Side(rk, x, z, l) /\ ~Side(rk, x, z, 1 - l)
      BY <2>1, <2>2, <1>0, SideIs
    <3>2. e = l
      BY <3>1, <2>1, <1>1
    <3>. QED BY <3>1, <3>2, <2>1, <1>0, SideIs
  <2>3. CASE Side(rk, z, y, l)
    <3>1. Side(rk, z, x, l)
      BY <2>1, <2>3, <1>0, SideIs
    <3>2. ~Side(rk, x, z, l) /\ Side(rk, y, z, 1 - l)
      BY <3>1, <2>1, <2>3, <1>0, SideIs
    <3>3. e = 1 - l
      BY <3>2, <2>1, <1>1
    <3>. QED BY <3>2, <3>3
  <2>. QED BY <2>2, <2>3, <1>0
<1>2. CASE u = y /\ v = y
  BY <1>2, <1>0, SideIs
<1>3. CASE u = y /\ v # y
  <2>1. Side(rk, x, v, d)
    BY <1>3 DEF Side
  <2>. QED BY <2>1, <1>1, <1>3
<1>4. CASE u # y /\ v = y
  <2>1. Side(rk, u, x, d)
    BY <1>4 DEF Side
  <2>2. Side(rk, x, u, 1 - d)
    BY <2>1, <1>0, SideIs
  <2>3. Side(rk, y, u, 1 - d)
    BY <2>2, <1>0, <1>1, <1>4
  <2>. QED BY <2>3, <1>0, <1>4, SideIs
<1>5. CASE u # y /\ v # y
  BY <1>5 DEF Side
<1>. QED BY <1>2, <1>3, <1>4, <1>5

\* The fields of a node that left the tree, and those of the placeholder, are reset.
LEMMA ResetIs ==
  ASSUME NEW t, NEW H, NEW sub, NEW ht, NEW rk, Tree(t, H, sub, ht, rk), NEW x \in NodeIds, x \notin H, Tmp \notin H
  PROVE  /\ Tree([t EXCEPT !.node[x] = Fresh, !.node[Tmp] = Fresh], H, sub, ht, rk)
         /\ [t EXCEPT !.node[x] = Fresh, !.node[Tmp] = Fresh].num = t.num
<1> DEFINE n == t.num
           r1 == [root |-> t.root, num |-> n, node |-> [t.node EXCEPT ![x] = Fresh]]
           r2 == [root |-> r1.root, num |-> n, node |-> [r1.node EXCEPT ![Tmp] = Fresh]]
<1>0. t \in AnyTree /\ Tmp \in NodeIds /\ n \in Int /\ H \subseteq NodeIds
      /\ t = [root |-> t.root, num |-> t.num, node |-> t.node]
  BY Names DEF Tree, Shape, Linked, AnyTree
<1>1. [t EXCEPT !.node[x] = Fresh, !.node[Tmp] = Fresh] = r2
  <2> DEFINE s == [t EXCEPT !.node[x] = Fresh]
  <2>1. s = r1
    BY <1>0
  <2>2. [t EXCEPT !.node[x] = Fresh, !.node[Tmp] = Fresh] = [s EXCEPT !.node[Tmp] = Fresh]
    BY <1>0
  <2>3. r1 = [root |-> r1.root, num |-> n, node |-> r1.node]
    OBVIOUS
  <2>. HIDE DEF s, r1
  <2>4. [r1 EXCEPT !.node[Tmp] = Fresh] = r2
    BY <2>3
  <2>. QED BY <2>1, <2>2, <2>4
<1>2. Freshened(r1, t, x, n)
  <2>. HIDE DEF n
  <2>. QED BY <1>0, FreshIs
<1>. HIDE DEF r1, n
<1>3. Freshened(r2, r1, Tmp, n)
  <2>1. r1 \in AnyTree
    BY <1>2 DEF Freshened
  <2>. QED BY <1>0, <2>1, FreshIs
<1>. HIDE DEF r2
<1>4. /\ r2 \in AnyTree /\ r2.root = t.root /\ r2.num = n
      /\ \A y \in H : Parent(r2, y) = Parent(t, y) /\ Which(r2, y) = Which(t, y) /\ Bal(r2, y) = Bal(t, y)
      /\ \A y \in H : \A d \in {0, 1} : Child(r2, y, d) = Child(t, y, d)
  BY <1>0, <1>2, <1>3 DEF Freshened
<1>5. Tree(r2, H, sub, ht, rk)
  BY <1>4, SameTree
<1>. QED BY <1>1, <1>4, <1>5 DEF n

\* A node with two children is removed by way of its neighbour.
LEMMA SwapCut ==
  ASSUME NEW t, NEW H, NEW sub, NEW ht, NEW rk, Tree(t, H, sub, ht, rk), H \subseteq AvlKeys, NEW x \in H,
         Child(t, x, 0) # Null, Child(t, x, 1) # Null
  PROVE  /\ \E sub2, ht2 : Tree(CutOut(Swapped(t, x), Tmp), H \ {x}, sub2, ht2, rk)
         /\ CutOut(Swapped(t, x), Tmp).num = t.num - 1
<1> DEFINE l == balance2child(Bal(t, x))
           cl == Child(t, x, l)
           y == Outermost(t, cl, 1 - l)
           c == IF Child(t, y, 1) # Null THEN 1 ELSE 0
           u == Swapped(t, x)
           G == (H \ {x}) \cup {Tmp}
           f == [z \in Slots |-> IF z = y THEN x ELSE IF z = Tmp THEN y ELSE z]
           g == [z \in Slots |-> IF z = x THEN y ELSE IF z = y THEN Tmp ELSE z]
           rk2 == [z \in NodeIds |-> IF z = y THEN rk[x] ELSE IF z = Tmp THEN rk[y] ELSE rk[z]]
<1>0. /\ t \in AnyTree /\ H \subseteq NodeIds /\ Shape(t, H, sub, rk) /\ rk \in [NodeIds -> Int] /\ x \in NodeIds
      /\ Tmp \in NodeIds /\ Tmp \notin H /\ Tmp \notin AvlKeys /\ NodeIds \subseteq Slots
  BY Names DEF Tree, Shape, Linked, Ordered
<1>1. l \in {0, 1} /\ 1 - l \in {0, 1} /\ 1 - (1 - l) = l /\ c \in {0, 1}
  BY DEF balance2child
<1>2. l = balance2child(Bal(t, x)) /\ y = Outermost(t, Child(t, x, l), 1 - l)
      /\ c = (IF Child(t, y, 1) # Null THEN 1 ELSE 0)
  OBVIOUS
<1>. HIDE DEF l
<1>3. cl \in H /\ cl # Null /\ sub[cl] \subseteq H
  <2>1. cl # Null
    <3>1. \A e \in {0, 1} : Child(t, x, e) # Null
      OBVIOUS
    <3>. QED BY <3>1, <1>1
  <2>2. cl \in H
    BY <2>1, <1>0, <1>1, Sides
  <2>. HIDE DEF cl
  <2>. QED BY <2>1, <2>2, <1>0, Sides
<1>4. Outer(t, sub, rk, cl, 1 - l, y)
  <2>. HIDE DEF cl
  <2>. QED BY <1>0, <1>1, <1>3, OuterIs
<1>5. y \in sub[cl] /\ Child(t, y, 1 - l) = Null /\ y \in H
  <2>. HIDE DEF cl, y
  <2>. QED BY <1>3, <1>4 DEF Outer
<1>6. Neighbour(H, rk, x, l, y)
  <2>1. y = avl_walk(t, x, l)
    BY <1>3 DEF avl_walk
  <2>. HIDE DEF y
  <2>. QED BY <2>1, <1>0, <1>1, WalkIs
<1>. HIDE DEF y
<1>7. Child(t, y, 1 - c) = Null
  <2>1. l = 0 \/ l = 1
    BY <1>1
  <2>. QED BY <2>1, <1>5
<1>. HIDE DEF c
<1>8. Neighbours(t, H, x, l, y, c)
  BY <1>0, <1>1, <1>5, <1>7, NeighboursAre
<1>. HIDE DEF cl
<1>9. SwapLinked(u, t, x, l, y, c)
  BY <1>2, <1>8, SwapIs
<1>. HIDE DEF u
<1>10. Renames(u, t, G, H, f, g)
  BY <1>8, <1>9, SwapRenames
<1>11. y \in NodeIds /\ x # y /\ y # Tmp
  BY <1>0, <1>5, <1>8 DEF Neighbours
<1>12. rk2 \in [NodeIds -> Int] /\ rk2[y] = rk[x] /\ rk2[Tmp] = rk[y] /\ \A z \in NodeIds \ {y, Tmp} : rk2[z] = rk[z]
  <2>1. \A z \in NodeIds : rk[z] \in Int
    BY <1>0
  <2>2. rk2 \in [NodeIds -> Int]
    BY <2>1, <1>0, <1>11
  <2>. QED BY <2>2, <1>0, <1>11
<1>. HIDE DEF rk2
<1>13. \A z \in G : rk2[z] = rk[f[z]]
  <2>1. f[y] = x /\ f[Tmp] = y /\ \A z \in H \ {x, y} : f[z] = z
    BY <1>0, <1>11
  <2>. HIDE DEF f
  <2>. QED BY <2>1, <1>0, <1>12
<1>. HIDE DEF f, g
<1>14. PICK sub3, ht3 : Tree(u, G, sub3, ht3, rk2)
  <2>. HIDE DEF G
  <2>. QED BY <1>10, <1>12, <1>13, RenamedTree
<1>15. Child(u, Tmp, 0) = Null \/ Child(u, Tmp, 1) = Null
  <2>1. \A d \in {0, 1} : Child(u, Tmp, d) = Child(t, y, d)
    BY <1>0, <1>9 DEF SwapLinked
  <2>. QED BY <2>1, <1>1, <1>5
<1>16. /\ \E sub4, ht4 : Tree(CutOut(u, Tmp), G \ {Tmp}, sub4, ht4, rk2)
       /\ CutOut(u, Tmp).num = u.num - 1
  <2>1. Tmp \in G
    OBVIOUS
  <2>. HIDE DEF G
  <2>. QED BY <1>14, <1>15, <2>1, CutOutIs
<1>17. G \ {Tmp} = H \ {x}
  BY <1>0
<1>18. PICK sub4, ht4 : Tree(CutOut(u, Tmp), H \ {x}, sub4, ht4, rk2)
  BY <1>16, <1>17
<1>19. \A a, b \in H \ {x} : \A d \in {0, 1} : Side(rk2, a, b, d) => Side(rk, a, b, d)
  <2>1. \A z \in H \ {x, y} : rk2[z] = rk[z]
    BY <1>0, <1>12
  <2>2. rk2[y] = rk[x] /\ rk2 \in [NodeIds -> Int] /\ H \in SUBSET NodeIds
    BY <1>0, <1>12
  <2>3. ASSUME NEW a \in H \ {x}, NEW b \in H \ {x}, NEW d \in {0, 1}, Side(rk2, a, b, d) PROVE Side(rk, a, b, d)
    <3>1. TakesRank(H, rk, rk2, x, l, y)
      BY <2>1, <2>2, <1>0, <1>1, <1>5, <1>6 DEF TakesRank
    <3>. QED BY <2>3, <3>1, InPlace
  <2>. QED BY <2>3
<1>20. Tree(CutOut(u, Tmp), H \ {x}, sub4, ht4, rk)
  BY <1>0, <1>18, <1>19, Reorder
<1>21. u.num = t.num
  BY <1>9 DEF SwapLinked
<1>. QED BY <1>16, <1>20, <1>21 DEF u

\* avl_remove.
LEMMA RemoveIs ==
  ASSUME NEW t, NEW H, NEW sub, NEW ht, NEW rk, Tree(t, H, sub, ht, rk), H \subseteq AvlKeys, NEW x \in H
  PROVE  /\ \E sub2, ht2 : Tree(avl_remove(t, x), H \ {x}, sub2, ht2, rk)
         /\ avl_remove(t, x).num = t.num - 1
<1> DEFINE done == IF Child(t, x, 0) # Null /\ Child(t, x, 1) # Null
                   THEN CutOut(Swapped(t, x), Tmp)
                   ELSE CutOut(t, x)
<1>1. avl_remove(t, x) = [done EXCEPT !.node[x] = Fresh, !.node[Tmp] = Fresh]
  BY DEF avl_remove
<1>2. /\ \E sub2, ht2 : Tree(done, H \ {x}, sub2, ht2, rk)
      /\ done.num = t.num - 1
  BY SwapCut, CutOutIs
<1>3. x \in NodeIds /\ Tmp \notin H
  BY Names
<1>4. PICK sub2, ht2 : Tree(done, H \ {x}, sub2, ht2, rk)
  BY <1>2
<1>. HIDE DEF done
<1>5. /\ Tree(avl_remove(t, x), H \ {x}, sub2, ht2, rk)
      /\ avl_remove(t, x).num = done.num
  <2>1. x \notin H \ {x} /\ Tmp \notin H \ {x}
    BY <1>3
  <2> DEFINE G == H \ {x}
  <2>2. Tree(done, G, sub2, ht2, rk) /\ x \notin G /\ Tmp \notin G
    BY <1>4, <2>1
  <2>. HIDE DEF G
  <2>3. /\ Tree([done EXCEPT !.node[x] = Fresh, !.node[Tmp] = Fresh], G, sub2, ht2, rk)
        /\ [done EXCEPT !.node[x] = Fresh, !.node[Tmp] = Fresh].num = done.num
    BY <1>3, <2>2, ResetIs
  <2>. QED BY <1>1, <2>3 DEF G
<1>. QED BY <1>2, <1>5
-----------------------------------------------------------------------------
(***************************************************************************)
(* Keys that change.                                                       *)
(***************************************************************************)
\* Renamed gives the node k the name n.
LEMMA RenamedRenames ==
  ASSUME NEW t, NEW H, NEW sub, NEW rk, Shape(t, H, sub, rk), NEW k \in H, NEW n \in NodeIds \ H
  PROVE  /\ Renames(Renamed(t, k, n), t, (H \ {k}) \cup {n}, H,
                    [z \in Slots |-> IF z = n THEN k ELSE z], [z \in Slots |-> IF z = k THEN n ELSE z])
         /\ Renamed(t, k, n).num = t.num
<1> DEFINE G == (H \ {k}) \cup {n}
           f == [z \in Slots |-> IF z = n THEN k ELSE z]
           g == [z \in Slots |-> IF z = k THEN n ELSE z]
           to(x) == IF x = k THEN n ELSE x
           at(x) == IF x = n THEN k ELSE x
           new(x) == IF x = k THEN Fresh
                     ELSE [child  |-> [c \in 1 .. 2 |-> to(t.node[at(x)].child[c])],
                           parent |-> to(t.node[at(x)].parent),
                           which  |-> t.node[at(x)].which,
                           bal    |-> t.node[at(x)].bal]
           u == Renamed(t, k, n)
<1>0. /\ t \in AnyTree /\ H \subseteq NodeIds /\ Null \notin NodeIds /\ NodeIds \subseteq Slots /\ Null \in Slots
      /\ t = [root |-> t.root, num |-> t.num, node |-> t.node]
      /\ t.root \in H \cup {Null} /\ t.num \in Int /\ t.node \in [NodeIds -> AnyNode] /\ t.root \in Slots
      /\ \A y \in H : Parent(t, y) \in H \cup {Null}
      /\ \A x \in H : \A d \in {0, 1} : Child(t, x, d) \in H \cup {Null}
  BY Names DEF Shape, Linked, AnyTree
<1>1. u = [root |-> to(t.root), num |-> t.num, node |-> [x \in NodeIds |-> new(x)]]
  <2>1. u = [t EXCEPT !.root = to(@), !.node = [x \in NodeIds |-> new(x)]]
    BY DEF Renamed
  <2> DEFINE nodes == [x \in NodeIds |-> new(x)]
  <2>. HIDE DEF nodes, to
  <2> DEFINE r == [t EXCEPT !.root = to(@)]
  <2>2. r = [root |-> to(t.root), num |-> t.num, node |-> t.node]
    BY <1>0
  <2>3. [t EXCEPT !.root = to(@), !.node = nodes] = [r EXCEPT !.node = nodes]
    BY <1>0
  <2>. HIDE DEF r
  <2>4. [r EXCEPT !.node = nodes] = [root |-> to(t.root), num |-> t.num, node |-> nodes]
    BY <2>2
  <2>. QED BY <2>1, <2>3, <2>4 DEF nodes
<1>. HIDE DEF u
<1>2. \A z \in Slots : to(z) \in Slots /\ to(z) = g[z]
  BY <1>0
<1>3. \A z \in NodeIds : at(z) \in NodeIds
  BY <1>0
<1>4. ASSUME NEW x \in NodeIds PROVE new(x) \in AnyNode
  <2>1. CASE x = k
    <3>1. <<Null, Null>> \in [1 .. 2 -> Slots]
      BY <1>0
    <3>. QED BY <2>1, <3>1, <1>0 DEF Fresh, AnyNode
  <2>2. CASE x # k
    <3> DEFINE o == t.node[at(x)]
    <3>1. o \in AnyNode
      BY <1>0, <1>3
    <3>. HIDE DEF o, to
    <3>2. /\ o.child \in [1 .. 2 -> Slots] /\ o.parent \in Slots /\ o.which \in {0, 1} /\ o.bal \in Int
      BY <3>1 DEF AnyNode
    <3>3. [c \in 1 .. 2 |-> to(o.child[c])] \in [1 .. 2 -> Slots]
      BY <3>2, <1>2
    <3>4. to(o.parent) \in Slots
      BY <3>2, <1>2
    <3>5. new(x) = [child |-> [c \in 1 .. 2 |-> to(o.child[c])], parent |-> to(o.parent),
                    which |-> o.which, bal |-> o.bal]
      BY <2>2 DEF o
    <3>. HIDE DEF new
    <3>. QED BY <3>2, <3>3, <3>4, <3>5 DEF AnyNode
  <2>. QED BY <2>1, <2>2
<1>5. u \in AnyTree
  <2>. HIDE DEF new
  <2>1. [x \in NodeIds |-> new(x)] \in [NodeIds -> AnyNode]
    BY <1>4
  <2>2. to(t.root) \in Slots
    BY <1>0, <1>2
  <2>. HIDE DEF to
  <2>. QED BY <1>0, <1>1, <2>1, <2>2 DEF AnyTree
<1>6. \A x \in NodeIds : u.node[x] = new(x)
  <2>. HIDE DEF new, to
  <2>. QED BY <1>1
<1>7. ASSUME NEW y \in G
      PROVE  /\ Parent(u, y) = g[Parent(t, f[y])] /\ Which(u, y) = Which(t, f[y]) /\ Bal(u, y) = Bal(t, f[y])
             /\ \A d \in {0, 1} : Child(u, y, d) = g[Child(t, f[y], d)]
  <2>1. y \in NodeIds /\ y # k /\ at(y) = f[y] /\ f[y] \in H
    BY <1>0
  <2> DEFINE o == t.node[f[y]]
  <2>2. o \in AnyNode
    BY <2>1, <1>0
  <2>3. u.node[y] = [child |-> [c \in 1 .. 2 |-> to(o.child[c])], parent |-> to(o.parent),
                     which |-> o.which, bal |-> o.bal]
    BY <2>1, <1>6
  <2>4. /\ Parent(t, f[y]) = o.parent /\ Which(t, f[y]) = o.which /\ Bal(t, f[y]) = o.bal
        /\ \A d \in {0, 1} : Child(t, f[y], d) = o.child[d + 1]
    BY DEF Parent, Which, Bal, Child
  <2>. HIDE DEF o, to, f, g
  <2>5. /\ Parent(u, y) = to(o.parent) /\ Which(u, y) = o.which /\ Bal(u, y) = o.bal
        /\ \A d \in {0, 1} : Child(u, y, d) = to(o.child[d + 1])
    BY <2>3 DEF Parent, Which, Bal, Child
  <2>6. o.parent \in Slots /\ \A d \in {0, 1} : o.child[d + 1] \in Slots
    BY <2>2 DEF AnyNode
  <2>. QED BY <2>4, <2>5, <2>6, <1>2
<1>8. u.root = g[t.root] /\ u.num = t.num
  <2>. HIDE DEF to, new, g
  <2>. QED BY <1>0, <1>1, <1>2
<1>9. f[Null] = Null /\ g[Null] = Null
  BY <1>0
<1>10. \A y \in G : f[y] \in H /\ g[f[y]] = y
  BY <1>0
<1>11. \A x \in H : g[x] \in G /\ f[g[x]] = x
  BY <1>0
<1>12. G \subseteq NodeIds
  BY <1>0
<1>. HIDE DEF f, g, G
<1>13. Renames(u, t, G, H, f, g)
  BY <1>5, <1>7, <1>8, <1>9, <1>10, <1>11, <1>12 DEF Renames
<1>. QED BY <1>8, <1>13 DEF f, g, G, u

\* n is where the key k was, in a tree of other keys.
Moved(u, G, sub, ht, rk, k, n) ==
  /\ Tree(u, G, sub, ht, rk) /\ G \subseteq AvlKeys /\ n \in G /\ k \in AvlKeys \ G
  /\ rk \in [NodeIds -> Int] /\ rk[n] = k /\ \A z \in G \ {n} : rk[z] = z

\* With a new key in its place a tree is still one, by the ranks of the old keys.
LEMMA RenamedIs ==
  ASSUME NEW t, NEW H, NEW sub, NEW ht, Search(t, H, sub, ht), NEW k \in H, NEW n \in AvlKeys \ H
  PROVE  /\ \E sub2, ht2, rk : Moved(Renamed(t, k, n), (H \ {k}) \cup {n}, sub2, ht2, rk, k, n)
         /\ Renamed(t, k, n).num = t.num
<1> DEFINE u == Renamed(t, k, n)
           G == (H \ {k}) \cup {n}
           f == [z \in Slots |-> IF z = n THEN k ELSE z]
           g == [z \in Slots |-> IF z = k THEN n ELSE z]
           rk == [z \in NodeIds |-> IF z = n THEN k ELSE z]
<1>0. /\ Tree(t, H, sub, ht, Ident) /\ Shape(t, H, sub, Ident) /\ H \subseteq AvlKeys /\ AvlKeys \subseteq NodeIds
      /\ NodeIds \subseteq Slots /\ NodeIds \subseteq Int /\ k # n /\ k \in AvlKeys /\ G \subseteq AvlKeys /\ k \notin G
  BY Names DEF Search, Tree
<1>1. Renames(u, t, G, H, f, g) /\ u.num = t.num
  <2>1. n \in NodeIds \ H
    BY <1>0
  <2>. QED BY <1>0, <2>1, RenamedRenames
<1>2. rk \in [NodeIds -> Int]
  <2>1. \A z \in NodeIds : (IF z = n THEN k ELSE z) \in Int
    BY <1>0
  <2>. QED BY <2>1
<1>3. \A y \in G : rk[y] = Ident[f[y]] /\ (y # n => rk[y] = y)
  BY <1>0 DEF Ident
<1>4. rk[n] = k /\ n \in G
  BY <1>0
<1>. HIDE DEF u, G, f, g, rk
<1>5. PICK sub2, ht2 : Tree(u, G, sub2, ht2, rk)
  <2>1. Tree(t, H, sub, ht, Ident) /\ Renames(u, t, G, H, f, g) /\ \A y \in G : rk[y] = Ident[f[y]]
    BY <1>0, <1>1, <1>3
  <2>. QED BY <2>1, <1>2, RenamedTree
<1>6. Moved(u, G, sub2, ht2, rk, k, n)
  BY <1>0, <1>2, <1>3, <1>4, <1>5 DEF Moved
<1>. QED BY <1>1, <1>6 DEF u, G

\* Not before one neighbour and not behind the other, n is in order.
LEMMA InOrder ==
  ASSUME NEW u, NEW G, NEW sub, NEW ht, NEW rk, NEW k, NEW n, Moved(u, G, sub, ht, rk, k, n),
         ~Before(u, n), ~Behind(u, n)
  PROVE  Search(u, G, sub, ht)
<1> DEFINE z(e) == avl_walk(u, n, e)
<1>0. /\ Tree(u, G, sub, ht, rk) /\ Shape(u, G, sub, rk) /\ G \subseteq AvlKeys /\ n \in G /\ G \subseteq NodeIds
      /\ rk \in [NodeIds -> Int] /\ Ident \in [NodeIds -> Int] /\ AvlKeys \subseteq Nat /\ Null \notin G
      /\ \A y \in G \ {n} : rk[y] = y
      /\ \A y \in G : Ident[y] = y
  BY Names DEF Moved, Tree, Ident
<1>1. ASSUME NEW e \in {0, 1} PROVE Neighbour(G, rk, n, e, z(e)) /\ (z(e) # Null => Side(Ident, z(e), n, e))
  <2>1. Neighbour(G, rk, n, e, z(e))
    BY <1>0, WalkIs
  <2>2. z(e) # Null => Side(Ident, z(e), n, e)
    <3>1. SUFFICES ASSUME z(e) # Null PROVE Side(Ident, z(e), n, e)
      OBVIOUS
    <3>2. z(e) \in G /\ Side(rk, z(e), n, e)
      BY <3>1, <2>1 DEF Neighbour
    <3>3. z(e) \in Nat /\ n \in Nat /\ z(e) # n
      <4>1. z(e) # n
        BY <3>2, <1>0, SideIs
      <4>. QED BY <4>1, <3>2, <1>0
    <3>4. (e = 0 => ~(n < z(0))) /\ (e = 1 => ~(n > z(1)))
      BY <3>1 DEF Before, Behind
    <3>5. Ident[z(e)] = z(e) /\ Ident[n] = n
      BY <3>2, <1>0
    <3>6. CASE e = 0
      <4>1. ~(n < z(e))
        BY <3>4, <3>6
      <4>. HIDE DEF z
      <4>. QED BY <3>3, <3>5, <3>6, <4>1 DEF Side
    <3>7. CASE e = 1
      <4>1. ~(n > z(e))
        BY <3>4, <3>7
      <4>. HIDE DEF z
      <4>. QED BY <3>3, <3>5, <3>7, <4>1 DEF Side
    <3>. QED BY <3>6, <3>7
  <2>. QED BY <2>1, <2>2
<1>. HIDE DEF z
<1>2. ASSUME NEW a \in G \ {n}, NEW e \in {0, 1}, Side(rk, a, n, e) PROVE Side(Ident, a, n, e)
  <2>1. /\ z(e) \in G \cup {Null} /\ (z(e) # Null => Side(Ident, z(e), n, e) /\ Side(rk, z(e), n, e))
        /\ (a # z(e) => Side(rk, a, n, 1 - e) \/ (z(e) # Null /\ Side(rk, a, z(e), e)))
    BY <1>1 DEF Neighbour
  <2>2. CASE a = z(e)
    BY <2>1, <2>2, <1>0
  <2>3. CASE a # z(e)
    <3>1. ~Side(rk, a, n, 1 - e)
      BY <1>0, <1>2, SideIs
    <3>2. z(e) \in G /\ z(e) # n /\ Side(rk, a, z(e), e) /\ Side(Ident, z(e), n, e)
      BY <2>1, <2>3, <3>1, <1>0, SideIs
    <3>3. Side(Ident, a, z(e), e)
      BY <3>2, <1>0 DEF Side
    <3>4. a \in NodeIds /\ z(e) \in NodeIds /\ n \in NodeIds
      BY <3>2, <1>0
    <3> DEFINE y == z(e)
    <3>5. Side(Ident, a, y, e) /\ Side(Ident, y, n, e) /\ y \in NodeIds
      BY <3>2, <3>3, <3>4
    <3>. HIDE DEF y
    <3>6. Ident \in [NodeIds -> Int]
      BY <1>0
    <3>. QED BY <3>4, <3>5, <3>6, SideIs
  <2>. QED BY <2>2, <2>3
<1>3. ASSUME NEW a \in G, NEW b \in G, NEW e \in {0, 1}, Side(rk, a, b, e) PROVE Side(Ident, a, b, e)
  <2>1. a # b
    BY <1>0, <1>3, SideIs
  <2>2. CASE b = n
    BY <2>1, <2>2, <1>2, <1>3
  <2>3. CASE a = n
    <3>1. 1 - e \in {0, 1} /\ Side(rk, b, n, 1 - e) /\ 1 - (1 - e) = e
      BY <2>3, <1>0, <1>3, SideIs
    <3>2. Side(Ident, b, n, 1 - e)
      BY <2>1, <2>3, <3>1, <1>2
    <3>. QED BY <2>3, <3>1, <3>2, <1>0, SideIs
  <2>4. CASE a # n /\ b # n
    BY <2>4, <1>0, <1>3 DEF Side
  <2>. QED BY <2>2, <2>3, <2>4
<1>4. Tree(u, G, sub, ht, Ident)
  BY <1>0, <1>3, Reorder
<1>. QED BY <1>0, <1>4 DEF Search

\* Removed and added again, n is in order.
LEMMA ReinsertedIs ==
  ASSUME NEW u, NEW G, NEW sub, NEW ht, NEW rk, NEW k, NEW n, Moved(u, G, sub, ht, rk, k, n)
  PROVE  /\ \E sub2, ht2 : Search(Reinserted(u, n), G, sub2, ht2)
         /\ Reinserted(u, n).num = u.num
<1> DEFINE less == avl_remove(u, n)
           L == G \ {n}
<1>0. /\ Tree(u, G, sub, ht, rk) /\ G \subseteq AvlKeys /\ n \in G /\ G \subseteq NodeIds /\ u \in AnyTree
      /\ rk \in [NodeIds -> Int] /\ Ident \in [NodeIds -> Int]
      /\ \A y \in G \ {n} : rk[y] = y
      /\ \A y \in G : Ident[y] = y
  BY Names DEF Moved, Tree, Shape, Linked, Ident
<1>1. PICK sub2, ht2 : Tree(less, L, sub2, ht2, rk)
  BY <1>0, RemoveIs
<1>2. less.num = u.num - 1
  BY <1>0, RemoveIs
<1>. HIDE DEF less
<1>3. \A a, b \in L : \A d \in {0, 1} : Side(rk, a, b, d) => Side(Ident, a, b, d)
  BY <1>0 DEF Side
<1>4. n \in AvlKeys \ L /\ L \cup {n} = G /\ L \subseteq AvlKeys
  BY <1>0
<1>. HIDE DEF L
<1>5. Tree(less, L, sub2, ht2, Ident)
  BY <1>0, <1>1, <1>3, Reorder
<1>6. Search(less, L, sub2, ht2)
  BY <1>4, <1>5 DEF Search
<1>7. /\ \E sub3, ht3 : Search(avl_add(less, n), L \cup {n}, sub3, ht3)
      /\ avl_add(less, n).num = less.num + 1
  BY <1>4, <1>6, AddIs
<1>8. u.num \in Int
  BY <1>0 DEF AnyTree
<1>9. avl_add(less, n).num = u.num
  BY <1>2, <1>7, <1>8
<1>. QED BY <1>4, <1>7, <1>9 DEF Reinserted, less

\* avl_update, and its two halves where the key did not move the other way.
LEMMA UpdateIs ==
  ASSUME NEW u, NEW G, NEW sub, NEW ht, NEW rk, NEW k, NEW n, Moved(u, G, sub, ht, rk, k, n), NEW v,
         \/ v = avl_update(u, n)
         \/ ~Behind(u, n) /\ v = avl_update_lt(u, n)
         \/ ~Before(u, n) /\ v = avl_update_gt(u, n)
  PROVE  (\E sub2, ht2 : Search(v, G, sub2, ht2)) /\ v.num = u.num
<1>1. v = Reinserted(u, n) \/ (v = u /\ ~Before(u, n) /\ ~Behind(u, n))
  BY DEF avl_update, avl_update_lt, avl_update_gt
<1>. QED BY <1>1, InOrder, ReinsertedIs
-----------------------------------------------------------------------------
(***************************************************************************)
(* What the properties measure.                                            *)
(***************************************************************************)
\* One turn of Held.
HeldTurn(t, S) == S \cup ({Child(t, x, c) : x \in S, c \in {0, 1}} \ {Null})

\* After n turns S has the nodes with the most below them.
Holding(t, H, sub, S, n) ==
  S \subseteq H /\ (H # {} => t.root \in S) /\ \A x \in H : Mass(sub)[x] >= Turns - n => x \in S

\* Held finds the nodes of the tree.
LEMMA HeldIs ==
  ASSUME NEW t, NEW H, NEW sub, NEW rk, Shape(t, H, sub, rk)
  PROVE  Held(t) = H
<1> DEFINE first == {t.root} \ {Null}
           V == [i \in Nat |-> {s \in SUBSET Slots : Holding(t, H, sub, s, i)}]
           F == [s \in SUBSET Slots |-> HeldTurn(t, s)]
           go[i \in 0 .. Turns] == IF i = 0 THEN first ELSE HeldTurn(t, go[i - 1])
<1>0. /\ Turns \in Nat /\ H \subseteq Slots /\ Null \notin H /\ t.root \in H \cup {Null} /\ (t.root = Null => H = {})
      /\ \A x \in H : \A c \in {0, 1} : Child(t, x, c) \in H \cup {Null}
      /\ Linked(t, H)
  BY Names, Finite DEF Shape, Linked
<1>0a. \A x \in H : Mass(sub)[x] \in Nat /\ Mass(sub)[x] <= Turns
  BY Masses
<1>0b. ASSUME NEW x \in H, x # t.root
       PROVE  /\ Parent(t, x) \in H /\ Which(t, x) \in {0, 1} /\ Child(t, Parent(t, x), Which(t, x)) = x
              /\ Mass(sub)[Parent(t, x)] > Mass(sub)[x]
  BY <1>0b, Up
<1>1. first \in V[0]
  <2>1. ASSUME NEW x \in H, Mass(sub)[x] >= Turns - 0 PROVE x \in first
    <3>1. x = t.root
      <4>1. SUFFICES ASSUME x # t.root PROVE FALSE
        OBVIOUS
      <4>2. Parent(t, x) \in H /\ Mass(sub)[Parent(t, x)] > Mass(sub)[x]
        BY <4>1, <1>0b
      <4>. QED BY <4>2, <2>1, <1>0, <1>0a
    <3>. QED BY <3>1, <1>0
  <2>2. first \subseteq H /\ first \in SUBSET Slots /\ (H # {} => t.root \in first)
    BY <1>0
  <2>. HIDE DEF first
  <2>. QED BY <2>1, <2>2 DEF Holding
<1>2. ASSUME NEW i \in Nat, NEW s \in V[i] PROVE HeldTurn(t, s) \in V[i + 1]
  <2>1. s \subseteq H /\ (H # {} => t.root \in s) /\ \A x \in H : Mass(sub)[x] >= Turns - i => x \in s
    BY DEF Holding
  <2>2. HeldTurn(t, s) \subseteq H
    BY <2>1, <1>0 DEF HeldTurn
  <2>3. ASSUME NEW x \in H, Mass(sub)[x] >= Turns - (i + 1) PROVE x \in HeldTurn(t, s)
    <3>1. CASE x = t.root
      BY <3>1, <2>1 DEF HeldTurn
    <3>2. CASE x # t.root
      <4>1. /\ Parent(t, x) \in H /\ Which(t, x) \in {0, 1} /\ Child(t, Parent(t, x), Which(t, x)) = x
            /\ Mass(sub)[Parent(t, x)] > Mass(sub)[x]
        BY <3>2, <1>0b
      <4>2. Mass(sub)[Parent(t, x)] >= Turns - i
        BY <4>1, <2>3, <1>0, <1>0a
      <4>3. Parent(t, x) \in s
        BY <4>1, <4>2, <2>1
      <4>. QED BY <4>1, <4>3, <1>0 DEF HeldTurn
    <3>. QED BY <3>1, <3>2
  <2>4. HeldTurn(t, s) \in SUBSET Slots
    BY <2>2, <1>0
  <2>5. Holding(t, H, sub, HeldTurn(t, s), i + 1)
    BY <2>1, <2>2, <2>3 DEF Holding, HeldTurn
  <2>. QED BY <2>4, <2>5
<1>3. ASSUME NEW i \in Nat, NEW s \in V[i] PROVE F[s] = HeldTurn(t, s) /\ F[s] \in V[i + 1]
  <2>1. F[s] = HeldTurn(t, s)
    OBVIOUS
  <2>. HIDE DEF first, V, F
  <2>. QED BY <2>1, <1>2
<1>. HIDE DEF first, V, F
<1>4. PICK g : Loops(g, Turns, first, F, V)
  <2>1. \A i \in 0 .. Turns - 1 : \A s \in V[i] : F[s] \in V[i + 1]
    BY <1>0, <1>3
  <2>. QED BY <2>1, <1>0, <1>1, LoopExists
<1>5. g = [i \in 0 .. Turns |-> IF i = 0 THEN first ELSE HeldTurn(t, g[i - 1])]
  <2>1. ASSUME NEW i \in 0 .. Turns, i # 0 PROVE F[g[i - 1]] = HeldTurn(t, g[i - 1])
    <3>1. i - 1 \in 0 .. Turns /\ i - 1 \in Nat
      BY <2>1, <1>0
    <3>2. g[i - 1] \in V[i - 1]
      BY <3>1, <1>4 DEF Loops
    <3>. QED BY <3>1, <3>2, <1>3
  <2>2. ASSUME NEW i \in 0 .. Turns
        PROVE  (IF i = 0 THEN first ELSE F[g[i - 1]]) = (IF i = 0 THEN first ELSE HeldTurn(t, g[i - 1]))
    BY <2>1
  <2>3. [i \in 0 .. Turns |-> IF i = 0 THEN first ELSE F[g[i - 1]]]
          = [i \in 0 .. Turns |-> IF i = 0 THEN first ELSE HeldTurn(t, g[i - 1])]
    BY <2>2, Zenon
  <2>. QED BY <2>3, <1>4, Zenon DEF Loops
<1>6. go = [i \in 0 .. Turns |-> IF i = 0 THEN first ELSE HeldTurn(t, go[i - 1])]
  BY <1>5
<1>7. Held(t) = go[Turns]
  BY DEF Held, HeldTurn, first
<1>. HIDE DEF go
<1>8. go[0] \in V[0] /\ \A i \in 0 .. Turns - 1 : go[i] \in V[i] => go[i + 1] \in V[i + 1]
  <2>1. go[0] = first
    <3>1. 0 \in 0 .. Turns
      BY <1>0
    <3>. QED BY <3>1, <1>6
  <2>2. ASSUME NEW i \in 0 .. Turns - 1, go[i] \in V[i] PROVE go[i + 1] \in V[i + 1]
    <3>1. i \in Nat /\ i + 1 \in 0 .. Turns /\ i + 1 # 0 /\ (i + 1) - 1 = i
      BY <1>0
    <3>2. go[i + 1] = HeldTurn(t, go[(i + 1) - 1])
      BY <3>1, <1>6, Zenon
    <3>3. go[i + 1] = HeldTurn(t, go[i])
      BY <3>1, <3>2
    <3>. QED BY <3>1, <3>3, <2>2, <1>2
  <2>. QED BY <2>1, <2>2, <1>1
<1>9. go[Turns] \in V[Turns] /\ \A i \in 0 .. Turns : go[i] \in V[i]
  BY <1>0, <1>8, LoopEnds
<1>10. Holding(t, H, sub, go[Turns], Turns)
  BY <1>0, <1>9 DEF V
<1>11. \A x \in H : Mass(sub)[x] >= Turns - Turns
  BY <1>0, <1>0a
<1>. QED BY <1>7, <1>10, <1>11 DEF Holding

\* One turn of Heights.
HeightsTurn(t, h) ==
  [x \in NodeIds \cup {Null} |->
     IF x = Null THEN 0 ELSE 1 + Larger(h[Child(t, x, 0)], h[Child(t, x, 1)])]

\* After n turns h is right for the nodes with the fewest below them.
Measuring(t, H, sub, ht, h, n) == h[Null] = 0 /\ \A x \in H : Mass(sub)[x] <= n => h[x] = ht[x]

\* Heights finds the levels of the nodes of the tree.
LEMMA HeightsAre ==
  ASSUME NEW t, NEW H, NEW sub, NEW ht, NEW rk, Tree(t, H, sub, ht, rk)
  PROVE  Heights(t)[Null] = 0 /\ \A x \in H : Heights(t)[x] = ht[x]
<1> DEFINE first == [x \in NodeIds \cup {Null} |-> 0]
           V == [i \in Nat |-> {s \in [Slots -> Int] : Measuring(t, H, sub, ht, s, i)}]
           F == [s \in [Slots -> Int] |-> HeightsTurn(t, s)]
           go[i \in 0 .. Turns] == IF i = 0 THEN first ELSE HeightsTurn(t, go[i - 1])
<1>0. /\ Turns \in Nat /\ H \subseteq NodeIds /\ Null \notin NodeIds /\ Slots = NodeIds \cup {Null} /\ t \in AnyTree
      /\ \A x \in H : \A c \in {0, 1} : Child(t, x, c) \in H \cup {Null}
      /\ Shape(t, H, sub, rk)
  BY Names, Finite DEF Tree, Shape, Linked
<1>0a. \A x \in H : Mass(sub)[x] \in Nat /\ Mass(sub)[x] <= Turns /\ Mass(sub)[x] > 0
  BY <1>0, Masses
<1>0b. ht[Null] = 0 /\ ht \in [Slots -> Nat]
  BY DEF Tree, Levels
<1>1. first \in V[0]
  <2>1. first \in [Slots -> Int] /\ first[Null] = 0
    BY <1>0
  <2>. HIDE DEF first
  <2>. QED BY <2>1, <1>0a DEF Measuring
<1>2. ASSUME NEW i \in Nat, NEW s \in V[i] PROVE HeightsTurn(t, s) \in V[i + 1]
  <2>1. s \in [Slots -> Int] /\ s[Null] = 0 /\ \A x \in H : Mass(sub)[x] <= i => s[x] = ht[x]
    BY DEF Measuring
  <2>2. ASSUME NEW x \in NodeIds PROVE s[Child(t, x, 0)] \in Int /\ s[Child(t, x, 1)] \in Int
    <3>1. Child(t, x, 0) \in Slots /\ Child(t, x, 1) \in Slots
      BY <1>0, Fields
    <3>. QED BY <3>1, <2>1
  <2>3. HeightsTurn(t, s) \in [Slots -> Int] /\ HeightsTurn(t, s)[Null] = 0
    <3>1. \A x \in NodeIds \cup {Null} :
            (IF x = Null THEN 0 ELSE 1 + Larger(s[Child(t, x, 0)], s[Child(t, x, 1)])) \in Int
      BY <2>2 DEF Larger
    <3>. QED BY <3>1, <1>0 DEF HeightsTurn
  <2>4. ASSUME NEW x \in H, Mass(sub)[x] <= i + 1 PROVE HeightsTurn(t, s)[x] = ht[x]
    <3>1. ASSUME NEW c \in {0, 1} PROVE s[Child(t, x, c)] = ht[Child(t, x, c)]
      <4>1. CASE Child(t, x, c) = Null
        BY <4>1, <2>1, <1>0b
      <4>2. CASE Child(t, x, c) # Null
        <5>1. Child(t, x, c) \in H
          BY <4>2, <1>0
        <5>2. Mass(sub)[Child(t, x, c)] < Mass(sub)[x]
          BY <5>1, <1>0, Masses
        <5>3. Mass(sub)[Child(t, x, c)] <= i
          BY <5>1, <5>2, <2>4, <1>0a
        <5>. QED BY <5>1, <5>3, <2>1
      <4>. QED BY <4>1, <4>2
    <3>2. Level(t, ht, x, ht[Child(t, x, 0)], ht[Child(t, x, 1)])
      BY TreeLevels
    <3>3. HeightsTurn(t, s)[x] = 1 + Larger(s[Child(t, x, 0)], s[Child(t, x, 1)])
      BY <1>0 DEF HeightsTurn
    <3>4. s[Child(t, x, 0)] = ht[Child(t, x, 0)] /\ s[Child(t, x, 1)] = ht[Child(t, x, 1)]
      BY <3>1
    <3>. QED BY <3>2, <3>3, <3>4 DEF Level
  <2>5. Measuring(t, H, sub, ht, HeightsTurn(t, s), i + 1)
    BY <2>3, <2>4 DEF Measuring
  <2>. QED BY <2>3, <2>5
<1>3. ASSUME NEW i \in Nat, NEW s \in V[i] PROVE F[s] = HeightsTurn(t, s) /\ F[s] \in V[i + 1]
  <2>1. F[s] = HeightsTurn(t, s)
    OBVIOUS
  <2>. HIDE DEF first, V, F
  <2>. QED BY <2>1, <1>2
<1>. HIDE DEF first, V, F
<1>4. PICK g : Loops(g, Turns, first, F, V)
  <2>1. \A i \in 0 .. Turns - 1 : \A s \in V[i] : F[s] \in V[i + 1]
    BY <1>0, <1>3
  <2>. QED BY <2>1, <1>0, <1>1, LoopExists
<1>5. g = [i \in 0 .. Turns |-> IF i = 0 THEN first ELSE HeightsTurn(t, g[i - 1])]
  <2>1. ASSUME NEW i \in 0 .. Turns, i # 0 PROVE F[g[i - 1]] = HeightsTurn(t, g[i - 1])
    <3>1. i - 1 \in 0 .. Turns /\ i - 1 \in Nat
      BY <2>1, <1>0
    <3>2. g[i - 1] \in V[i - 1]
      BY <3>1, <1>4 DEF Loops
    <3>. QED BY <3>1, <3>2, <1>3
  <2>2. ASSUME NEW i \in 0 .. Turns
        PROVE  (IF i = 0 THEN first ELSE F[g[i - 1]]) = (IF i = 0 THEN first ELSE HeightsTurn(t, g[i - 1]))
    BY <2>1
  <2>3. [i \in 0 .. Turns |-> IF i = 0 THEN first ELSE F[g[i - 1]]]
          = [i \in 0 .. Turns |-> IF i = 0 THEN first ELSE HeightsTurn(t, g[i - 1])]
    BY <2>2, Zenon
  <2>. QED BY <2>3, <1>4, Zenon DEF Loops
<1>6. go = [i \in 0 .. Turns |-> IF i = 0 THEN first ELSE HeightsTurn(t, go[i - 1])]
  BY <1>5
<1>7. Heights(t) = go[Turns]
  BY DEF Heights, HeightsTurn, first
<1>. HIDE DEF go
<1>8. go[0] \in V[0] /\ \A i \in 0 .. Turns - 1 : go[i] \in V[i] => go[i + 1] \in V[i + 1]
  <2>1. go[0] = first
    <3>1. 0 \in 0 .. Turns
      BY <1>0
    <3>. QED BY <3>1, <1>6
  <2>2. ASSUME NEW i \in 0 .. Turns - 1, go[i] \in V[i] PROVE go[i + 1] \in V[i + 1]
    <3>1. i \in Nat /\ i + 1 \in 0 .. Turns /\ i + 1 # 0 /\ (i + 1) - 1 = i
      BY <1>0
    <3>2. go[i + 1] = HeightsTurn(t, go[(i + 1) - 1])
      BY <3>1, <1>6, Zenon
    <3>3. go[i + 1] = HeightsTurn(t, go[i])
      BY <3>1, <3>2
    <3>. QED BY <3>1, <3>3, <2>2, <1>2
  <2>. QED BY <2>1, <2>2, <1>1
<1>9. go[Turns] \in V[Turns] /\ \A i \in 0 .. Turns : go[i] \in V[i]
  BY <1>0, <1>8, LoopEnds
<1>10. Measuring(t, H, sub, ht, go[Turns], Turns)
  BY <1>0, <1>9 DEF V
<1>. QED BY <1>7, <1>10, <1>0a DEF Measuring

-----------------------------------------------------------------------------
(***************************************************************************)
(* The invariant.                                                          *)
(***************************************************************************)
\* t is a balanced search tree that counts its nodes.
Counted(t, H, sub, ht) == Search(t, H, sub, ht) /\ t.num = Cardinality(H)

\* The inductive invariant.
AvlIInv == \E H, sub, ht : Counted(avl, H, sub, ht)

\* avl_create makes a tree.
LEMMA EmptyIs == Counted(Empty, {}, [x \in Slots |-> {}], [x \in Slots |-> 0])
<1>1. Empty \in AnyTree
  <2>1. <<Null, Null>> \in [1 .. 2 -> Slots]
    BY Names
  <2>2. Fresh \in AnyNode
    BY <2>1, Names DEF Fresh, AnyNode
  <2>. QED BY <2>2, Names DEF Empty, AnyTree
<1>2. Empty.root = Null /\ Empty.num = 0
  BY DEF Empty
<1>3. Linked(Empty, {})
  BY <1>1, <1>2, Names DEF Linked
<1>4. Ordered(Empty, {}, [x \in Slots |-> {}], Ident)
  BY <1>2, Names DEF Ordered, Ident
<1>5. Levels(Empty, {}, [x \in Slots |-> 0], Null, 0, 0)
  BY <1>2, Names DEF Levels
<1>6. Cardinality({}) = 0
  BY FS_EmptySet
<1>. QED BY <1>2, <1>3, <1>4, <1>5, <1>6 DEF Counted, Search, Tree, Shape

\* Sizes of the sets of nodes.
LEMMA Sizes ==
  ASSUME NEW H \in SUBSET AvlKeys
  PROVE  /\ IsFiniteSet(H) /\ Cardinality(H) \in Nat
         /\ \A k \in AvlKeys \ H : Cardinality(H \cup {k}) = Cardinality(H) + 1
         /\ \A k \in H : Cardinality(H \ {k}) = Cardinality(H) - 1
<1>1. IsFiniteSet(H)
  BY AvlAssumption, FS_Subset
<1>2. Cardinality(H) \in Nat
  BY <1>1, FS_CardinalityType
<1>3. \A k \in AvlKeys \ H : Cardinality(H \cup {k}) = Cardinality(H) + 1
  BY <1>1, FS_AddElement
<1>4. \A k \in H : Cardinality(H \ {k}) = Cardinality(H) - 1
  BY <1>1, FS_RemoveElement
<1>. QED BY <1>1, <1>2, <1>3, <1>4
\* The four operations keep the invariant.
LEMMA AddStep ==
  ASSUME NEW H, NEW sub, NEW ht, Counted(avl, H, sub, ht), NEW k \in AvlKeys \ H
  PROVE  \E sub2, ht2 : Counted(avl_add(avl, k), H \cup {k}, sub2, ht2)
<1>1. Search(avl, H, sub, ht) /\ avl.num = Cardinality(H) /\ H \in SUBSET AvlKeys
  BY DEF Counted, Search
<1>2. /\ \E sub2, ht2 : Search(avl_add(avl, k), H \cup {k}, sub2, ht2)
      /\ avl_add(avl, k).num = avl.num + 1
  BY <1>1, AddIs
<1>. QED BY <1>1, <1>2, Sizes DEF Counted

\* x is the neighbour of k that the caller of avl_insert_here found.
Nearest(x, t, k, d) == x = avl_nearest(t, avl_find(t, k), d) /\ x # Null

\* avl_insert_here next to either neighbour adds the key.
LEMMA HereStep ==
  ASSUME NEW H, NEW sub, NEW ht, Counted(avl, H, sub, ht), NEW k \in AvlKeys \ H, NEW d \in {0, 1},
         NEW here, Nearest(here, avl, k, 1 - d)
  PROVE  \E sub2, ht2 : Counted(avl_insert_here(avl, k, here, d), H \cup {k}, sub2, ht2)
<1> DEFINE where == avl_find(avl, k)
<1>1. /\ Search(avl, H, sub, ht) /\ avl.num = Cardinality(H) /\ H \in SUBSET AvlKeys /\ k \in NodeIds \ H
      /\ Tree(avl, H, sub, ht, Ident) /\ Shape(avl, H, sub, Ident) /\ 1 - d \in {0, 1}
  BY Names DEF Counted, Search, Tree
<1>2. where.child \in {0, 1} /\ Fits(avl, H, sub, Ident, k, where.at, where.child)
  BY <1>1, FindIs
<1>. HIDE DEF where
<1>3. Neighbour(H, Ident, k, 1 - d, avl_nearest(avl, where, 1 - d))
  BY <1>1, <1>2, NearestIs
<1>4. Neighbour(H, Ident, k, 1 - d, here) /\ here \in H
  BY <1>3 DEF Neighbour, Nearest, where
<1>5. /\ \E sub2, ht2 : Tree(avl_insert_here(avl, k, here, d), H \cup {k}, sub2, ht2, Ident)
      /\ avl_insert_here(avl, k, here, d).num = avl.num + 1
  <2>1. HerePlace(avl, H, sub, ht, Ident, k, d, here)
    BY <1>1, <1>4 DEF HerePlace
  <2>2. Grown(avl_insert_here(avl, k, here, d), avl, H, Ident, k)
    BY <2>1, InsertHereIs
  <2>. QED BY <2>2 DEF Grown
<1>. QED BY <1>1, <1>5, Sizes DEF Counted, Search

\* avl_remove takes the key out.
LEMMA RemoveStep ==
  ASSUME NEW t, NEW H, NEW sub, NEW ht, Counted(t, H, sub, ht), NEW k \in H
  PROVE  \E sub2, ht2 : Counted(avl_remove(t, k), H \ {k}, sub2, ht2)
<1>1. Tree(t, H, sub, ht, Ident) /\ t.num = Cardinality(H) /\ H \in SUBSET AvlKeys
  BY DEF Counted, Search
<1>2. /\ \E sub2, ht2 : Tree(avl_remove(t, k), H \ {k}, sub2, ht2, Ident)
      /\ avl_remove(t, k).num = t.num - 1
  BY <1>1, RemoveIs
<1>. QED BY <1>1, <1>2, Sizes DEF Counted, Search

\* avl_update* puts the node with the new key in its place.
LEMMA UpdateStep ==
  ASSUME NEW H, NEW sub, NEW ht, Counted(avl, H, sub, ht), NEW k \in H, NEW n \in AvlKeys \ H, NEW v,
         \/ v = avl_update(Renamed(avl, k, n), n)
         \/ ~Behind(Renamed(avl, k, n), n) /\ v = avl_update_lt(Renamed(avl, k, n), n)
         \/ ~Before(Renamed(avl, k, n), n) /\ v = avl_update_gt(Renamed(avl, k, n), n)
  PROVE  \E sub2, ht2 : Counted(v, (H \ {k}) \cup {n}, sub2, ht2)
<1> DEFINE u == Renamed(avl, k, n)
           G == (H \ {k}) \cup {n}
<1>1. Search(avl, H, sub, ht) /\ avl.num = Cardinality(H) /\ H \in SUBSET AvlKeys
  BY DEF Counted, Search
<1>2. (\E sub2, ht2, rk : Moved(u, G, sub2, ht2, rk, k, n)) /\ u.num = avl.num
  BY <1>1, RenamedIs
<1>3. \/ v = avl_update(u, n)
      \/ ~Behind(u, n) /\ v = avl_update_lt(u, n)
      \/ ~Before(u, n) /\ v = avl_update_gt(u, n)
  OBVIOUS
<1>4. Cardinality(G) = Cardinality(H)
  <2>1. H \ {k} \in SUBSET AvlKeys /\ n \in AvlKeys \ (H \ {k})
    BY <1>1
  <2>2. Cardinality(H \ {k}) = Cardinality(H) - 1 /\ Cardinality(H) \in Nat
    BY <1>1, Sizes
  <2>3. Cardinality(G) = Cardinality(H \ {k}) + 1
    BY <2>1, Sizes
  <2>. HIDE DEF G
  <2>. QED BY <2>2, <2>3
<1>. HIDE DEF u, G
<1>5. (\E sub2, ht2 : Search(v, G, sub2, ht2)) /\ v.num = u.num
  BY <1>2, <1>3, UpdateIs
<1>. QED BY <1>1, <1>2, <1>4, <1>5 DEF Counted, G

\* The tree of every state is balanced and ordered and counts its nodes.
THEOREM AvlInductive == AvlInit /\ [][AvlNext]_avl => []AvlIInv
<1>1. AvlInit => AvlIInv
  BY EmptyIs DEF AvlInit, AvlIInv
<1>2. AvlIInv /\ [AvlNext]_avl => AvlIInv'
  <2>1. SUFFICES ASSUME AvlIInv, [AvlNext]_avl PROVE AvlIInv'
    OBVIOUS
  <2>2. PICK H, sub, ht : Counted(avl, H, sub, ht)
    BY <2>1 DEF AvlIInv
  <2>3. Held(avl) = H
    BY <2>2, HeldIs DEF Counted, Search, Tree
  <2>4. CASE AddKey
    <3>1. PICK k \in AvlKeys \ H : avl' = avl_add(avl, k)
      BY <2>3, <2>4 DEF AddKey
    <3>. QED BY <2>2, <3>1, AddStep DEF AvlIInv
  <2>5. CASE InsertHere
    <3>1. PICK k \in AvlKeys \ H, d \in {0, 1} :
            \E here : Nearest(here, avl, k, 1 - d) /\ avl' = avl_insert_here(avl, k, here, d)
      BY <2>3, <2>5 DEF InsertHere, Nearest
    <3>2. PICK here : Nearest(here, avl, k, 1 - d) /\ avl' = avl_insert_here(avl, k, here, d)
      BY <3>1
    <3>3. \E sub2, ht2 : Counted(avl_insert_here(avl, k, here, d), H \cup {k}, sub2, ht2)
      BY <2>2, <3>2, HereStep
    <3>. QED BY <3>2, <3>3 DEF AvlIInv
  <2>6. CASE RemoveKey
    <3>1. PICK k \in H : avl' = avl_remove(avl, k)
      BY <2>3, <2>6 DEF RemoveKey
    <3>. QED BY <2>2, <3>1, RemoveStep DEF AvlIInv
  <2>7. CASE Update
    <3>1. PICK k \in H, n \in AvlKeys \ H :
            \/ avl' = avl_update(Renamed(avl, k, n), n)
            \/ ~Behind(Renamed(avl, k, n), n) /\ avl' = avl_update_lt(Renamed(avl, k, n), n)
            \/ ~Before(Renamed(avl, k, n), n) /\ avl' = avl_update_gt(Renamed(avl, k, n), n)
      BY <2>3, <2>7 DEF Update
    <3>. QED BY <2>2, <3>1, UpdateStep DEF AvlIInv
  <2>8. CASE UNCHANGED avl
    BY <2>1, <2>8 DEF AvlIInv
  <2>. QED BY <2>1, <2>4, <2>5, <2>6, <2>7, <2>8 DEF AvlNext
<1>. QED BY <1>1, <1>2, PTL

\* AvlBalanced: after any mix of avl_insert, avl_insert_here, avl_remove and
\* avl_update*, the balance of each node is the difference of the heights of its
\* subtrees, and at most one: the rotations of avl_rotation and the way up of
\* avl_insert and avl_remove leave no node out.
THEOREM AvlStaysBalanced == AvlInit /\ [][AvlNext]_avl => []AvlBalanced
<1>1. AvlIInv => AvlBalanced
  <2>1. SUFFICES ASSUME AvlIInv PROVE AvlBalanced
    OBVIOUS
  <2>2. PICK H, sub, ht : Counted(avl, H, sub, ht)
    BY <2>1 DEF AvlIInv
  <2>3. Tree(avl, H, sub, ht, Ident) /\ Shape(avl, H, sub, Ident)
    BY <2>2 DEF Counted, Search, Tree
  <2>4. Held(avl) = H
    BY <2>3, HeldIs
  <2> DEFINE h == Heights(avl)
  <2>5. h[Null] = 0 /\ \A x \in H : h[x] = ht[x]
    BY <2>3, HeightsAre
  <2>. HIDE DEF h
  <2>6. ASSUME NEW x \in H
        PROVE  h[Child(avl, x, 1)] - h[Child(avl, x, 0)] = Bal(avl, x) /\ Bal(avl, x) \in -1 .. 1
    <3>1. ASSUME NEW c \in {0, 1} PROVE h[Child(avl, x, c)] = ht[Child(avl, x, c)]
      <4>1. Child(avl, x, c) \in H \cup {Null} /\ ht[Null] = 0
        BY <2>3 DEF Tree, Levels, Shape, Linked
      <4>. QED BY <4>1, <2>5
    <3>2. Level(avl, ht, x, ht[Child(avl, x, 0)], ht[Child(avl, x, 1)])
      BY <2>3, TreeLevels
    <3>3. h[Child(avl, x, 0)] = ht[Child(avl, x, 0)] /\ h[Child(avl, x, 1)] = ht[Child(avl, x, 1)]
      BY <3>1
    <3>. QED BY <3>2, <3>3 DEF Level
  <2>. QED BY <2>4, <2>6 DEF AvlBalanced, h
<1>. QED BY <1>1, AvlInductive, PTL
-----------------------------------------------------------------------------
(***************************************************************************)
(* Searches.                                                               *)
(***************************************************************************)
\* The neighbour below is the greatest of the smaller keys.
LEMMA NearestBelow ==
  ASSUME NEW H \in SUBSET AvlKeys, NEW k \in AvlKeys \ H, NEW z, Neighbour(H, Ident, k, 0, z)
  PROVE  z = IF {x \in H : x < k} = {} THEN Null ELSE Max({x \in H : x < k})
<1> DEFINE S == {x \in H : x < k}
<1>0. Null \notin H /\ \A x \in H : x \in Nat /\ x \in NodeIds /\ Ident[x] = x /\ Ident[k] = k /\ k \in Nat
  BY Names DEF Ident
<1>1. /\ z \in H \cup {Null} /\ (z # Null => z < k) /\ \A v \in H \ {z} : v > k \/ (z # Null /\ v < z)
  BY <1>0 DEF Neighbour, Side
<1>2. CASE z = Null
  <2>1. \A v \in H : v > k
    BY <1>0, <1>1, <1>2
  <2>2. S = {}
    BY <1>0, <2>1
  <2>. QED BY <2>2, <1>2
<1>3. CASE z # Null
  <2>1. z \in S /\ \A y \in S : z >= y
    BY <1>0, <1>1, <1>3
  <2>2. \A y \in S : (\A v \in S : y >= v) => y = z
    BY <1>0, <2>1
  <2>. HIDE DEF S
  <2>3. Max(S) \in S /\ \A v \in S : Max(S) >= v
    BY <2>1 DEF Max
  <2>4. Max(S) = z
    BY <2>2, <2>3
  <2>. QED BY <2>1, <2>4 DEF S
<1>. QED BY <1>2, <1>3

\* The neighbour above is the smallest of the greater keys.
LEMMA NearestAbove ==
  ASSUME NEW H \in SUBSET AvlKeys, NEW k \in AvlKeys \ H, NEW z, Neighbour(H, Ident, k, 1, z)
  PROVE  z = IF {x \in H : x > k} = {} THEN Null ELSE Min({x \in H : x > k})
<1> DEFINE S == {x \in H : x > k}
<1>0. Null \notin H /\ \A x \in H : x \in Nat /\ x \in NodeIds /\ Ident[x] = x /\ Ident[k] = k /\ k \in Nat
  BY Names DEF Ident
<1>1. /\ z \in H \cup {Null} /\ (z # Null => z > k) /\ \A v \in H \ {z} : v < k \/ (z # Null /\ v > z)
  BY <1>0 DEF Neighbour, Side
<1>2. CASE z = Null
  <2>1. \A v \in H : v < k
    BY <1>0, <1>1, <1>2
  <2>2. S = {}
    BY <1>0, <2>1
  <2>. QED BY <2>2, <1>2
<1>3. CASE z # Null
  <2>1. z \in S /\ \A y \in S : z <= y
    BY <1>0, <1>1, <1>3
  <2>2. \A y \in S : (\A v \in S : y <= v) => y = z
    BY <1>0, <2>1
  <2>. HIDE DEF S
  <2>3. Min(S) \in S /\ \A v \in S : Min(S) <= v
    BY <2>1 DEF Min
  <2>4. Min(S) = z
    BY <2>2, <2>3
  <2>. QED BY <2>1, <2>4 DEF S
<1>. QED BY <1>2, <1>3

\* AvlNearestExact: avl_find finds exactly the keys in the tree, and avl_nearest the
\* closest keys on both sides of where another key would be inserted.
THEOREM AvlFindsNearest == AvlInit /\ [][AvlNext]_avl => []AvlNearestExact
<1>1. AvlIInv => AvlNearestExact
  <2>1. SUFFICES ASSUME AvlIInv PROVE AvlNearestExact
    OBVIOUS
  <2>2. PICK H, sub, ht : Counted(avl, H, sub, ht)
    BY <2>1 DEF AvlIInv
  <2>3. Search(avl, H, sub, ht) /\ Shape(avl, H, sub, Ident) /\ H \in SUBSET AvlKeys
    BY <2>2 DEF Counted, Search, Tree
  <2>4. Held(avl) = H
    BY <2>3, HeldIs
  <2>5. ASSUME NEW k \in AvlKeys
        PROVE  LET f == avl_find(avl, k)
               IN  IF k \in H THEN f.node = k
                   ELSE /\ f.node = Null
                        /\ avl_nearest(avl, f, 0) = IF {x \in H : x < k} = {} THEN Null ELSE Max({x \in H : x < k})
                        /\ avl_nearest(avl, f, 1) = IF {x \in H : x > k} = {} THEN Null ELSE Min({x \in H : x > k})
    <3> DEFINE f == avl_find(avl, k)
    <3>1. /\ f.node = IF k \in H THEN k ELSE Null
          /\ f.child \in {0, 1} /\ (k \notin H => Fits(avl, H, sub, Ident, k, f.at, f.child))
      BY <2>3, FindIs
    <3>. HIDE DEF f
    <3>2. CASE k \in H
      BY <3>1, <3>2 DEF f
    <3>3. CASE k \notin H
      <4>1. k \in NodeIds \ H /\ Fits(avl, H, sub, Ident, k, f.at, f.child)
        BY <3>1, <3>3, Names
      <4>2. Neighbour(H, Ident, k, 0, avl_nearest(avl, f, 0))
        BY <2>3, <3>1, <4>1, NearestIs
      <4>3. Neighbour(H, Ident, k, 1, avl_nearest(avl, f, 1))
        BY <2>3, <3>1, <4>1, NearestIs
      <4>4. avl_nearest(avl, f, 0) = IF {x \in H : x < k} = {} THEN Null ELSE Max({x \in H : x < k})
        BY <2>3, <3>3, <4>2, NearestBelow
      <4>5. avl_nearest(avl, f, 1) = IF {x \in H : x > k} = {} THEN Null ELSE Min({x \in H : x > k})
        BY <2>3, <3>3, <4>3, NearestAbove
      <4>. QED BY <3>1, <3>3, <4>4, <4>5 DEF f
    <3>. QED BY <3>2, <3>3
  <2>. QED BY <2>4, <2>5, Zenon DEF AvlNearestExact
<1>. QED BY <1>1, AvlInductive, PTL
-----------------------------------------------------------------------------
(***************************************************************************)
(* The walk over all nodes, some of which the callback removes.            *)
(***************************************************************************)
Walk == [t : AnyTree, x : Slots, seen : Seq(AvlKeys)]

\* The nodes left once those in seen were shown.
Left(H, gone, seen) == H \ (gone \cap ToSet(seen))

\* After n turns w.x is the next node, and all smaller ones were shown in order.
Walking(w, H, gone, n) ==
  /\ \E sub, ht : Counted(w.t, Left(H, gone, w.seen), sub, ht)
  /\ w.x \in H \cup {Null} /\ ToSet(w.seen) = {v \in H : w.x = Null \/ v < w.x}
  /\ \A j \in 1 .. Len(w.seen) - 1 : w.seen[j] < w.seen[j + 1]
  /\ w.x # Null => Cardinality(ToSet(w.seen)) >= n

\* What Append does to the elements and to their order.
LEMMA Appended ==
  ASSUME NEW seen \in Seq(AvlKeys), NEW x \in AvlKeys,
         \A j \in 1 .. Len(seen) - 1 : seen[j] < seen[j + 1], \A v \in ToSet(seen) : v < x
  PROVE  /\ Append(seen, x) \in Seq(AvlKeys) /\ ToSet(Append(seen, x)) = ToSet(seen) \cup {x}
         /\ \A j \in 1 .. Len(Append(seen, x)) - 1 : Append(seen, x)[j] < Append(seen, x)[j + 1]
<1> DEFINE s == Append(seen, x)
<1>1. s \in Seq(AvlKeys) /\ Len(s) = Len(seen) + 1 /\ Len(seen) \in Nat
      /\ \A j \in 1 .. Len(s) : s[j] = IF j <= Len(seen) THEN seen[j] ELSE x
  OBVIOUS
<1>. HIDE DEF s
<1>2. DOMAIN s = 1 .. Len(seen) + 1 /\ DOMAIN seen = 1 .. Len(seen)
  BY <1>1
<1>3. ToSet(s) = ToSet(seen) \cup {x}
  <2>1. ASSUME NEW v \in ToSet(s) PROVE v \in ToSet(seen) \cup {x}
    <3>1. PICK j \in 1 .. Len(seen) + 1 : v = s[j]
      BY <2>1, <1>2 DEF ToSet
    <3>2. CASE j <= Len(seen)
      <4>1. v = seen[j] /\ j \in DOMAIN seen
        BY <3>1, <3>2, <1>1, <1>2
      <4>. QED BY <4>1 DEF ToSet
    <3>3. CASE ~(j <= Len(seen))
      BY <3>1, <3>3, <1>1
    <3>. QED BY <3>2, <3>3
  <2>2. ASSUME NEW v \in ToSet(seen) PROVE v \in ToSet(s)
    <3>1. PICK j \in 1 .. Len(seen) : v = seen[j]
      BY <2>2, <1>2 DEF ToSet
    <3>2. v = s[j] /\ j \in DOMAIN s
      BY <3>1, <1>1, <1>2
    <3>. QED BY <3>2 DEF ToSet
  <2>3. x \in ToSet(s)
    <3>1. x = s[Len(seen) + 1] /\ Len(seen) + 1 \in DOMAIN s
      BY <1>1, <1>2
    <3>. QED BY <3>1 DEF ToSet
  <2>. QED BY <2>1, <2>2, <2>3
<1>4. ASSUME NEW j \in 1 .. Len(s) - 1 PROVE s[j] < s[j + 1]
  <2>1. CASE j <= Len(seen) - 1
    BY <2>1, <1>1
  <2>2. CASE ~(j <= Len(seen) - 1)
    <3>1. j = Len(seen) /\ j \in 1 .. Len(seen) /\ j \in 1 .. Len(s) /\ j + 1 \in 1 .. Len(s) /\ ~(j + 1 <= Len(seen))
      BY <2>2, <1>1
    <3>2. j \in DOMAIN seen /\ s[j] = seen[j] /\ s[j + 1] = x
      BY <3>1, <1>1, <1>2
    <3>3. seen[j] \in ToSet(seen)
      BY <3>2 DEF ToSet
    <3>. QED BY <3>2, <3>3
  <2>. QED BY <2>1, <2>2
<1>. QED BY <1>1, <1>3, <1>4 DEF s

\* The next node is looked up while the one shown is still in the tree.
LEMMA WalkStep ==
  ASSUME NEW H \in SUBSET AvlKeys, NEW gone, NEW n \in Nat, NEW w \in Walk, Walking(w, H, gone, n)
  PROVE  WalkAllTurn(w, gone) \in Walk /\ Walking(WalkAllTurn(w, gone), H, gone, n + 1)
<1> DEFINE x == w.x
           L == Left(H, gone, w.seen)
           z == avl_walk(w.t, x, 1)
           s == Append(w.seen, x)
           u == IF x \in gone THEN avl_remove(w.t, x) ELSE w.t
           r == [t |-> u, x |-> z, seen |-> s]
           C == Cardinality(ToSet(w.seen))
<1>0. /\ w.t \in AnyTree /\ x \in Slots /\ w.seen \in Seq(AvlKeys) /\ H \subseteq Nat /\ H \subseteq NodeIds /\ Null \notin H
      /\ NodeIds \subseteq Slots /\ Null \in Slots
  BY Names DEF Walk
<1>1. /\ x \in H \cup {Null} /\ ToSet(w.seen) = {v \in H : x = Null \/ v < x}
      /\ \A j \in 1 .. Len(w.seen) - 1 : w.seen[j] < w.seen[j + 1]
      /\ x # Null => C >= n
  BY DEF Walking
<1>2. CASE x = Null
  <2>1. WalkAllTurn(w, gone) = w
    BY <1>2 DEF WalkAllTurn
  <2>2. Walking(w, H, gone, n + 1)
    BY <1>2 DEF Walking
  <2>. QED BY <2>1, <2>2
<1>3. CASE x # Null
  <2>1. PICK sub, ht : Counted(w.t, L, sub, ht)
    BY DEF Walking
  <2>2. /\ x \in H /\ x \in AvlKeys /\ x \notin ToSet(w.seen)
        /\ L \subseteq H /\ L \subseteq AvlKeys /\ x \in L /\ ToSet(w.seen) \in SUBSET AvlKeys
    <3>1. x \in H /\ x \in Nat
      BY <1>0, <1>1, <1>3
    <3>2. x \notin ToSet(w.seen) /\ ToSet(w.seen) \subseteq H
      BY <1>1, <1>3, <3>1
    <3>. QED BY <3>1, <3>2 DEF Left
  <2>3. Shape(w.t, L, sub, Ident)
    BY <2>1 DEF Counted, Search, Tree
  <2>4. Neighbour(L, Ident, x, 1, z)
    BY <2>2, <2>3, WalkIs
  <2>5. \A v \in H : Ident[v] = v /\ v \in Nat
    BY <1>0 DEF Ident
  <2>. HIDE DEF z
  <2>6. /\ z \in L \cup {Null} /\ (z # Null => z > x)
        /\ \A v \in L \ {x, z} : v < x \/ (z # Null /\ v > z)
    BY <2>2, <2>4, <2>5 DEF Neighbour, Side
  <2>7. /\ s \in Seq(AvlKeys) /\ ToSet(s) = ToSet(w.seen) \cup {x}
        /\ \A j \in 1 .. Len(s) - 1 : s[j] < s[j + 1]
    <3>1. \A v \in ToSet(w.seen) : v < x
      BY <1>1, <1>3
    <3>2. x \in AvlKeys
      BY <2>2
    <3>. HIDE DEF x
    <3>. QED BY <1>0, <1>1, <3>1, <3>2, Appended
  <2>. HIDE DEF s
  <2>8. ToSet(s) = {v \in H : z = Null \/ v < z}
    <3>1. ASSUME NEW v \in H PROVE v \in ToSet(s) <=> z = Null \/ v < z
      <4>1. CASE v < x
        <5>1. v \in ToSet(s)
          BY <4>1, <1>1, <2>7
        <5>2. z # Null => v < z
          BY <4>1, <2>2, <2>5, <2>6
        <5>. QED BY <5>1, <5>2
      <4>2. CASE v = x
        BY <4>2, <2>6, <2>7
      <4>3. CASE v > x
        <5>1. v \notin ToSet(w.seen) /\ v # x
          BY <4>3, <1>1, <1>3, <2>2, <2>5
        <5>2. v \in L
          BY <5>1 DEF Left
        <5>3. z # Null /\ ~(v < z)
          <6>1. CASE v = z
            BY <6>1, <2>5, <1>0
          <6>2. CASE v # z
            <7>1. ~(v < x) /\ v \in L \ {x, z}
              BY <4>3, <5>1, <5>2, <6>2, <2>2, <2>5
            <7>2. z # Null /\ v > z
              BY <7>1, <2>6
            <7>3. z \in Nat
              BY <7>2, <2>2, <2>5, <2>6
            <7>. QED BY <7>2, <7>3, <2>5
          <6>. QED BY <6>1, <6>2
        <5>. QED BY <5>1, <5>3, <2>7
      <4>. QED BY <4>1, <4>2, <4>3, <2>2, <2>5
    <3>2. ToSet(s) \subseteq H
      BY <2>2, <2>7, <1>1
    <3>. QED BY <3>1, <3>2
  <2>9. \E sub2, ht2 : Counted(u, Left(H, gone, s), sub2, ht2)
    <3>1. CASE x \in gone
      <4>1. Left(H, gone, s) = L \ {x}
        BY <3>1, <2>7 DEF Left
      <4>2. u = avl_remove(w.t, x)
        BY <3>1
      <4>. HIDE DEF u, x, L
      <4>. QED BY <4>1, <4>2, <2>1, <2>2, RemoveStep
    <3>2. CASE x \notin gone
      <4>1. Left(H, gone, s) = L
        BY <3>2, <2>7 DEF Left
      <4>2. u = w.t
        BY <3>2
      <4>. HIDE DEF u, x, L
      <4>. QED BY <4>1, <4>2, <2>1
    <3>. QED BY <3>1, <3>2
  <2>. HIDE DEF u
  <2>10. Cardinality(ToSet(s)) >= n + 1
    <3>1. Cardinality(ToSet(w.seen) \cup {x}) = C + 1 /\ C \in Nat
      BY <2>2, Sizes
    <3>. HIDE DEF C, x
    <3>. QED BY <3>1, <2>7, <1>1, <1>3
  <2>11. u \in AnyTree /\ z \in Slots /\ z \in H \cup {Null}
    <3>1. u \in AnyTree
      BY <2>9 DEF Counted, Search, Tree, Shape, Linked
    <3>. QED BY <3>1, <2>2, <2>6, <1>0
  <2>12. WalkAllTurn(w, gone) = r
    BY <1>3 DEF WalkAllTurn, z, s, u
  <2>. HIDE DEF x, C, L
  <2>13. r \in Walk /\ r.t = u /\ r.x = z /\ r.seen = s
    BY <2>7, <2>11 DEF Walk
  <2>. HIDE DEF r
  <2>14. Walking(r, H, gone, n + 1)
    BY <2>7, <2>8, <2>9, <2>10, <2>11, <2>13 DEF Walking
  <2>. QED BY <2>12, <2>13, <2>14
<1>. QED BY <1>2, <1>3

\* The walk starts at the smallest node.
LEMMA FirstIs ==
  ASSUME NEW t, NEW H, NEW sub, NEW ht, Search(t, H, sub, ht)
  PROVE  /\ avl_first(t) \in H \cup {Null} /\ (avl_first(t) = Null => H = {})
         /\ \A v \in H : v >= avl_first(t)
<1>1. /\ Shape(t, H, sub, Ident) /\ H \subseteq NodeIds /\ Null \notin H /\ t.root \in H \cup {Null} /\ (t.root = Null => H = {})
      /\ sub[t.root] = H /\ \A v \in H : Ident[v] = v /\ v \in Nat
  BY Names DEF Search, Tree, Shape, Linked, Ordered, Ident
<1>2. CASE t.root = Null
  BY <1>1, <1>2 DEF avl_first
<1>3. CASE t.root # Null
  <2> DEFINE z == Outermost(t, t.root, 0)
  <2>1. avl_first(t) = z
    BY <1>3 DEF avl_first
  <2>2. Outer(t, sub, Ident, t.root, 0, z)
    BY <1>1, <1>3, OuterIs
  <2>. HIDE DEF z
  <2>3. z \in H /\ \A v \in H \ {z} : Side(Ident, v, z, 1 - 0)
    BY <1>1, <2>2 DEF Outer
  <2>4. \A v \in H \ {z} : Side(Ident, v, z, 1)
    BY <2>3
  <2>5. \A v \in H \ {z} : v > z
    BY <1>1, <2>3, <2>4 DEF Side
  <2>. QED BY <1>1, <2>1, <2>3, <2>5
<1>. QED BY <1>2, <1>3

\* avl_walk_all shows every node and leaves those that are not in gone.
LEMMA WalkAllIs ==
  ASSUME NEW t, NEW H, NEW sub, NEW ht, Counted(t, H, sub, ht), NEW gone
  PROVE  LET w == avl_walk_all(t, gone)
         IN  /\ Ascends(w.seen, H)
             /\ \E sub2, ht2 : Counted(w.t, H \ gone, sub2, ht2)
<1> DEFINE first == [t |-> t, x |-> avl_first(t), seen |-> <<>>]
           V == [i \in Nat |-> {s \in Walk : Walking(s, H, gone, i)}]
           F == [s \in Walk |-> WalkAllTurn(s, gone)]
           go[i \in 0 .. Turns] == IF i = 0 THEN first ELSE WalkAllTurn(go[i - 1], gone)
<1>0. /\ Turns \in Nat /\ H \in SUBSET AvlKeys /\ H \subseteq Nat /\ Null \in Slots /\ H \subseteq Slots
      /\ Search(t, H, sub, ht) /\ t \in AnyTree
  BY Names, Finite DEF Counted, Search, Tree, Shape, Linked
<1>0a. Turns = Cardinality(AvlKeys) + 1 /\ IsFiniteSet(AvlKeys) /\ Cardinality(AvlKeys) \in Nat
  BY AvlAssumption, FS_CardinalityType DEF Turns
<1>1. first \in V[0]
  <2> DEFINE z == avl_first(t)
  <2>1. z \in H \cup {Null} /\ (z = Null => H = {}) /\ \A v \in H : v >= z
    BY <1>0, FirstIs
  <2>2. first.t = t /\ first.x = z /\ first.seen = <<>> /\ <<>> \in Seq(AvlKeys) /\ ToSet(<<>>) = {} /\ Len(<<>>) = 0
    BY DEF ToSet
  <2>. HIDE DEF z
  <2>3. first \in Walk
    BY <2>1, <2>2, <1>0 DEF Walk, z
  <2>4. {} = {v \in H : z = Null \/ v < z}
    <3>1. ASSUME NEW v \in H PROVE ~(z = Null \/ v < z)
      <4>1. z # Null /\ z \in Nat /\ v \in Nat /\ v >= z
        BY <2>1, <1>0
      <4>. QED BY <4>1
    <3>. QED BY <3>1
  <2>5. Left(H, gone, <<>>) = H
    BY <2>2 DEF Left
  <2>6. Cardinality({}) >= 0
    BY FS_EmptySet
  <2>. HIDE DEF first
  <2>7. Walking(first, H, gone, 0)
    BY <2>1, <2>2, <2>4, <2>5, <2>6 DEF Walking
  <2>. QED BY <2>3, <2>7
<1>2. ASSUME NEW i \in Nat, NEW s \in V[i] PROVE WalkAllTurn(s, gone) \in V[i + 1]
  <2>1. s \in Walk /\ Walking(s, H, gone, i)
    OBVIOUS
  <2>2. WalkAllTurn(s, gone) \in Walk /\ Walking(WalkAllTurn(s, gone), H, gone, i + 1)
    BY <2>1, <1>0, WalkStep
  <2>. QED BY <2>2
<1>3. ASSUME NEW i \in Nat, NEW s \in V[i] PROVE F[s] = WalkAllTurn(s, gone) /\ F[s] \in V[i + 1]
  <2>1. F[s] = WalkAllTurn(s, gone)
    OBVIOUS
  <2>. HIDE DEF first, V, F
  <2>. QED BY <2>1, <1>2
<1>. HIDE DEF first, V, F
<1>4. PICK g : Loops(g, Turns, first, F, V)
  <2>1. \A i \in 0 .. Turns - 1 : \A s \in V[i] : F[s] \in V[i + 1]
    BY <1>0, <1>3
  <2>. QED BY <2>1, <1>0, <1>1, LoopExists
<1>5. g = [i \in 0 .. Turns |-> IF i = 0 THEN first ELSE WalkAllTurn(g[i - 1], gone)]
  <2>1. ASSUME NEW i \in 0 .. Turns, i # 0 PROVE F[g[i - 1]] = WalkAllTurn(g[i - 1], gone)
    <3>1. i - 1 \in 0 .. Turns /\ i - 1 \in Nat
      BY <2>1, <1>0
    <3>2. g[i - 1] \in V[i - 1]
      BY <3>1, <1>4 DEF Loops
    <3>. QED BY <3>1, <3>2, <1>3
  <2>2. ASSUME NEW i \in 0 .. Turns
        PROVE  (IF i = 0 THEN first ELSE F[g[i - 1]]) = (IF i = 0 THEN first ELSE WalkAllTurn(g[i - 1], gone))
    BY <2>1
  <2>3. [i \in 0 .. Turns |-> IF i = 0 THEN first ELSE F[g[i - 1]]]
          = [i \in 0 .. Turns |-> IF i = 0 THEN first ELSE WalkAllTurn(g[i - 1], gone)]
    BY <2>2, Zenon
  <2>. QED BY <2>3, <1>4, Zenon DEF Loops
<1>6. go = [i \in 0 .. Turns |-> IF i = 0 THEN first ELSE WalkAllTurn(go[i - 1], gone)]
  BY <1>5
<1>7. avl_walk_all(t, gone) = go[Turns]
  BY DEF avl_walk_all, first
<1>. HIDE DEF go
<1>8. go[0] \in V[0] /\ \A i \in 0 .. Turns - 1 : go[i] \in V[i] => go[i + 1] \in V[i + 1]
  <2>1. go[0] = first
    <3>1. 0 \in 0 .. Turns
      BY <1>0
    <3>. QED BY <3>1, <1>6
  <2>2. ASSUME NEW i \in 0 .. Turns - 1, go[i] \in V[i] PROVE go[i + 1] \in V[i + 1]
    <3>1. i \in Nat /\ i + 1 \in 0 .. Turns /\ i + 1 # 0 /\ (i + 1) - 1 = i
      BY <1>0
    <3>2. go[i + 1] = WalkAllTurn(go[(i + 1) - 1], gone)
      BY <3>1, <1>6, Zenon
    <3>3. go[i + 1] = WalkAllTurn(go[i], gone)
      BY <3>1, <3>2
    <3>. QED BY <3>1, <3>3, <2>2, <1>2
  <2>. QED BY <2>1, <2>2, <1>1
<1>9. go[Turns] \in V[Turns] /\ \A i \in 0 .. Turns : go[i] \in V[i]
  BY <1>0, <1>8, LoopEnds
<1> DEFINE w == go[Turns]
<1>10. Walking(w, H, gone, Turns) /\ w \in Walk
  BY <1>0, <1>9 DEF V
<1>. HIDE DEF w
<1>11. ToSet(w.seen) = {v \in H : w.x = Null \/ v < w.x}
  BY <1>10 DEF Walking
<1>12. w.x = Null
  <2>1. SUFFICES ASSUME w.x # Null PROVE FALSE
    OBVIOUS
  <2>2. Cardinality(ToSet(w.seen)) >= Turns
    BY <2>1, <1>10 DEF Walking
  <2>3. Cardinality(ToSet(w.seen)) <= Cardinality(AvlKeys) /\ ToSet(w.seen) \in SUBSET AvlKeys
    BY <1>0, <1>0a, <1>11, FS_Subset
  <2>4. Cardinality(ToSet(w.seen)) \in Nat
    BY <2>3, Sizes
  <2>. QED BY <2>2, <2>3, <2>4, <1>0a
<1>13. ToSet(w.seen) = H
  BY <1>11, <1>12
<1>14. Left(H, gone, w.seen) = H \ gone
  BY <1>13 DEF Left
<1>15. Ascends(w.seen, H)
  BY <1>10, <1>13 DEF Walking, Ascends
<1>16. \E sub2, ht2 : Counted(w.t, H \ gone, sub2, ht2)
  BY <1>10, <1>14 DEF Walking
<1>. QED BY <1>7, <1>15, <1>16 DEF w

\* AvlWalksAll: avl_walk_all shows the callback every node once, in ascending order,
\* whichever of the nodes it is shown the callback removes, and leaves the others in
\* the tree.
THEOREM AvlWalkShowsAll == AvlInit /\ [][AvlNext]_avl => []AvlWalksAll
<1>1. AvlIInv => AvlWalksAll
  <2>1. SUFFICES ASSUME AvlIInv PROVE AvlWalksAll
    OBVIOUS
  <2>2. PICK H, sub, ht : Counted(avl, H, sub, ht)
    BY <2>1 DEF AvlIInv
  <2>3. Held(avl) = H
    BY <2>2, HeldIs DEF Counted, Search, Tree
  <2>4. ASSUME NEW gone
        PROVE  LET w == avl_walk_all(avl, gone)
               IN  /\ Ascends(w.seen, H)
                   /\ Held(w.t) = H \ gone
                   /\ w.t.num = Cardinality(H \ gone)
    <3> DEFINE w == avl_walk_all(avl, gone)
    <3>1. Ascends(w.seen, H) /\ \E sub2, ht2 : Counted(w.t, H \ gone, sub2, ht2)
      BY <2>2, WalkAllIs
    <3>. HIDE DEF w
    <3>2. PICK sub2, ht2 : Counted(w.t, H \ gone, sub2, ht2)
      BY <3>1
    <3>3. Shape(w.t, H \ gone, sub2, Ident) /\ w.t.num = Cardinality(H \ gone)
      BY <3>2 DEF Counted, Search, Tree
    <3>4. Held(w.t) = H \ gone
      BY <3>3, HeldIs
    <3>. QED BY <3>1, <3>3, <3>4 DEF w
  <2>. QED BY <2>3, <2>4, Zenon DEF AvlWalksAll
<1>. QED BY <1>1, AvlInductive, PTL
-----------------------------------------------------------------------------
(***************************************************************************)
(* The destruction of a tree, node by node.                                *)
(***************************************************************************)
\* x has no child.
Leaf(t, x) == \A d \in {0, 1} : Child(t, x, d) = Null

\* ht counts the levels of the nodes of H from one.
Weighs(ht, H) == ht \in [Slots -> Nat] /\ ht[Null] = 0 /\ \A v \in H : ht[v] > 0

\* v is balanced, and ht its level.
Even(t, ht, v) == Level(t, ht, v, ht[Child(t, v, 0)], ht[Child(t, v, 1)])

\* r.node is the leaf below q that is destroyed first.
FirstLeaf(t, sub, q, r) ==
  /\ r.ok /\ r.node \in sub[q] /\ Leaf(t, r.node)
  /\ \A v \in sub[q] : r.node \in sub[Child(t, v, 1)] => Child(t, v, 0) = Null

\* A balanced leftmost node has at most a leaf on its right, which goes first.
LEMMA LeftmostIs ==
  ASSUME NEW t, NEW H, NEW sub, Shape(t, H, sub, Ident), NEW q \in H, NEW ht, Weighs(ht, H),
         \A v \in sub[q] : Even(t, ht, v)
  PROVE  FirstLeaf(t, sub, q, RightSide(t, Outermost(t, q, 0)))
<1> DEFINE z == Outermost(t, q, 0)
           r == Child(t, z, 1)
           s == RightSide(t, z)
<1>0. /\ t \in AnyTree /\ H \subseteq NodeIds /\ Null \notin NodeIds /\ sub[Null] = {} /\ sub[q] \subseteq H
      /\ ht[Null] = 0 /\ \A v \in H : ht[v] > 0 /\ ht[v] \in Nat /\ Ident[v] = v /\ v \in Int
  BY Names DEF Shape, Linked, Ordered, Weighs, Ident
<1>1. /\ z \in sub[q] /\ Child(t, z, 0) = Null /\ z \in H /\ z \in NodeIds
      /\ \A v \in sub[q] \ {z} : v > z
  <2>1. Outer(t, sub, Ident, q, 0, z)
    BY OuterIs
  <2>. HIDE DEF z
  <2>2. z \in sub[q] /\ Child(t, z, 0) = Null /\ \A v \in sub[q] \ {z} : Side(Ident, v, z, 1 - 0)
    BY <2>1 DEF Outer
  <2>3. \A v \in sub[q] \ {z} : Side(Ident, v, z, 1)
    BY <2>2
  <2>4. \A v \in sub[q] \ {z} : v > z
    BY <2>2, <2>3, <1>0 DEF Side
  <2>. QED BY <2>2, <2>4, <1>0
<1>. HIDE DEF z
<1>2. ht[z] = 1 + Larger(0, ht[r]) /\ Bal(t, z) = ht[r] - 0 /\ Bal(t, z) \in {-1, 0, 1}
  <2>1. Level(t, ht, z, ht[Child(t, z, 0)], ht[r])
    BY <1>1 DEF Even
  <2>. QED BY <2>1, <1>0, <1>1 DEF Level
<1>3. CASE r = Null
  <2>1. Bal(t, z) <= 0
    BY <1>2, <1>3, <1>0
  <2>2. s.node = z /\ s.ok
    BY <2>1, <1>3 DEF RightSide
  <2>3. Leaf(t, z)
    BY <1>1, <1>3 DEF Leaf
  <2>4. ASSUME NEW v \in sub[q], z \in sub[Child(t, v, 1)] PROVE FALSE
    <3>1. Side(Ident, z, v, 1) /\ v \in H /\ v # z
      BY <2>4, <1>0, Sides
    <3>2. z > v
      BY <3>1, <1>0, <1>1 DEF Side
    <3>. QED BY <3>1, <3>2, <1>0, <1>1
  <2>. HIDE DEF s
  <2>5. FirstLeaf(t, sub, q, s)
    BY <2>2, <2>3, <2>4, <1>1 DEF FirstLeaf
  <2>. QED BY <2>5 DEF s, z
<1>4. CASE r # Null
  <2>1. r \in H /\ r \in sub[r] /\ sub[r] \subseteq sub[z] /\ sub[z] \subseteq sub[q] /\ r # z
    <3>1. r \in H \cup {Null} /\ r \in sub[r] /\ sub[z] = {z} \cup sub[r] \cup sub[Child(t, z, 1 - 1)] /\ z \notin sub[r]
      BY <1>1, <1>4, Sides
    <3>2. sub[z] \subseteq sub[q]
      BY <1>1, SubUp
    <3>. QED BY <3>1, <3>2, <1>4
  <2>2. ht[r] = 1 /\ Bal(t, z) = 1
    BY <2>1, <1>0, <1>2
  <2>3. Leaf(t, r)
    <3>1. Level(t, ht, r, ht[Child(t, r, 0)], ht[Child(t, r, 1)])
      BY <2>1 DEF Even
    <3>2. ASSUME NEW d \in {0, 1} PROVE ht[Child(t, r, d)] \in Nat /\ (ht[Child(t, r, d)] = 0 => Child(t, r, d) = Null)
      <4>1. Child(t, r, d) \in H \cup {Null}
        BY <2>1, Sides
      <4>. QED BY <4>1, <1>0
    <3>3. ht[Child(t, r, 0)] \in Nat /\ ht[Child(t, r, 1)] \in Nat
      BY <3>2
    <3>4. ht[Child(t, r, 0)] = 0 /\ ht[Child(t, r, 1)] = 0
      <4>. HIDE DEF r
      <4>. QED BY <2>2, <3>1, <3>3 DEF Level, Larger
    <3>5. Child(t, r, 0) = Null /\ Child(t, r, 1) = Null
      BY <3>2, <3>4
    <3>. QED BY <3>5 DEF Leaf
  <2>4. t.node[r].child = <<Null, Null>>
    <3>1. t.node[r].child \in [1 .. 2 -> Slots]
      BY <1>0, <2>1 DEF AnyTree, AnyNode
    <3>2. t.node[r].child[0 + 1] = Null /\ t.node[r].child[1 + 1] = Null
      BY <2>3 DEF Leaf, Child
    <3>. QED BY <3>1, <3>2
  <2>5. s.node = r /\ s.ok
    BY <2>2, <2>4, <1>4 DEF RightSide
  <2>6. ASSUME NEW v \in sub[q], r \in sub[Child(t, v, 1)] PROVE Child(t, v, 0) = Null
    <3>1. CASE v = z
      BY <3>1, <1>1
    <3>2. CASE v # z
      <4>1. v > z /\ v \in H
        BY <3>2, <1>0, <1>1
      <4>2. Child(t, v, 1) \in H /\ (Parent(t, r) \in sub[Child(t, v, 1)] \/ Parent(t, r) = v)
        BY <2>1, <2>6, <4>1, Above
      <4>3. Parent(t, r) = z
        <5>1. Linked(t, H) /\ Child(t, z, 1) = r
          BY DEF Shape
        <5>. QED BY <5>1, <1>1, <2>1 DEF Linked
      <4>4. z \in sub[Child(t, v, 1)]
        BY <3>2, <4>2, <4>3
      <4>5. Side(Ident, z, v, 1)
        BY <4>1, <4>4, Sides
      <4>6. z > v
        BY <4>1, <4>5, <1>0, <1>1 DEF Side
      <4>. QED BY <4>1, <4>6, <1>0, <1>1
    <3>. QED BY <3>1, <3>2
  <2>. HIDE DEF s, r
  <2>7. FirstLeaf(t, sub, q, s)
    BY <2>1, <2>3, <2>5, <2>6 DEF FirstLeaf
  <2>. QED BY <2>7 DEF s, z
<1>. QED BY <1>3, <1>4

\* The tree without the leaf x.
Unlinked(t, x) == [t EXCEPT !.node[Parent(t, x)].child[Which(t, x) + 1] = Null, !.num = @ - 1]

\* To unlink a leaf is to cut it out and leave the balances alone.
LEMMA UnlinkIs ==
  ASSUME NEW t, NEW H, NEW sub, Shape(t, H, sub, Ident), NEW x \in H, Leaf(t, x), Parent(t, x) # Null
  PROVE  CutAt(Unlinked(t, x), t, H, sub, Ident, x, 0) /\ Unlinked(t, x).num = t.num - 1
<1> DEFINE p == Parent(t, x)
           w == Which(t, x)
           n == t.num - 1
           less == [t EXCEPT !.num = n]
           N == [t.node EXCEPT ![p].child[w + 1] = Null]
           a == Attach(less, p, w, Null)
<1>0. t \in AnyTree /\ x \in NodeIds /\ Null \in Slots /\ Null \notin NodeIds /\ p \in H
  BY Names DEF Shape, Linked
<1>1. p \in Slots /\ w \in {0, 1}
  BY <1>0, Fields
<1>2. less \in AnyTree /\ less.num = n /\ less.root = t.root /\ less.node = t.node
  <2>1. n \in Int
    BY <1>0 DEF AnyTree
  <2>. QED BY <1>0, <2>1 DEF AnyTree
<1>3. \A y \in NodeIds :
        /\ Parent(less, y) = Parent(t, y) /\ Which(less, y) = Which(t, y) /\ Bal(less, y) = Bal(t, y)
        /\ \A e \in {0, 1} : Child(less, y, e) = Child(t, y, e)
  BY <1>2 DEF Parent, Which, Bal, Child
<1>4. t = [root |-> t.root, num |-> t.num, node |-> t.node]
  BY <1>0 DEF AnyTree
<1>5. Unlinked(t, x) = [root |-> t.root, num |-> n, node |-> N]
  <2> DEFINE v == [t EXCEPT !.node = N]
  <2>1. v = [root |-> t.root, num |-> t.num, node |-> N]
    <3>. HIDE DEF N
    <3>. QED BY <1>4
  <2>2. Unlinked(t, x) = [v EXCEPT !.num = n]
    BY DEF Unlinked
  <2>. HIDE DEF v, N, n
  <2>. QED BY <2>1, <2>2
<1>6. a = [less EXCEPT !.node[p].child[w + 1] = Null]
  <2>1. Adopt(less, p, w, Null) = less
    BY DEF Adopt
  <2>. HIDE DEF less, p, w
  <2>2. p # Null
    BY DEF p
  <2>. QED BY <2>1, <2>2 DEF Attach
<1>7. less = [root |-> t.root, num |-> n, node |-> t.node]
  BY <1>4
<1>. HIDE DEF less, a
<1>8. a = [root |-> t.root, num |-> n, node |-> N]
  BY <1>6, <1>7
<1>9. Unlinked(t, x) = a
  BY <1>5, <1>8
<1>10. Attached(a, less, p, w, Null)
  BY <1>0, <1>1, <1>2, AttachIs DEF a
<1>11. Child(t, x, 0) = Null /\ Child(t, x, 1 - 0) = Null
  BY DEF Leaf
<1>. HIDE DEF p, w, n, N
<1>12. CutAt(a, t, H, sub, Ident, x, 0)
  BY <1>0, <1>2, <1>3, <1>10, <1>11 DEF CutAt, Attached, p, w
<1>13. a.num = n
  BY <1>8
<1>. QED BY <1>9, <1>12, <1>13 DEF n

\* R is left of the tree t0 on H, and y the leaf that was returned and is unlinked
\* next: the nodes that are not above y are still balanced, and where y is on the
\* right the left side is gone.
Unlinking(t, y, t0, H, ht, R, sub) ==
  /\ Shape(t, R, sub, Ident) /\ R \subseteq H /\ H \subseteq AvlKeys /\ t.num = Cardinality(R)
  /\ Weighs(ht, R) /\ y \in R /\ Leaf(t, y)
  /\ \A v \in R : y \notin sub[v] => Even(t, ht, v)
  /\ \A v \in R : y \in sub[Child(t, v, 1)] => Child(t, v, 0) = Null
  /\ \A v \in R : Parent(t, v) = Parent(t0, v)

\* The links without the leaf x.
LEMMA UnlinkedLinks ==
  ASSUME NEW t, NEW H, NEW sub, Shape(t, H, sub, Ident), NEW x \in H, Leaf(t, x), Parent(t, x) # Null
  PROVE  LET u == Unlinked(t, x)
             p == Parent(t, x)
         IN  /\ Shape(u, H \ {x}, Without(sub, x), Ident) /\ u.num = t.num - 1
             /\ p \in H \ {x} /\ Child(u, p, Which(t, x)) = Null /\ Which(t, x) \in {0, 1}
             /\ x \in sub[Child(t, p, Which(t, x))]
             /\ \A v \in H \ {x} : /\ Parent(u, v) = Parent(t, v) /\ Bal(u, v) = Bal(t, v)
                                   /\ \A e \in {0, 1} : v # p \/ e # Which(t, x) => Child(u, v, e) = Child(t, v, e)
             /\ \A v \in H : x \in sub[v] /\ v # x => p \in sub[v]
<1> DEFINE u == Unlinked(t, x)
           p == Parent(t, x)
           w == Which(t, x)
           G == H \ {x}
<1>0. H \subseteq NodeIds /\ Null \notin NodeIds /\ Child(t, x, 0) = Null /\ x \in sub[x]
  <2>1. H \subseteq NodeIds /\ Null \notin NodeIds /\ Child(t, x, 0) = Null
    BY Names DEF Shape, Linked, Leaf
  <2>2. x \in sub[x]
    BY Sides
  <2>. QED BY <2>1, <2>2
<1>1. CutAt(u, t, H, sub, Ident, x, 0) /\ u.num = t.num - 1
  BY UnlinkIs
<1>2. p \in H /\ w \in {0, 1} /\ Child(t, p, w) = x /\ p \notin sub[x]
  BY Up
<1>3. p \in G /\ x \in sub[Child(t, p, w)]
  BY <1>0, <1>2
<1>. HIDE DEF u
<1>4. Shape(u, G, Without(sub, x), Ident)
  <2>1. Linked(u, G) /\ Ordered(u, G, Without(sub, x), Ident)
    BY <1>1, CutLinked, CutOrdered
  <2>. QED BY <2>1 DEF Shape
<1>5. CutLinks(u, t, H, x, 0)
  BY <1>1, CutOrdered
<1>6. Child(u, p, w) = Null
  BY <1>0, <1>2, <1>3, <1>5 DEF CutLinks
<1>7. ASSUME NEW v \in G
      PROVE  /\ Parent(u, v) = Parent(t, v) /\ Bal(u, v) = Bal(t, v)
             /\ \A e \in {0, 1} : v # p \/ e # w => Child(u, v, e) = Child(t, v, e)
  <2>1. Parent(u, v) = Parent(t, v) /\ Bal(u, v) = Bal(t, v)
    BY <1>0, <1>1 DEF CutAt
  <2>2. \A e \in {0, 1} : v # p \/ e # w => Child(u, v, e) = Child(t, v, e)
    BY <1>5 DEF CutLinks
  <2>. QED BY <2>1, <2>2
<1>8. \A v \in H : x \in sub[v] /\ v # x => p \in sub[v]
  BY SubUp
<1>. HIDE DEF p, w, G
<1>9. /\ Shape(u, G, Without(sub, x), Ident) /\ u.num = t.num - 1
      /\ p \in G /\ Child(u, p, w) = Null /\ w \in {0, 1}
      /\ x \in sub[Child(t, p, w)]
  BY <1>1, <1>2, <1>3, <1>4, <1>6
<1>. QED BY <1>7, <1>8, <1>9 DEF u, p, w, G

\* What DestroyNext does: x is unlinked, and y, below its parent, is next.
Advances(u, y, t, x, t0, H, ht, R, sub) ==
  /\ Unlinking(t, x, t0, H, ht, R, sub) /\ Parent(t, x) # Null /\ u = Unlinked(t, x)
  /\ y \in Without(sub, x)[Parent(t, x)] /\ Leaf(u, y)
  /\ \A v \in R \ {x} : y \in Without(sub, x)[Child(u, v, 1)] => Child(u, v, 0) = Null

\* The nodes that are not above the next leaf are balanced.
LEMMA AdvancesOn ==
  ASSUME NEW u, NEW y, NEW t, NEW x, NEW t0, NEW H, NEW ht, NEW R, NEW sub,
         Advances(u, y, t, x, t0, H, ht, R, sub)
  PROVE  Unlinking(u, y, t0, H, ht, R \ {x}, Without(sub, x)) /\ t.num > 1
<1> DEFINE p == Parent(t, x)
           w == Which(t, x)
           G == R \ {x}
           sb == Without(sub, x)
<1>0. /\ Shape(t, R, sub, Ident) /\ R \in SUBSET AvlKeys /\ R \subseteq H /\ H \subseteq AvlKeys /\ t.num = Cardinality(R)
      /\ Weighs(ht, R) /\ x \in R /\ Leaf(t, x) /\ p # Null /\ u = Unlinked(t, x)
      /\ R \subseteq Slots
  BY Names DEF Advances, Unlinking
<1>1. /\ Shape(u, G, sb, Ident) /\ u.num = t.num - 1 /\ p \in G
      /\ \A v \in G : /\ Parent(u, v) = Parent(t, v) /\ Bal(u, v) = Bal(t, v)
                      /\ \A e \in {0, 1} : v # p \/ e # w => Child(u, v, e) = Child(t, v, e)
      /\ \A v \in R : x \in sub[v] /\ v # x => p \in sub[v]
  BY <1>0, UnlinkedLinks
<1>2. /\ y \in sb[p] /\ Leaf(u, y)
      /\ \A v \in G : y \in sb[Child(u, v, 1)] => Child(u, v, 0) = Null
      /\ \A v \in R : x \notin sub[v] => Even(t, ht, v)
      /\ \A v \in R : Parent(t, v) = Parent(t0, v)
  BY DEF Advances, Unlinking
<1>3. \A v \in G : sb[v] = sub[v] \ {x}
  BY <1>0 DEF Without
<1>. HIDE DEF p, sb, G
<1>4. y \in sub[p] /\ y # x /\ y \in G
  <2>1. sb[p] \subseteq G
    BY <1>1 DEF Shape, Ordered
  <2>. QED BY <2>1, <1>1, <1>2, <1>3
<1>5. ASSUME NEW v \in G, y \notin sb[v] PROVE Even(u, ht, v)
  <2>1. v \in R /\ v # x /\ y \notin sub[v]
    BY <1>3, <1>4, <1>5 DEF G
  <2>2. x \notin sub[v]
    <3>1. SUFFICES ASSUME x \in sub[v] PROVE FALSE
      OBVIOUS
    <3>2. p \in sub[v]
      BY <2>1, <3>1, <1>1
    <3>3. sub[p] \subseteq sub[v]
      BY <2>1, <3>2, <1>0, SubUp
    <3>. QED BY <2>1, <3>3, <1>4
  <2>3. v # p
    BY <2>1, <1>4
  <2>4. Even(t, ht, v)
    BY <2>1, <2>2, <1>2
  <2>5. Child(u, v, 0) = Child(t, v, 0) /\ Child(u, v, 1) = Child(t, v, 1) /\ Bal(u, v) = Bal(t, v)
    BY <2>3, <1>1
  <2>. QED BY <2>4, <2>5 DEF Even, Level
<1>6. Cardinality(G) = t.num - 1 /\ t.num > 1
  <2>1. Cardinality(G) = Cardinality(R) - 1 /\ Cardinality(R) \in Nat
    BY <1>0, Sizes DEF G
  <2>2. G \in SUBSET AvlKeys
    BY <1>0 DEF G
  <2>3. Cardinality(G \ {p}) = Cardinality(G) - 1
    BY <2>2, <1>1, Sizes
  <2>4. Cardinality(G \ {p}) \in Nat
    <3>1. G \ {p} \in SUBSET AvlKeys
      BY <2>2
    <3>. QED BY <3>1, Sizes
  <2>. QED BY <2>1, <2>3, <2>4, <1>0
<1>7. Weighs(ht, G) /\ G \subseteq H
  BY <1>0 DEF Weighs, G
<1>8. \A v \in G : Parent(u, v) = Parent(t0, v)
  BY <1>1, <1>2 DEF G
<1>9. Unlinking(u, y, t0, H, ht, G, sb)
  BY <1>0, <1>1, <1>2, <1>4, <1>5, <1>6, <1>7, <1>8 DEF Unlinking
<1>. QED BY <1>6, <1>9 DEF G, sb

\* The call after the leaf x was returned: x is unlinked, and the next leaf found.
LEMMA DestroyNextIs ==
  ASSUME NEW t, NEW x, NEW t0, NEW H, NEW ht, NEW R, NEW sub,
         Unlinking(t, x, t0, H, ht, R, sub), Parent(t, x) # Null
  PROVE  LET d == DestroyNext(t, x)
         IN  d.ok /\ Unlinking(d.t, d.node, t0, H, ht, R \ {x}, Without(sub, x))
<1> DEFINE p == Parent(t, x)
           w == Which(t, x)
           u == Unlinked(t, x)
           G == R \ {x}
           sb == Without(sub, x)
           q == Child(u, p, 1)
           r == RightSide(u, Outermost(u, q, 0))
           d == DestroyNext(t, x)
<1>0. /\ Shape(t, R, sub, Ident) /\ x \in R /\ Leaf(t, x) /\ R \subseteq Slots /\ Weighs(ht, R)
      /\ \A v \in R : x \notin sub[v] => Even(t, ht, v)
      /\ \A v \in R : x \in sub[Child(t, v, 1)] => Child(t, v, 0) = Null
      /\ R \subseteq NodeIds /\ Null \notin NodeIds /\ sub[Null] = {} /\ Null \in Slots
  BY Names DEF Unlinking, Shape, Linked, Ordered
<1>1. /\ Shape(u, G, sb, Ident) /\ p \in G /\ Child(u, p, w) = Null /\ w \in {0, 1} /\ x \in sub[Child(t, p, w)]
      /\ \A v \in G : /\ Bal(u, v) = Bal(t, v)
                      /\ \A e \in {0, 1} : v # p \/ e # w => Child(u, v, e) = Child(t, v, e)
      /\ \A v \in R : x \in sub[v] /\ v # x => p \in sub[v]
  BY <1>0, UnlinkedLinks
<1>2. d = IF w = 1 \/ q = Null THEN [t |-> u, node |-> p, ok |-> t.num > 1]
          ELSE [t |-> u, node |-> r.node, ok |-> t.num > 1 /\ r.ok]
  BY DEF DestroyNext, Unlinked
<1>3. \A v \in Slots : sb[v] = sub[v] \ {x}
  BY DEF Without
<1>3a. sb[Null] = {} /\ G \subseteq R /\ p \in R /\ p # x
  BY <1>0, <1>1, <1>3
<1>. HIDE DEF d, u, sb, r, q, p, w
<1>4. ASSUME NEW y, y \in sb[p], Leaf(u, y), \A v \in G : y \in sb[Child(u, v, 1)] => Child(u, v, 0) = Null
      PROVE  Unlinking(u, y, t0, H, ht, G, sb) /\ t.num > 1
  <2>1. Advances(u, y, t, x, t0, H, ht, R, sub)
    BY <1>4 DEF Advances, u, p, sb
  <2>. QED BY <2>1, AdvancesOn DEF sb
<1>5. CASE w = 1 \/ q = Null
  <2>1. Child(u, p, 0) = Null /\ Child(u, p, 1) = Null
    <3>1. CASE w = 1
      <4>1. Child(t, p, 0) = Null
        BY <3>1, <1>0, <1>1, <1>3a
      <4>. QED BY <3>1, <4>1, <1>1
    <3>2. CASE w = 0
      BY <3>2, <1>1, <1>5 DEF q
    <3>. QED BY <3>1, <3>2, <1>1
  <2>2. Leaf(u, p)
    BY <2>1 DEF Leaf
  <2>3. p \in sb[p]
    BY <1>1, Sides
  <2>4. ASSUME NEW v \in G, p \in sb[Child(u, v, 1)] PROVE Child(u, v, 0) = Null
    <3>1. v # p
      BY <2>4, <1>1, Sides
    <3>2. Child(u, v, 0) = Child(t, v, 0) /\ Child(u, v, 1) = Child(t, v, 1)
      BY <3>1, <1>1
    <3>3. Child(t, v, 1) \in R \cup {Null}
      BY <1>0, <1>3a, Sides
    <3>4. Child(t, v, 1) \in R /\ p \in sub[Child(t, v, 1)]
      BY <2>4, <3>2, <3>3, <1>0, <1>3, <1>3a
    <3>5. sub[p] \subseteq sub[Child(t, v, 1)]
      BY <3>4, <1>0, SubUp
    <3>6. x \in sub[p]
      <4>1. sub[p] = {p} \cup sub[Child(t, p, w)] \cup sub[Child(t, p, 1 - w)]
        BY <1>0, <1>1, <1>3a, Sides
      <4>. QED BY <4>1, <1>1
    <3>7. Child(t, v, 0) = Null
      BY <3>5, <3>6, <1>0, <1>3a
    <3>. QED BY <3>2, <3>7
  <2>5. Unlinking(u, p, t0, H, ht, G, sb) /\ t.num > 1
    BY <2>2, <2>3, <2>4, <1>4
  <2>6. d = [t |-> u, node |-> p, ok |-> t.num > 1]
    BY <1>2, <1>5
  <2>7. d.ok /\ Unlinking(d.t, d.node, t0, H, ht, G, sb)
    BY <2>5, <2>6
  <2>. QED BY <2>7 DEF d, sb
<1>6. CASE w = 0 /\ q # Null
  <2>1. q \in G /\ sb[q] \subseteq sb[p] /\ sb[p] = {p} \cup sb[q] /\ p \notin sb[q]
    <3>1. /\ q \in G \cup {Null} /\ sb[p] = {p} \cup sb[q] \cup sb[Child(u, p, 1 - 1)] /\ p \notin sb[q]
      BY <1>1, Sides DEF q
    <3>. QED BY <3>1, <1>1, <1>3a, <1>6
  <2>2. /\ x \in sub[Child(t, p, 0)] /\ q = Child(t, p, 1) /\ Child(u, p, 0) = Null
        /\ \A v \in sub[q] : x \notin sub[v]
    <3>1. x \in sub[Child(t, p, 0)] /\ q = Child(t, p, 1) /\ Child(u, p, 0) = Null
      BY <1>1, <1>6 DEF q
    <3>2. x \notin sub[q]
      <4>1. x \notin sub[Child(t, p, 1 - 0)]
        BY <3>1, <1>0, <1>3a, Sides
      <4>. QED BY <4>1, <3>1
    <3>3. \A v \in sub[q] : sub[v] \subseteq sub[q]
      BY <2>1, <1>0, <1>3a, SubUp
    <3>. QED BY <3>1, <3>2, <3>3
  <2>3. ASSUME NEW v \in sb[q] PROVE Even(u, ht, v)
    <3>1. v \in G /\ v # p /\ v \in sub[q]
      <4>1. v # p /\ v \in sub[q]
        BY <2>1, <2>3, <1>0, <1>3, <1>3a
      <4>2. sb[q] \subseteq G
        BY <2>1, <1>1, Sides
      <4>. QED BY <4>1, <4>2, <2>3
    <3>2. Even(t, ht, v)
      BY <3>1, <2>2, <1>0, <1>3a
    <3>3. Child(u, v, 0) = Child(t, v, 0) /\ Child(u, v, 1) = Child(t, v, 1) /\ Bal(u, v) = Bal(t, v)
      BY <3>1, <1>1
    <3>. QED BY <3>2, <3>3 DEF Even, Level
  <2>4. FirstLeaf(u, sb, q, r)
    <3>1. Weighs(ht, G)
      BY <1>0, <1>3a DEF Weighs
    <3>. QED BY <3>1, <2>1, <2>3, <1>1, LeftmostIs DEF r
  <2> DEFINE y == r.node
  <2>5. /\ r.ok /\ y \in sb[q] /\ Leaf(u, y)
        /\ \A v \in sb[q] : y \in sb[Child(u, v, 1)] => Child(u, v, 0) = Null
    BY <2>4 DEF FirstLeaf
  <2>. HIDE DEF y
  <2>6. /\ \A v \in R : Ident[v] = v /\ v \in Int
        /\ y \in R /\ y \in sub[q] /\ y \in sub[p] /\ y > p /\ q \in R /\ y # x
    <3>1. sb[q] = sub[q] \ {x} /\ sb[p] = sub[p] \ {x} /\ sb[q] \subseteq G /\ q \in R
      BY <2>1, <1>0, <1>1, <1>3, <1>3a, Sides
    <3>2. y \in R /\ y \in sub[q] /\ y \in sub[p] /\ y # x
      BY <3>1, <2>1, <2>5, <1>3a
    <3>3. Side(Ident, y, p, 1)
      BY <3>2, <2>2, <1>0, <1>3a, Sides
    <3>4. \A v \in R : Ident[v] = v /\ v \in Int
      BY <1>0, Names DEF Ident
    <3>5. y > p
      BY <3>2, <3>3, <3>4, <1>3a DEF Side
    <3>. QED BY <3>1, <3>2, <3>4, <3>5
  <2>7. ASSUME NEW v \in G, y \in sb[Child(u, v, 1)] PROVE Child(u, v, 0) = Null
    <3>1. CASE v = p
      BY <3>1, <2>2
    <3>2. CASE v # p /\ p \in sub[v]
      <4> DEFINE e == Child(t, v, 1)
      <4>1. Child(u, v, 0) = Child(t, v, 0) /\ Child(u, v, 1) = e /\ v \in R
        BY <3>2, <1>1, <1>3a
      <4>2. /\ e \in R \cup {Null} /\ sub[v] = {v} \cup sub[e] \cup sub[Child(t, v, 1 - 1)]
            /\ \A a \in sub[e] : a \notin sub[Child(t, v, 1 - 1)]
        BY <4>1, <1>0, Sides
      <4>. HIDE DEF e
      <4>3. e \in R /\ y \in sub[e]
        BY <2>7, <4>1, <4>2, <1>0, <1>3, <1>3a
      <4>4. p \in sub[e]
        <5>1. SUFFICES ASSUME p \notin sub[e] PROVE FALSE
          OBVIOUS
        <5>2. p \in sub[Child(t, v, 0)]
          BY <5>1, <4>2, <3>2
        <5>3. Child(t, v, 0) \in R
          <6>1. Child(t, v, 0) \in R \cup {Null}
            BY <4>1, <1>0, Sides
          <6>. QED BY <6>1, <5>2, <1>0
        <5>4. sub[p] \subseteq sub[Child(t, v, 0)]
          BY <5>2, <5>3, <1>0, SubUp
        <5>. QED BY <5>4, <4>2, <4>3, <2>6
      <4>5. sub[p] \subseteq sub[e]
        BY <4>3, <4>4, <1>0, SubUp
      <4>6. x \in sub[p]
        <5>1. sub[p] = {p} \cup sub[Child(t, p, 0)] \cup sub[Child(t, p, 1 - 0)]
          BY <1>0, <1>3a, Sides
        <5>. QED BY <5>1, <2>2
      <4>7. Child(t, v, 0) = Null
        BY <4>1, <4>5, <4>6, <1>0 DEF e
      <4>. QED BY <4>1, <4>7
    <3>3. CASE v # p /\ p \notin sub[v]
      <4>1. Child(u, v, 1) = Child(t, v, 1) /\ v \in R
        BY <3>3, <1>1, <1>3a
      <4>2. Child(t, v, 1) \in R \cup {Null} /\ sub[v] = {v} \cup sub[Child(t, v, 1)] \cup sub[Child(t, v, 1 - 1)]
        BY <4>1, <1>0, Sides
      <4>3. y \in sub[Child(t, v, 1)] /\ y \in sub[v] /\ v \in sub[v]
        BY <2>7, <4>1, <4>2, <1>0, <1>3, <1>3a
      <4>4. Side(Ident, y, v, 1)
        BY <4>1, <4>3, <1>0, Sides
      <4>5. y > v
        BY <4>1, <4>4, <2>6 DEF Side
      <4>6. v > p
        <5>1. PICK d2 \in {0, 1} : \A a \in sub[v] : Side(Ident, p, a, d2)
          BY <4>1, <3>3, <1>0, <1>3a, Apart
        <5>2. Side(Ident, p, y, d2) /\ Side(Ident, p, v, d2)
          BY <5>1, <4>3
        <5>. QED BY <5>2, <4>1, <2>6, <1>3a DEF Side
      <4>7. v \in sub[p]
        <5>1. SUFFICES ASSUME v \notin sub[p] PROVE FALSE
          OBVIOUS
        <5>2. PICK d2 \in {0, 1} : \A a \in sub[p] : Side(Ident, v, a, d2)
          BY <5>1, <4>1, <1>0, <1>3a, Apart
        <5>3. p \in sub[p]
          BY <1>0, <1>3a, Sides
        <5>4. Side(Ident, v, y, d2) /\ Side(Ident, v, p, d2)
          BY <5>2, <5>3, <2>6
        <5>. QED BY <5>4, <4>1, <4>5, <4>6, <2>6, <1>3a DEF Side
      <4>8. v \in sb[p] /\ v \in sb[q]
        BY <4>7, <3>3, <2>1, <1>0, <1>3, <1>3a
      <4>. QED BY <4>8, <2>5, <2>7
    <3>. QED BY <3>1, <3>2, <3>3
  <2>8. Unlinking(u, y, t0, H, ht, G, sb) /\ t.num > 1
    <3>1. y \in sb[p]
      BY <2>1, <2>5
    <3>. QED BY <3>1, <2>5, <2>7, <1>4
  <2>9. d = [t |-> u, node |-> y, ok |-> t.num > 1 /\ r.ok]
    BY <1>2, <1>6 DEF y
  <2>10. d.ok /\ Unlinking(d.t, d.node, t0, H, ht, G, sb)
    BY <2>5, <2>8, <2>9
  <2>. QED BY <2>10 DEF d, sb
<1>. QED BY <1>1, <1>5, <1>6

\* seen holds the nodes of S, once each, and none comes after its parent.
Returned(seen, t, S) ==
  /\ seen \in Seq(AvlKeys) /\ ToSet(seen) = S /\ Len(seen) = Cardinality(S)
  /\ \A x \in S : \E i \in DOMAIN seen : seen[i] = x /\ \A j \in 1 .. i - 1 : seen[j] # Parent(t, x)

\* One more node, whose parent was not returned.
LEMMA ReturnedOn ==
  ASSUME NEW seen, NEW t, NEW S \in SUBSET AvlKeys, Returned(seen, t, S), NEW x \in AvlKeys \ S,
         Parent(t, x) \notin S
  PROVE  Returned(Append(seen, x), t, S \cup {x})
<1> DEFINE s == Append(seen, x)
<1>1. /\ seen \in Seq(AvlKeys) /\ s \in Seq(AvlKeys) /\ Len(s) = Len(seen) + 1 /\ Len(seen) \in Nat
      /\ \A j \in 1 .. Len(s) : s[j] = IF j <= Len(seen) THEN seen[j] ELSE x
  BY DEF Returned
<1>. HIDE DEF s
<1>2. DOMAIN s = 1 .. Len(seen) + 1 /\ DOMAIN seen = 1 .. Len(seen)
  BY <1>1
<1>3. \A j \in DOMAIN seen : j \in DOMAIN s /\ s[j] = seen[j] /\ s[j] \in S
  <2>1. \A j \in DOMAIN seen : seen[j] \in S
    BY DEF Returned, ToSet
  <2>. QED BY <2>1, <1>1, <1>2
<1>4. Len(seen) + 1 \in DOMAIN s /\ s[Len(seen) + 1] = x
  BY <1>1, <1>2
<1>5. \A j \in DOMAIN s : j \in DOMAIN seen \/ j = Len(seen) + 1
  BY <1>1, <1>2
<1>6. ToSet(s) = S \cup {x}
  <2>1. ASSUME NEW v \in S PROVE v \in ToSet(s)
    <3>1. PICK j \in DOMAIN seen : v = seen[j]
      BY <2>1 DEF Returned, ToSet
    <3>. QED BY <3>1, <1>3 DEF ToSet
  <2>2. x \in ToSet(s)
    BY <1>4 DEF ToSet
  <2>3. ASSUME NEW v \in ToSet(s) PROVE v \in S \cup {x}
    <3>1. PICK j \in DOMAIN s : v = s[j]
      BY <2>3 DEF ToSet
    <3>. QED BY <3>1, <1>3, <1>4, <1>5
  <2>. QED BY <2>1, <2>2, <2>3
<1>7. Len(s) = Cardinality(S \cup {x})
  <2>1. Cardinality(S \cup {x}) = Cardinality(S) + 1
    BY Sizes
  <2>. QED BY <2>1, <1>1 DEF Returned
<1>8. ASSUME NEW v \in S \cup {x}
      PROVE  \E i \in DOMAIN s : s[i] = v /\ \A j \in 1 .. i - 1 : s[j] # Parent(t, v)
  <2>1. CASE v \in S
    <3>1. PICK i \in DOMAIN seen : seen[i] = v /\ \A j \in 1 .. i - 1 : seen[j] # Parent(t, v)
      BY <2>1 DEF Returned
    <3>2. \A j \in 1 .. i - 1 : j \in DOMAIN seen
      BY <3>1, <1>1, <1>2
    <3>. QED BY <3>1, <3>2, <1>3
  <2>2. CASE v = x
    <3>1. \A j \in 1 .. (Len(seen) + 1) - 1 : j \in DOMAIN seen
      BY <1>1, <1>2
    <3>2. \A j \in 1 .. (Len(seen) + 1) - 1 : s[j] # Parent(t, v)
      BY <3>1, <2>2, <1>3
    <3>. QED BY <3>2, <2>2, <1>4
  <2>. QED BY <2>1, <2>2
<1>. QED BY <1>1, <1>6, <1>7, <1>8 DEF Returned, s

\* The states of the caller's loop around avl_destroy_nodes.
Destruction == [t : AnyTree, node : Slots, seen : Seq(AvlKeys), ok : BOOLEAN]

\* After n calls: the nodes outside R were returned, or all of them were.
Destroying(s, t0, H, ht, n) ==
  /\ s.ok
  /\ IF s.node = Null THEN Returned(s.seen, t0, H)
     ELSE /\ \E R, sub : Unlinking(s.t, s.node, t0, H, ht, R, sub) /\ Returned(s.seen, t0, H \ R)
          /\ Len(s.seen) >= n

\* One call keeps this.
LEMMA DestroyStep ==
  ASSUME NEW t0, NEW H \in SUBSET AvlKeys, NEW ht, NEW n \in Nat, NEW s \in Destruction,
         Destroying(s, t0, H, ht, n)
  PROVE  DestroyTurn(s) \in Destruction /\ Destroying(DestroyTurn(s), t0, H, ht, n + 1)
<1> DEFINE x == s.node
           d == DestroyNext(s.t, x)
           e == Append(s.seen, x)
<1>0. s.t \in AnyTree /\ x \in Slots /\ s.seen \in Seq(AvlKeys) /\ s.ok \in BOOLEAN /\ s.ok /\ Null \in Slots
  BY Names DEF Destruction, Destroying
<1>1. CASE x = Null
  <2>1. DestroyTurn(s) = s
    BY <1>1 DEF DestroyTurn
  <2>2. Destroying(s, t0, H, ht, n + 1)
    BY <1>1 DEF Destroying
  <2>. QED BY <2>1, <2>2
<1>2. CASE x # Null
  <2>1. PICK R, sub : Unlinking(s.t, x, t0, H, ht, R, sub) /\ Returned(s.seen, t0, H \ R)
    BY <1>2 DEF Destroying
  <2>2. /\ Shape(s.t, R, sub, Ident) /\ R \subseteq H /\ s.t.num = Cardinality(R) /\ x \in R /\ Leaf(s.t, x)
        /\ Parent(s.t, x) = Parent(t0, x) /\ Null \notin R /\ Null \notin H /\ x \in AvlKeys \ (H \ R)
        /\ H \ R \in SUBSET AvlKeys /\ Len(s.seen) >= n /\ Len(s.seen) \in Nat
    <3>1. Null \notin R /\ Null \notin H
      BY <2>1, Names DEF Unlinking, Shape, Linked
    <3>2. Len(s.seen) >= n /\ Len(s.seen) \in Nat
      BY <1>0, <1>2 DEF Destroying
    <3>. QED BY <2>1, <3>1, <3>2 DEF Unlinking
  <2>3. Parent(s.t, x) \in R \cup {Null} /\ (Parent(s.t, x) = Null <=> x = s.t.root)
    BY <2>2, Up
  <2>4. Returned(e, t0, (H \ R) \cup {x})
    <3>1. Parent(t0, x) \notin H \ R
      BY <2>2, <2>3
    <3>. HIDE DEF e, x
    <3>2. Returned(Append(s.seen, x), t0, (H \ R) \cup {x})
      BY <3>1, <2>1, <2>2, ReturnedOn
    <3>. QED BY <3>2 DEF e
  <2>5. e \in Seq(AvlKeys) /\ Len(e) = Len(s.seen) + 1
    BY <1>0, <2>2
  <2>. HIDE DEF e, d
  <2>6. CASE Parent(s.t, x) = Null
    <3> DEFINE r == [t |-> s.t, node |-> Null, seen |-> e, ok |-> s.ok /\ x = s.t.root /\ s.t.num = 1]
    <3>1. DestroyTurn(s) = r
      BY <1>2, <2>6 DEF DestroyTurn, e
    <3>2. x = s.t.root /\ R = {x}
      <4>1. x = s.t.root /\ sub[s.t.root] = R /\ sub[Null] = {}
        BY <2>2, <2>3, <2>6 DEF Shape, Ordered
      <4>2. sub[x] = {x} \cup sub[Child(s.t, x, 0)] \cup sub[Child(s.t, x, 1)]
        BY <2>2 DEF Shape, Ordered
      <4>3. Child(s.t, x, 0) = Null /\ Child(s.t, x, 1) = Null
        BY <2>2 DEF Leaf
      <4>. HIDE DEF x
      <4>. QED BY <4>1, <4>2, <4>3
    <3>3. s.t.num = 1
      <4>1. Cardinality({x}) = 1
        BY FS_Singleton
      <4>. QED BY <4>1, <3>2, <2>2
    <3>4. (H \ R) \cup {x} = H
      BY <2>2, <3>2
    <3>5. r.node = Null /\ r.seen = e /\ r.ok /\ r \in Destruction
      BY <1>0, <2>5, <3>2, <3>3 DEF Destruction
    <3>. HIDE DEF r
    <3>6. Destroying(r, t0, H, ht, n + 1)
      BY <2>4, <3>4, <3>5 DEF Destroying
    <3>. QED BY <3>1, <3>5, <3>6
  <2>7. CASE Parent(s.t, x) # Null
    <3> DEFINE r == [t |-> d.t, node |-> d.node, seen |-> e, ok |-> s.ok /\ d.ok]
               G == R \ {x}
               sb == Without(sub, x)
    <3>1. DestroyTurn(s) = r
      BY <1>2, <2>7 DEF DestroyTurn, e, d
    <3>2. d.ok /\ Unlinking(d.t, d.node, t0, H, ht, G, sb)
      BY <2>1, <2>7, DestroyNextIs DEF d
    <3>. HIDE DEF sb
    <3>3. (H \ R) \cup {x} = H \ G
      BY <2>2
    <3>4. d.t \in AnyTree /\ d.node \in G /\ G \subseteq NodeIds /\ d.node \in Slots /\ d.node # Null
      <4>. HIDE DEF G
      <4>1. d.node \in G /\ Linked(d.t, G)
        BY <3>2 DEF Unlinking, Shape
      <4>2. d.t \in AnyTree /\ G \subseteq NodeIds
        BY <4>1 DEF Linked
      <4>. QED BY <4>1, <4>2, Names
    <3>5. r.t = d.t /\ r.node = d.node /\ r.seen = e /\ r.ok /\ r \in Destruction
      <4>1. (s.ok /\ d.ok) = TRUE
        BY <1>0, <3>2
      <4>. QED BY <4>1, <2>5, <3>4 DEF Destruction
    <3>. HIDE DEF r, G
    <3>6. Returned(e, t0, H \ G)
      BY <2>4, <3>3
    <3>7. Len(e) >= n + 1
      BY <2>2, <2>5
    <3>8. Destroying(r, t0, H, ht, n + 1)
      BY <3>2, <3>4, <3>5, <3>6, <3>7 DEF Destroying
    <3>. QED BY <3>1, <3>5, <3>8
  <2>. QED BY <2>6, <2>7
<1>. QED BY <1>1, <1>2

\* avl_destroy_nodes returns every node, once and before its parent.
LEMMA DestroyIs ==
  ASSUME NEW t, NEW H, NEW sub, NEW ht, Counted(t, H, sub, ht), t.root # Null
  PROVE  avl_destroy_nodes(t).ok /\ Returned(avl_destroy_nodes(t).seen, t, H)
<1> DEFINE first == [t |-> t, node |-> RightSide(t, avl_first(t)).node, seen |-> <<>>, ok |-> RightSide(t, avl_first(t)).ok]
           V == [i \in Nat |-> {s \in Destruction : Destroying(s, t, H, ht, i)}]
           F == [s \in Destruction |-> DestroyTurn(s)]
           go[i \in 0 .. Turns] == IF i = 0 THEN first ELSE DestroyTurn(go[i - 1])
<1>0. /\ Turns \in Nat /\ H \in SUBSET AvlKeys /\ Null \in Slots /\ H \subseteq Slots /\ t.root # Null
      /\ Tree(t, H, sub, ht, Ident) /\ Shape(t, H, sub, Ident) /\ t \in AnyTree /\ t.root \in H /\ sub[t.root] = H
      /\ Null \notin H /\ t.num = Cardinality(H)
  BY Names, Finite DEF Counted, Search, Tree, Shape, Linked, Ordered
<1>0a. Turns = Cardinality(AvlKeys) + 1 /\ IsFiniteSet(AvlKeys) /\ Cardinality(AvlKeys) \in Nat
  BY AvlAssumption, FS_CardinalityType DEF Turns
<1>1. first \in V[0]
  <2> DEFINE r == RightSide(t, avl_first(t))
             y == r.node
  <2>1. Weighs(ht, H) /\ \A v \in H : Even(t, ht, v)
    BY <1>0, TreeLevels DEF Tree, Levels, Weighs, Even
  <2>2. avl_first(t) = Outermost(t, t.root, 0)
    BY <1>0 DEF avl_first
  <2>3. FirstLeaf(t, sub, t.root, r)
    <3>1. FirstLeaf(t, sub, t.root, RightSide(t, Outermost(t, t.root, 0)))
      BY <1>0, <2>1, LeftmostIs
    <3>. QED BY <2>2, <3>1
  <2>. HIDE DEF r
  <2>4. /\ r.ok /\ y \in H /\ Leaf(t, y)
        /\ \A v \in H : y \in sub[Child(t, v, 1)] => Child(t, v, 0) = Null
    BY <2>3, <1>0 DEF FirstLeaf
  <2>5. r.ok \in BOOLEAN
    BY <2>4
  <2>. HIDE DEF y
  <2>6. Unlinking(t, y, t, H, ht, H, sub)
    BY <1>0, <2>1, <2>4 DEF Unlinking
  <2>7. <<>> \in Seq(AvlKeys) /\ Len(<<>>) = 0 /\ ToSet(<<>>) = {} /\ H \ H = {} /\ Cardinality({}) = 0
    BY FS_EmptySet DEF ToSet
  <2>8. Returned(<<>>, t, H \ H)
    BY <2>7 DEF Returned
  <2>9. first = [t |-> t, node |-> y, seen |-> <<>>, ok |-> r.ok]
    BY DEF r, y
  <2>. HIDE DEF first
  <2>10. first.t = t /\ first.node = y /\ first.seen = <<>> /\ first.ok /\ first \in Destruction
    BY <2>4, <2>5, <2>7, <2>9, <1>0 DEF Destruction
  <2>11. Destroying(first, t, H, ht, 0)
    <3>1. y # Null
      BY <2>4, <1>0
    <3>2. \E R, sb : Unlinking(t, y, t, H, ht, R, sb) /\ Returned(<<>>, t, H \ R)
      BY <2>6, <2>8, Zenon
    <3>3. Len(first.seen) >= 0
      BY <2>7, <2>10
    <3>. QED BY <3>1, <3>2, <3>3, <2>10 DEF Destroying
  <2>. QED BY <2>10, <2>11
<1>2. ASSUME NEW i \in Nat, NEW s \in V[i] PROVE DestroyTurn(s) \in V[i + 1]
  <2>1. s \in Destruction /\ Destroying(s, t, H, ht, i)
    OBVIOUS
  <2>2. DestroyTurn(s) \in Destruction /\ Destroying(DestroyTurn(s), t, H, ht, i + 1)
    BY <2>1, <1>0, DestroyStep
  <2>. QED BY <2>2
<1>3. ASSUME NEW i \in Nat, NEW s \in V[i] PROVE F[s] = DestroyTurn(s) /\ F[s] \in V[i + 1]
  <2>1. F[s] = DestroyTurn(s)
    OBVIOUS
  <2>. HIDE DEF first, V, F
  <2>. QED BY <2>1, <1>2
<1>. HIDE DEF first, V, F
<1>4. PICK g : Loops(g, Turns, first, F, V)
  <2>1. \A i \in 0 .. Turns - 1 : \A s \in V[i] : F[s] \in V[i + 1]
    BY <1>0, <1>3
  <2>. QED BY <2>1, <1>0, <1>1, LoopExists
<1>5. g = [i \in 0 .. Turns |-> IF i = 0 THEN first ELSE DestroyTurn(g[i - 1])]
  <2>1. ASSUME NEW i \in 0 .. Turns, i # 0 PROVE F[g[i - 1]] = DestroyTurn(g[i - 1])
    <3>1. i - 1 \in 0 .. Turns /\ i - 1 \in Nat
      BY <2>1, <1>0
    <3>2. g[i - 1] \in V[i - 1]
      BY <3>1, <1>4 DEF Loops
    <3>. QED BY <3>1, <3>2, <1>3
  <2>2. ASSUME NEW i \in 0 .. Turns
        PROVE  (IF i = 0 THEN first ELSE F[g[i - 1]]) = (IF i = 0 THEN first ELSE DestroyTurn(g[i - 1]))
    BY <2>1
  <2>3. [i \in 0 .. Turns |-> IF i = 0 THEN first ELSE F[g[i - 1]]]
          = [i \in 0 .. Turns |-> IF i = 0 THEN first ELSE DestroyTurn(g[i - 1])]
    BY <2>2, Zenon
  <2>. QED BY <2>3, <1>4, Zenon DEF Loops
<1>6. go = [i \in 0 .. Turns |-> IF i = 0 THEN first ELSE DestroyTurn(go[i - 1])]
  BY <1>5
<1>7. avl_destroy_nodes(t) = [seen |-> go[Turns].seen, ok |-> go[Turns].ok]
  BY <1>0 DEF avl_destroy_nodes, first
<1>. HIDE DEF go
<1>8. go[0] \in V[0] /\ \A i \in 0 .. Turns - 1 : go[i] \in V[i] => go[i + 1] \in V[i + 1]
  <2>1. go[0] = first
    <3>1. 0 \in 0 .. Turns
      BY <1>0
    <3>. QED BY <3>1, <1>6
  <2>2. ASSUME NEW i \in 0 .. Turns - 1, go[i] \in V[i] PROVE go[i + 1] \in V[i + 1]
    <3>1. i \in Nat /\ i + 1 \in 0 .. Turns /\ i + 1 # 0 /\ (i + 1) - 1 = i
      BY <1>0
    <3>2. go[i + 1] = DestroyTurn(go[(i + 1) - 1])
      BY <3>1, <1>6, Zenon
    <3>3. go[i + 1] = DestroyTurn(go[i])
      BY <3>1, <3>2
    <3>. QED BY <3>1, <3>3, <2>2, <1>2
  <2>. QED BY <2>1, <2>2, <1>1
<1>9. go[Turns] \in V[Turns] /\ \A i \in 0 .. Turns : go[i] \in V[i]
  BY <1>0, <1>8, LoopEnds
<1> DEFINE z == go[Turns]
<1>10. Destroying(z, t, H, ht, Turns)
  BY <1>0, <1>9 DEF V
<1>. HIDE DEF z
<1>11. z.node = Null
  <2>1. SUFFICES ASSUME z.node # Null PROVE FALSE
    OBVIOUS
  <2>2. PICK R, sb : Unlinking(z.t, z.node, t, H, ht, R, sb) /\ Returned(z.seen, t, H \ R)
    BY <2>1, <1>10 DEF Destroying
  <2>3. Len(z.seen) >= Turns /\ Len(z.seen) = Cardinality(H \ R)
    BY <2>1, <2>2, <1>10 DEF Destroying, Returned
  <2>4. H \ R \in SUBSET AvlKeys
    BY <1>0
  <2>5. Cardinality(H \ R) <= Cardinality(AvlKeys)
    BY <2>4, <1>0a, FS_Subset
  <2>6. Cardinality(H \ R) \in Nat
    BY <2>4, Sizes
  <2>. QED BY <2>3, <2>5, <2>6, <1>0a
<1>12. z.ok /\ Returned(z.seen, t, H)
  BY <1>10, <1>11 DEF Destroying
<1>. QED BY <1>7, <1>12 DEF z

\* AvlDestroysOnce: avl_destroy_nodes returns every node once and none before its
\* children, and its assertions hold.
THEOREM AvlDestroysEachOnce == AvlInit /\ [][AvlNext]_avl => []AvlDestroysOnce
<1>1. AvlIInv => AvlDestroysOnce
  <2>1. SUFFICES ASSUME AvlIInv PROVE AvlDestroysOnce
    OBVIOUS
  <2>2. PICK H, sub, ht : Counted(avl, H, sub, ht)
    BY <2>1 DEF AvlIInv
  <2>3. Held(avl) = H /\ (avl.root = Null => H = {})
    <3>1. Shape(avl, H, sub, Ident)
      BY <2>2 DEF Counted, Search, Tree
    <3>. QED BY <3>1, HeldIs DEF Shape, Linked
  <2> DEFINE d == avl_destroy_nodes(avl)
  <2>4. d.ok /\ Returned(d.seen, avl, H)
    <3>1. CASE avl.root = Null
      <4>1. d.seen = <<>> /\ d.ok /\ H = {}
        BY <3>1, <2>3 DEF avl_destroy_nodes
      <4>2. <<>> \in Seq(AvlKeys) /\ Len(<<>>) = 0 /\ ToSet(<<>>) = {} /\ Cardinality({}) = 0
        BY FS_EmptySet DEF ToSet
      <4>. HIDE DEF d
      <4>. QED BY <4>1, <4>2 DEF Returned
    <3>2. CASE avl.root # Null
      BY <2>2, <3>2, DestroyIs
    <3>. QED BY <3>1, <3>2
  <2>. HIDE DEF d
  <2>5. /\ d.ok /\ Len(d.seen) = Cardinality(H)
        /\ \A x \in H : \E i \in DOMAIN d.seen :
             d.seen[i] = x /\ \A j \in 1 .. i - 1 : d.seen[j] # Parent(avl, x)
    BY <2>4 DEF Returned
  <2>. QED BY <2>3, <2>5, Zenon DEF AvlDestroysOnce, d
<1>. QED BY <1>1, AvlInductive, PTL
==============================================================================
