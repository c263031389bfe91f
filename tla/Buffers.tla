------------------------------- MODULE Buffers -------------------------------
(***************************************************************************)
(* The small containers of public/: ring buffer, queue, stack, doubly      *)
(* linked list and hash table, each with its indices or links as the code  *)
(* keeps them.  The state is one container and the result of the last call.*)
(***************************************************************************)
EXTENDS Integers, FiniteSets, SequencesExt

CONSTANTS
  Items,      \* what is put in; also the nodes of the list, the keys of the table
  Limit,      \* max_num, size, max
  Buckets     \* bucket_size

ASSUME BuffersAssumption ==
  /\ Items \subseteq Nat \ {0} /\ IsFiniteSet(Items)
  /\ Limit \in Nat \ {0} /\ Buckets \in Nat \ {0}

VARIABLES buf, out

Junk == 0                       \* memory as malloc returned it
ListHead == 0                   \* the list head, which is a node as well
Poison1 == -1                   \* LIST_POISON1, LIST_POISON2
Poison2 == -2
Links == Items \cup {ListHead}

\* The result of a call and the item it returned.
Ret(r) == [ret |-> r, item |-> Junk]

Got(x) == [ret |-> "ok", item |-> x]

Memory == [i \in 0 .. Limit - 1 |-> Junk]
-----------------------------------------------------------------------------
(***************************************************************************)
(* Ring buffer and queue.                                                  *)
(***************************************************************************)
ring_buffer_create(k) == [kind |-> k, member |-> Memory, head |-> 0, tail |-> 0, num |-> 0]

\* Bug: the index wraps one step late.
NextIndexLate(k, i) == IF i + 1 > Limit THEN 0 ELSE i + 1

\* The ring buffer compares, the queue takes the remainder.
NextIndex(k, i) ==
  IF k = "ring" THEN IF i + 1 >= Limit THEN 0 ELSE i + 1 ELSE (i + 1) % Limit

\* What lies behind the array is not ours.
Cell(q, i) == IF i \in DOMAIN q.member THEN q.member[i] ELSE Junk

Push(q, x) == [q EXCEPT !.member = [i \in DOMAIN @ |-> IF i = q.tail THEN x ELSE @[i]],
                        !.tail = NextIndex(q.kind, @), !.num = @ + 1]

\* Also queue_push and queue_pop.
ring_buffer_push(x) ==
  /\ buf.kind \in {"ring", "queue"}
  /\ IF buf.num >= Limit THEN out' = Ret("full") /\ UNCHANGED buf
     ELSE out' = Ret("ok") /\ buf' = Push(buf, x)

ring_buffer_pop ==
  /\ buf.kind \in {"ring", "queue"}
  /\ IF buf.num = 0 THEN out' = Ret("empty") /\ UNCHANGED buf
     ELSE /\ out' = Got(Cell(buf, buf.head))
          /\ buf' = [buf EXCEPT !.head = NextIndex(buf.kind, @), !.num = @ - 1]

ring_buffer_reset ==
  /\ buf.kind = "ring"
  /\ buf' = [buf EXCEPT !.head = 0, !.tail = 0, !.num = 0]
  /\ out' = Ret("ok")

\* What ring_buffer_walk_all shows its callback.
ring_buffer_walk_all(q) ==
  LET at[i \in 1 .. q.num] == IF i = 1 THEN q.head ELSE NextIndex(q.kind, at[i - 1])
  IN  [i \in 1 .. q.num |-> Cell(q, at[i])]
-----------------------------------------------------------------------------
(***************************************************************************)
(* Stack.                                                                  *)
(***************************************************************************)
stack_create == [kind |-> "stack", memb |-> Memory, num |-> 0]

stack_push(x) ==
  /\ buf.kind = "stack"
  /\ IF buf.num >= Limit THEN out' = Ret("full") /\ UNCHANGED buf
     ELSE out' = Ret("ok") /\ buf' = [buf EXCEPT !.memb[buf.num] = x, !.num = @ + 1]

stack_pop ==
  /\ buf.kind = "stack"
  /\ IF buf.num <= 0 THEN out' = Ret("empty") /\ UNCHANGED buf
     ELSE out' = Got(buf.memb[buf.num - 1]) /\ buf' = [buf EXCEPT !.num = @ - 1]
-----------------------------------------------------------------------------
(***************************************************************************)
(* Doubly linked list.                                                     *)
(***************************************************************************)
list_init_head ==
  [kind |-> "list",
   next |-> [x \in Links |-> IF x = ListHead THEN ListHead ELSE Poison1],
   prev |-> [x \in Links |-> IF x = ListHead THEN ListHead ELSE Poison2]]

\* Four assignments, in the order of the code.
LinkIn(l, new, prev, next) ==
  [l EXCEPT !.prev = [@ EXCEPT ![next] = new, ![new] = prev],
            !.next = [@ EXCEPT ![new] = next, ![prev] = new]]

list_del(l, x) ==
  [l EXCEPT !.prev = [@ EXCEPT ![l.next[x]] = l.prev[x], ![x] = Poison2],
            !.next = [@ EXCEPT ![l.prev[x]] = l.next[x], ![x] = Poison1]]

\* list_walk_all, one round; the callback takes the nodes in gone out of the list.
\* Bug: the next node is read after the callback.
ListWalkLate(w, gone) ==
  LET left == IF w.node \in gone THEN list_del(w.l, w.node) ELSE w.l
  IN  [l |-> left, node |-> left.next[w.node], seen |-> Append(w.seen, w.node)]

ListWalk(w, gone) ==
  [l    |-> IF w.node \in gone THEN list_del(w.l, w.node) ELSE w.l,
   node |-> w.l.next[w.node],
   seen |-> Append(w.seen, w.node)]

\* The walk ends in the head, or in a poisoned link; it is given as many rounds
\* as there are nodes, and one more: a broken list need not end.
Rounds == Cardinality(Items) + 1

list_walk_all(l, gone) ==
  LET go[i \in 0 .. Rounds] ==
        IF i = 0 THEN [l |-> l, node |-> l.next[ListHead], seen |-> <<>>]
        ELSE IF go[i - 1].node \in Items THEN ListWalk(go[i - 1], gone) ELSE go[i - 1]
  IN  go[Rounds]

\* The nodes in the order of the links; a list that is broken is not what it was.
Forward(l) ==
  LET w == list_walk_all(l, {})
  IN  IF w.node = ListHead THEN w.seen ELSE Append(w.seen, w.node)

Backward(l) == Forward([l EXCEPT !.next = l.prev, !.prev = l.next])

\* list_get_node: the node at a position counted from 0, or the head for NULL.
list_get_node(l, pos) ==
  IF pos < Len(Forward(l)) THEN Forward(l)[pos + 1] ELSE ListHead

\* A node is in one list at most: the caller takes one it has not put in.
list_add(x) ==
  /\ buf.kind = "list" /\ buf.next[x] = Poison1
  /\ out' = Ret("ok")
  /\ \/ buf' = LinkIn(buf, x, ListHead, buf.next[ListHead])     \* list_add_head
     \/ buf' = LinkIn(buf, x, buf.prev[ListHead], ListHead)     \* list_add_tail

list_remove_target_node(pos) ==
  /\ buf.kind = "list"
  /\ LET x == list_get_node(buf, pos)
     IN  IF x = ListHead
         THEN out' = Ret("no node") /\ UNCHANGED buf
         ELSE out' = Got(x) /\ buf' = list_del(buf, x)
-----------------------------------------------------------------------------
(***************************************************************************)
(* Hash table: the nodes of a bucket are linked in ascending order.        *)
(***************************************************************************)
hashtab_create == [kind |-> "hashtab", htable |-> [h \in 0 .. Buckets - 1 |-> <<>>], num |-> 0]

hash_value(k) == k % Buckets

\* Where the loops over a chain stop: the first key that is not smaller, or its end.
StopAt(s, k) ==
  CHOOSE i \in 1 .. Len(s) + 1 :
    (\A j \in 1 .. i - 1 : s[j] < k) /\ (i <= Len(s) => s[i] >= k)

NewChain(s, k) == InsertAt(s, StopAt(s, k), k)

hashtab_search(t, k) ==
  LET s == t.htable[hash_value(k)]
  IN  StopAt(s, k) <= Len(s) /\ s[StopAt(s, k)] = k

hashtab_insert(k) ==
  /\ buf.kind = "hashtab"
  /\ IF buf.num = Limit THEN out' = Ret("full") /\ UNCHANGED buf
     ELSE IF hashtab_search(buf, k) THEN out' = Ret("exist") /\ UNCHANGED buf
     ELSE /\ buf' = [buf EXCEPT !.htable[hash_value(k)] = NewChain(@, k), !.num = @ + 1]
          /\ out' = Ret("ok")

\* hashtab_destroy frees the nodes in this order.
AllChains(t) ==
  LET upto[h \in 0 .. Buckets] == IF h = 0 THEN <<>> ELSE upto[h - 1] \o t.htable[h - 1]
  IN  upto[Buckets]
-----------------------------------------------------------------------------
BufInit ==
  /\ buf \in {ring_buffer_create("ring"), ring_buffer_create("queue"),
              stack_create, list_init_head, hashtab_create}
  /\ out = Ret("ok")

BufNext ==
  \/ \E x \in Items : ring_buffer_push(x)
  \/ ring_buffer_pop
  \/ ring_buffer_reset
  \/ \E x \in Items : stack_push(x)
  \/ stack_pop
  \/ \E x \in Items : list_add(x)
  \/ \E pos \in 0 .. Cardinality(Items) : list_remove_target_node(pos)
  \/ \E x \in Items : hashtab_insert(x)
-----------------------------------------------------------------------------
Content ==
  CASE buf.kind \in {"ring", "queue"} -> ring_buffer_walk_all(buf)
    [] buf.kind = "stack"             -> [i \in 1 .. buf.num |-> buf.memb[i - 1]]
    [] buf.kind = "list"              -> Forward(buf)
    [] buf.kind = "hashtab"           -> AllChains(buf)

Abstract == INSTANCE BoundedContainer WITH kind <- buf.kind, content <- Content

\* Every container keeps what was put in, in its order, over any number of
\* calls: the indices wrap inside the array without losing or repeating an
\* item, a chain of the hash table is found whatever the order of its keys, a
\* full container refuses, an empty one returns nothing.
ImplementsContainer == Abstract!Spec

\* A callback of list_walk_all may take the node it is given out of the list:
\* the walk still meets every node once and ends in the head, not in a poisoned
\* link; the others are left in their order, the same in both directions.
ListWalksAll ==
  buf.kind = "list" =>
    \A gone \in SUBSET Items :
      LET w    == list_walk_all(buf, gone)
          met  == Forward(buf)
          left == Forward(w.l)
      IN  /\ w.seen = met /\ w.node = ListHead
          /\ ToSet(left) = ToSet(met) \ gone
          /\ \A i, j \in DOMAIN left : i < j =>
               \E p, q \in DOMAIN met : p < q /\ left[i] = met[p] /\ left[j] = met[q]
          /\ Backward(w.l) = Reverse(left)
=============================================================================
