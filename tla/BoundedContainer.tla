-------------------------- MODULE BoundedContainer --------------------------
(***************************************************************************)
(* What the small containers of public/ promise: a sequence of items, with *)
(* a limit where the container has one, and the result of the last call.   *)
(***************************************************************************)
EXTENDS Naturals, SequencesExt

CONSTANTS Items, Limit

VARIABLES kind, content, out

Kinds == {"ring", "queue", "stack", "list", "hashtab"}

\* The result of a call, and the item it returned; 0 stands for none.
Ret(r) == [ret |-> r, item |-> 0]

Got(x) == [ret |-> "ok", item |-> x]

Init == kind \in Kinds /\ content = <<>> /\ out = Ret("ok")

Held == ToSet(content)

\* A list grows at both ends and has no limit; the keys of a hash table are
\* kept bucket by bucket and a key is held once.
Insert(x) ==
  /\ kind = "list" \/ Len(content) < Limit
  /\ kind \in {"list", "hashtab"} => x \notin Held
  /\ out' = Ret("ok")
  /\ \/ kind # "hashtab" /\ content' = Append(content, x)
     \/ kind = "list" /\ content' = <<x>> \o content
     \/ /\ kind = "hashtab"
        /\ \E i \in 1 .. Len(content) + 1 : content' = InsertAt(content, i, x)

\* A call that changes nothing.  The item and the position asked for are not
\* part of the state: a key is refused as held whenever some key is, and a
\* position as missing at any time, so a refusal without a reason is allowed
\* in these two cases.
Refuse ==
  /\ \/ kind # "list" /\ Len(content) = Limit /\ out' = Ret("full")
     \/ kind = "hashtab" /\ content # <<>> /\ out' = Ret("exist")
     \/ kind \in {"ring", "queue", "stack"} /\ content = <<>> /\ out' = Ret("empty")
     \/ kind = "list" /\ out' = Ret("no node")
  /\ UNCHANGED content

Place == CASE kind \in {"ring", "queue"} -> {1}
           [] kind = "stack"             -> {Len(content)}
           [] kind = "list"              -> 1 .. Len(content)
           [] OTHER                      -> {}

Take ==
  /\ content # <<>>
  /\ \E i \in Place : out' = Got(content[i]) /\ content' = RemoveAt(content, i)

Reset == kind = "ring" /\ content' = <<>> /\ out' = Ret("ok")

Next ==
  /\ kind' = kind
  /\ (\E x \in Items : Insert(x)) \/ Refuse \/ Take \/ Reset

Spec == Init /\ [][Next]_<<kind, content, out>>
=============================================================================
