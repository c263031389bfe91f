------------------------------ MODULE OrderedMap ------------------------------
(***************************************************************************)
(* What an index promises to its callers: a map from keys to values (a     *)
(* value is known here by the length it gives its entry), changed by one   *)
(* insert, removal or update at a time.                                    *)
(***************************************************************************)
EXTENDS Integers

CONSTANTS Keys, Lens

VARIABLE map

Init == map = [k \in {} |-> 0]

\* Inserts the key, or replaces its value.
With(m, k, l) == [x \in DOMAIN m \cup {k} |-> IF x = k THEN l ELSE m[x]]

Without(m, k) == [x \in DOMAIN m \ {k} |-> m[x]]

Next ==
  \E before \in {map}, after \in {map'} :
    \/ \E k \in Keys \ DOMAIN after : after = Without(before, k)
    \/ \E k \in DOMAIN after : after = With(before, k, after[k]) /\ after[k] \in Lens

Spec == Init /\ [][Next]_map
===============================================================================
