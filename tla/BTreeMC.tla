------------------------------- MODULE BTreeMC -------------------------------
(***************************************************************************)
(* Entry lengths for the runs of BTree, as functions of the key.           *)
(***************************************************************************)
EXTENDS BTree

\* Largest entries; the two largest keys are shorter, so no entry has a
\* successor that is longer than itself.
LensFalling == [k \in Keys |-> IF k <= 6 THEN {5} ELSE {3}]

\* Four entries of two thirds of the largest size fill the root; each of them
\* has a successor of the largest size.
LensMixed == [k \in Keys |-> IF k \in {2, 4, 6, 8} THEN {8} ELSE {12}]
=============================================================================
