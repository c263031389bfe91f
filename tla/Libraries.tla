------------------------------ MODULE Libraries ------------------------------
(***************************************************************************)
(* The parts the object system is built on, side by side: the AVL tree of  *)
(* its caches, the comparison of keys, the small containers, the file and  *)
(* the log.  None of them calls another one but the log its file, and then *)
(* under a lock of its own; so a behaviour is one of one part.             *)
(***************************************************************************)
EXTENDS Avl, Collate, Buffers, FileIf, Log

VARIABLE part

avlVars     == <<avl>>
collateVars == <<entries>>
bufVars     == <<buf, out>>
fileVars    == <<file, replied>>
logVars     == <<log>>
vars == <<part, avl, entries, buf, out, file, replied, log>>

Init ==
  /\ part \in {"avl", "collate", "buffers", "file", "log"}
  /\ AvlInit /\ CollateInit /\ FileInit /\ LogInit
  /\ BufInit
  /\ part # "buffers" => buf.kind = "stack"

Next ==
  /\ UNCHANGED part
  /\ \/ /\ part = "avl" /\ AvlNext
        /\ UNCHANGED <<collateVars, bufVars, fileVars, logVars>>
     \/ /\ part = "collate" /\ CollateNext
        /\ UNCHANGED <<avlVars, bufVars, fileVars, logVars>>
     \/ /\ part = "buffers" /\ BufNext
        /\ UNCHANGED <<avlVars, collateVars, fileVars, logVars>>
     \/ /\ part = "file" /\ FileNext
        /\ UNCHANGED <<avlVars, collateVars, bufVars, logVars>>
     \/ /\ part = "log" /\ LogNext
        /\ UNCHANGED <<avlVars, collateVars, bufVars, fileVars>>

Spec == Init /\ [][Next]_vars
==============================================================================
