------------------------------ MODULE MCBTree -------------------------------
(* Small instances of BTree for TLC: nodes of four slots, so that the      *)
(* fourth key splits the root and two more split a leaf.                   *)
EXTENDS BTreeProps

\* what the copies of a split leave behind past n is never looked at again
Shown(node) ==
    [innerp |-> node.innerp, next |-> node.next, n |-> node.lf.n,
     key |-> [i \in 0 .. node.lf.n - 1 |-> node.lf.key[i]],
     val |-> IF node.innerp THEN <<>> ELSE [i \in 0 .. node.lf.n - 1 |-> node.lf.val[i]],
     kid |-> IF node.innerp THEN [i \in 0 .. node.lf.n |-> node.kid[i]] ELSE <<>>]

\* What later puts depend on: not the bitmaps, which only the iterator reads,
\* and not the last put.
WriteView == <<[t \in DOMAIN heap |-> Shown(heap[t])], splitp>>

=============================================================================
