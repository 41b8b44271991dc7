------------------------------ MODULE ReorderTree ------------------------------
(***************************************************************************)
(* The cache of the Reorder stage: a search tree of coarse numbers (l1),   *)
(* src/dedup/tree.cpp, whose nodes hold a binary heap of chunks ordered by *)
(* their fine number (l2), src/dedup/binheap.cpp.  A heap is its array     *)
(* Elements[1..Size]; the tree is the function from the l1 it holds to     *)
(* their heaps, and the links between its nodes are left out.              *)
(***************************************************************************)
EXTENDS Naturals, Sequences, FiniteSets, FiniteSetsExt

\* The hole rises from the end as long as the parent is larger, which takes its place.
HeapInsert(h, x) ==
    LET n == Len(h) + 1
        Rises(i) == i > 1 /\ h[i \div 2].l2 > x.l2
        Path[i \in 1..n] == IF Rises(i) THEN {i \div 2} \cup Path[i \div 2] ELSE {}
    IN [i \in 1..n |-> IF i # n /\ i \notin Path[n] THEN h[i]
                       ELSE IF Rises(i) THEN h[i \div 2] ELSE x]

\* The hole sinks from the root as long as the smaller child is smaller than the last element.
HeapDeleteMin(h) ==
    LET n == Len(h) - 1
        Child(i) == IF 2 * i # n /\ h[2 * i + 1].l2 < h[2 * i].l2 THEN 2 * i + 1 ELSE 2 * i
        Sinks(i) == 2 * i <= n /\ h[n + 1].l2 > h[Child(i)].l2
        Path[i \in 1..n + 1] == {i} \cup IF Sinks(i) THEN Path[Child(i)] ELSE {}
    IN [i \in 1..n |-> IF i \notin Path[1] THEN h[i]
                       ELSE IF Sinks(i) THEN h[Child(i)] ELSE h[n + 1]]

FindMin(h) == h[1]

TreeMakeEmpty == [l1 \in {} |-> <<>>]

TreeFindMin(tree) == Min(DOMAIN tree)

\* A chunk whose number is not in the tree yet starts a heap of its own.
TreeInsert(tree, c) ==
    [l1 \in DOMAIN tree \cup {c.l1} |->
        IF l1 # c.l1 THEN tree[l1]
        ELSE HeapInsert(IF l1 \in DOMAIN tree THEN tree[l1] ELSE <<>>, c)]

\* The node goes with the last chunk of its heap.
TreeDelete(tree, l1) ==
    LET rest == HeapDeleteMin(tree[l1])
        kept == IF rest = <<>> THEN DOMAIN tree \ {l1} ELSE DOMAIN tree
    IN [k \in kept |-> IF k = l1 THEN rest ELSE tree[k]]
================================================================================
