----------------------------- MODULE BPlusTree -----------------------------
(***************************************************************************)
(* class BPlusTree of src/Data_structures/B+Tree.cpp, the tree as a value  *)
(* and its operations as operators.  A leaf's vnode holds nullptr only,    *)
(* always more of them than keys, and is left out.  Parent links follow    *)
(* the child links, and linked_list_at_leaf goes from each leaf to the     *)
(* next one: a split puts the new leaf in between, a merge takes one out.  *)
(* That holds while no key is inserted that a leaf has.                    *)
(***************************************************************************)
EXTENDS Integers, Sequences, FiniteSets, SequencesExt

CONSTANTS
    Null,     \* nullptr
    Order     \* the member order

LeafNode(keys) == [isLeaf |-> TRUE, keys |-> keys, vnode |-> <<>>]
Internal(keys, vnode) == [isLeaf |-> FALSE, keys |-> keys, vnode |-> vnode]

\* The leaves in the order of linked_list_at_leaf.
RECURSIVE Leaves(_)
Leaves(t) ==
    IF t = Null THEN <<>>
    ELSE IF t.isLeaf THEN <<t>>
    ELSE FlattenSeq([i \in DOMAIN t.vnode |-> Leaves(t.vnode[i])])
LeafKeys(t) == FlattenSeq([i \in DOMAIN Leaves(t) |-> Leaves(t)[i].keys])

\* The child the search takes at an internal node: its loop over all keys, each smaller one
\* moving index_res to its place, an equal one by one.
ChildFor(n, k) ==
    2 + FoldLeft(LAMBDA index_res, i : IF n.keys[i] < k THEN i - 1
                                       ELSE IF n.keys[i] = k THEN index_res + 1 ELSE index_res,
                 -1, [i \in DOMAIN n.keys |-> i])

\* The indices of the children from t down to the leaf where k is, or would be.
RECURSIVE Path(_, _)
Path(t, k) ==
    IF t.isLeaf THEN <<>> ELSE <<ChildFor(t, k)>> \o Path(t.vnode[ChildFor(t, k)], k)

RECURSIVE LeafFor(_, _)
LeafFor(t, k) == IF t.isLeaf THEN t ELSE LeafFor(t.vnode[ChildFor(t, k)], k)

search(t, k) == t # Null /\ k \in ToSet(LeafFor(t, k).keys)

\* From the leaf where the lower end is or would be, its smaller keys included.
range_lookup(t, first, second) ==
    LET ls == SelectSeq(Leaves(t), LAMBDA l : Last(l.keys) >= Head(LeafFor(t, first).keys))
    IN  IF t = Null THEN <<>>
        ELSE SelectSeq(FlattenSeq([i \in DOMAIN ls |-> ls[i].keys]), LAMBDA k : k <= second)

-----------------------------------------------------------------------------
(* insertion.                                                              *)

LowerBound(s, k) == 1 + Cardinality({i \in DOMAIN s : s[i] < k})

\* One node, or two with the key that goes to the parent.
One(n) == [left |-> n, right |-> Null]

\* A leaf keeps the median on the right and sends up a copy, an internal node sends it up.
Split(X) ==
    LET m == Len(X.keys) \div 2
        n == Len(X.keys)
    IN  IF n <= Order THEN One(X)
        ELSE IF X.isLeaf
        THEN [key |-> X.keys[m + 1], left |-> LeafNode(SubSeq(X.keys, 1, m)),
                                     right |-> LeafNode(SubSeq(X.keys, m + 1, n))]
        ELSE [key |-> X.keys[m + 1],
              left  |-> Internal(SubSeq(X.keys, 1, m), SubSeq(X.vnode, 1, m + 1)),
              right |-> Internal(SubSeq(X.keys, m + 2, n), SubSeq(X.vnode, m + 2, n + 1))]

RECURSIVE Ins(_, _)
Ins(t, k) ==
    LET c   == ChildFor(t, k)
        sub == Ins(t.vnode[c], k)
        n   == [t EXCEPT !.vnode[c] = sub.left]
        at  == LowerBound(t.keys, sub.key)
    IN  IF t.isLeaf THEN Split(LeafNode(InsertAt(t.keys, LowerBound(t.keys, k), k)))
        ELSE IF sub.right = Null THEN One(n)
        ELSE Split(Internal(InsertAt(n.keys, at, sub.key), InsertAt(n.vnode, at + 1, sub.right)))

insertion(t, k) ==
    IF t = Null THEN LeafNode(<<k>>)
    ELSE LET top == Ins(t, k)
         IN  IF top.right = Null THEN top.left ELSE Internal(<<top.key>>, <<top.left, top.right>>)

-----------------------------------------------------------------------------
(* deletion: the key leaves its leaf, separators on the way up are copied  *)
(* anew, and a second walk up repairs the nodes.                           *)

\* The separator before a changed child becomes the child's first key, on every level.
RECURSIVE Cut(_, _)
Cut(t, k) ==
    LET c == ChildFor(t, k)
        n == [t EXCEPT !.vnode[c] = Cut(@, k)]
    IN  IF t.isLeaf THEN LeafNode(RemoveFirst(t.keys, k))
        ELSE IF c > 1 /\ n.vnode[c].keys # <<>> THEN [n EXCEPT !.keys[c - 1] = n.vnode[c].keys[1]]
        ELSE n

min_keys == (Order + 1) \div 2

BorrowLeft(P, i) ==
    LET l == P.vnode[i - 1]
        X == P.vnode[i]
    IN  IF X.isLeaf
        THEN [P EXCEPT !.keys[i - 1] = Last(l.keys),
                       !.vnode[i - 1] = LeafNode(Front(l.keys)),
                       !.vnode[i] = LeafNode(<<Last(l.keys)>> \o X.keys)]
        ELSE [P EXCEPT !.keys[i - 1] = Last(l.keys),
                       !.vnode[i - 1] = Internal(Front(l.keys), Front(l.vnode)),
                       !.vnode[i] = Internal(<<P.keys[i - 1]>> \o X.keys, <<Last(l.vnode)>> \o X.vnode)]

\* Between leaves the separator becomes the key that moves, not the right one's new first.
BorrowRight(P, i) ==
    LET r == P.vnode[i + 1]
        X == P.vnode[i]
    IN  IF X.isLeaf
        THEN [P EXCEPT !.keys[i] = Head(r.keys),
                       !.vnode[i + 1] = LeafNode(Tail(r.keys)),
                       !.vnode[i] = LeafNode(X.keys \o <<Head(r.keys)>>)]
        ELSE [P EXCEPT !.keys[i] = Head(r.keys),
                       !.vnode[i + 1] = Internal(Tail(r.keys), Tail(r.vnode)),
                       !.vnode[i] = Internal(X.keys \o <<P.keys[i]>>, X.vnode \o <<Head(r.vnode)>>)]

\* Children i and i + 1 become one; between internal nodes the separator comes down.
\* Mutant: the right one's keys are dropped.
MergedShort(P, i) ==
    Internal(RemoveAt(P.keys, i), RemoveAt(P.vnode, i + 1))
Merged(P, i) ==
    LET l == P.vnode[i]
        r == P.vnode[i + 1]
        m == IF l.isLeaf THEN LeafNode(l.keys \o r.keys)
             ELSE Internal(l.keys \o <<P.keys[i]>> \o r.keys, l.vnode \o r.vnode)
    IN  Internal(RemoveAt(P.keys, i), RemoveAt([P.vnode EXCEPT ![i] = m], i + 1))

\* The loop's turn at child i of P.
Rebalanced(P, i) ==
    LET Rich(j) == j \in DOMAIN P.vnode /\ Len(P.vnode[j].keys) > min_keys
    IN  IF Len(P.vnode[i].keys) >= min_keys THEN P
        ELSE IF Rich(i - 1) THEN BorrowLeft(P, i)
        ELSE IF Rich(i + 1) THEN BorrowRight(P, i)
        ELSE Merged(P, IF i > 1 THEN i - 1 ELSE i)

RECURSIVE Repaired(_, _)
Repaired(t, path) ==
    IF path = <<>> THEN t
    ELSE Rebalanced([t EXCEPT !.vnode[Head(path)] = Repaired(@, Tail(path))], Head(path))

\* An empty leaf as the root is gone, an internal root without keys gives way to its child.
deletion(t, k) ==
    IF ~search(t, k) THEN t
    ELSE LET top == Repaired(Cut(t, k), Path(t, k))
         IN  IF top.keys # <<>> THEN top ELSE IF top.isLeaf THEN Null ELSE top.vnode[1]

-----------------------------------------------------------------------------
(* What the tests ask of a tree (validate_all), the lower bound on keys,   *)
(* and one depth for all leaves.                                           *)

RECURSIVE Depths(_)
Depths(t) ==
    IF t = Null \/ t.isLeaf THEN {1} ELSE {d + 1 : d \in UNION {Depths(t.vnode[i]) : i \in DOMAIN t.vnode}}

Ascending(s) == \A i \in 1 .. Len(s) - 1 : s[i] <= s[i + 1]

RECURSIVE validate_node(_)
validate_node(t) ==
    t # Null => /\ Ascending(t.keys)
                /\ Len(t.keys) <= Order
                /\ ~t.isLeaf => /\ Len(t.vnode) = Len(t.keys) + 1
                                /\ \A i \in DOMAIN t.vnode : /\ Len(t.vnode[i].keys) >= min_keys
                                                             /\ validate_node(t.vnode[i])

validate_all(t) == validate_node(t) /\ Ascending(LeafKeys(t)) /\ Cardinality(Depths(t)) = 1
=============================================================================
