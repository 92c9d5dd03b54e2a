------------------------------- MODULE BTree -------------------------------
(***************************************************************************)
(* class BTree of src/Data_structures/BTree.hpp, the tree as a value and   *)
(* its operations as operators.  The loop that repairs a node and goes on  *)
(* to its parent is the way back out of the recursion.  The vnode of a     *)
(* leaf holds a nullptr on each side of each key, as in the code, so it is *)
(* never empty.  All leaves are at one depth (validate_tree), so a node    *)
(* with children has one before each key: the code's successor branch      *)
(* (277-299) is for a tree that cannot arise and is left out.              *)
(***************************************************************************)
EXTENDS Integers, Sequences, FiniteSets, SequencesExt

CONSTANTS
    Null,     \* nullptr
    Order     \* the member order

BNode(keys, vnode) == [keys |-> keys, vnode |-> vnode]

RECURSIVE flatten_tree(_)
flatten_tree(t) ==
    IF t = Null THEN <<>>
    ELSE FlattenSeq([i \in 1 .. Len(t.vnode) |->
            flatten_tree(t.vnode[i]) \o IF i <= Len(t.keys) THEN <<t.keys[i]>> ELSE <<>>])

inorder_range_traversal(t, start, end) ==
    SelectSeq(flatten_tree(t), LAMBDA k : start <= k /\ k <= end)

\* Where k is, or would be, among the keys of n (lower_bound), and its child's place.
Place(n, k) == 1 + Cardinality({i \in DOMAIN n.keys : n.keys[i] < k})
Holds(n, k) == k \in ToSet(n.keys)

RECURSIVE search(_, _)
search(t, k) ==
    IF t = Null \/ Holds(t, k) THEN t ELSE search(t.vnode[Place(t, k)], k)

IsLeaf(n) == \A i \in DOMAIN n.vnode : n.vnode[i] = Null

-----------------------------------------------------------------------------
(* insertion.                                                              *)

\* One node, or two with a key between them that goes to the parent.
One(n) == [left |-> n, right |-> Null]

Split(n) ==
    LET m == Len(n.keys) \div 2
    IN  IF Len(n.keys) <= Order THEN One(n)
        ELSE [left  |-> BNode(SubSeq(n.keys, 1, m), SubSeq(n.vnode, 1, m + 1)),
              key   |-> n.keys[m + 1],
              right |-> BNode(SubSeq(n.keys, m + 2, Len(n.keys)),
                              SubSeq(n.vnode, m + 2, Len(n.vnode)))]

\* rearrange_root_on_insertion at n: the key, with a child on its right.
Rearranged(n, k, right_child) ==
    Split(BNode(InsertAt(n.keys, Place(n, k), k), InsertAt(n.vnode, Place(n, k) + 1, right_child)))

RECURSIVE Ins(_, _)
Ins(t, k) ==
    LET i   == Place(t, k)
        sub == Ins(t.vnode[i], k)
        n   == [t EXCEPT !.vnode[i] = sub.left]
    IN  IF t.vnode[i] = Null THEN Rearranged(t, k, Null)
        ELSE IF sub.right = Null THEN One(n)
        ELSE Rearranged(n, sub.key, sub.right)

\* The value of a key that is there is replaced.
insertion(t, k) ==
    IF t = Null THEN BNode(<<k>>, <<Null, Null>>)
    ELSE IF search(t, k) # Null THEN t
    ELSE LET top == Ins(t, k)
         IN  IF top.right = Null THEN top.left
             ELSE BNode(<<top.key>>, <<top.left, top.right>>)

-----------------------------------------------------------------------------
(* deletion.                                                               *)

MinKeys == (Order + 1) \div 2 - 1

BorrowLeft(P, i) ==
    LET L == P.vnode[i - 1]
        X == P.vnode[i]
    IN  [P EXCEPT !.keys[i - 1] = Last(L.keys),
                  !.vnode[i - 1] = BNode(Front(L.keys), Front(L.vnode)),
                  !.vnode[i] = BNode(<<P.keys[i - 1]>> \o X.keys, <<Last(L.vnode)>> \o X.vnode)]

BorrowRight(P, i) ==
    LET R == P.vnode[i + 1]
        X == P.vnode[i]
    IN  [P EXCEPT !.keys[i] = Head(R.keys),
                  !.vnode[i + 1] = BNode(Tail(R.keys), Tail(R.vnode)),
                  !.vnode[i] = BNode(X.keys \o <<P.keys[i]>>, X.vnode \o <<Head(R.vnode)>>)]

\* Children i and i + 1 become one, around the key between them.
Merge(P, i) ==
    LET L == P.vnode[i]
        R == P.vnode[i + 1]
    IN  BNode(RemoveAt(P.keys, i),
              RemoveAt([P.vnode EXCEPT ![i] = BNode(L.keys \o <<P.keys[i]>> \o R.keys,
                                                    L.vnode \o R.vnode)], i + 1))

\* The loop's turn at child i of P.
Rebalanced(P, i) ==
    LET Rich(j) == j \in DOMAIN P.vnode /\ P.vnode[j] # Null /\ Len(P.vnode[j].keys) > MinKeys
    IN  IF Len(P.vnode[i].keys) >= MinKeys THEN P
        ELSE IF Rich(i - 1) THEN BorrowLeft(P, i)
        ELSE IF Rich(i + 1) THEN BorrowRight(P, i)
        ELSE Merge(P, IF i > 1 THEN i - 1 ELSE i)

RECURSIVE Greatest(_)
Greatest(t) == IF Last(t.vnode) = Null THEN Last(t.keys) ELSE Greatest(Last(t.vnode))

RECURSIVE WithoutGreatest(_)
WithoutGreatest(t) ==
    IF Last(t.vnode) = Null THEN BNode(Front(t.keys), Front(t.vnode))
    ELSE LET i == Len(t.vnode) IN Rebalanced([t EXCEPT !.vnode[i] = WithoutGreatest(@)], i)

RECURSIVE Del(_, _)
Del(t, k) ==
    LET i == Place(t, k)
    IN  IF ~Holds(t, k) THEN Rebalanced([t EXCEPT !.vnode[i] = Del(@, k)], i)
        ELSE IF IsLeaf(t) THEN BNode(RemoveAt(t.keys, i), RemoveAt(t.vnode, i + 1))
        ELSE Rebalanced([t EXCEPT !.keys[i] = Greatest(t.vnode[i]),
                                  !.vnode[i] = WithoutGreatest(@)], i)

\* A root without keys gives way to its only child, nullptr if it was a leaf.
deletion(t, k) ==
    IF search(t, k) = Null THEN t
    ELSE LET top == Del(t, k) IN IF top.keys = <<>> THEN top.vnode[1] ELSE top

-----------------------------------------------------------------------------
(* What the tests ask of a tree (validate_node), and more: every leaf at   *)
(* one depth, no node but the root below MinKeys, the keys of the whole    *)
(* tree in order.                                                          *)

RECURSIVE Depths(_)
Depths(t) == IF t = Null THEN {0} ELSE {d + 1 : d \in UNION {Depths(t.vnode[i]) : i \in DOMAIN t.vnode}}

RECURSIVE validate_node(_)
validate_node(t) ==
    t # Null => /\ \A i \in 1 .. Len(t.keys) - 1 : t.keys[i] < t.keys[i + 1]
                /\ Len(t.vnode) = Len(t.keys) + 1
                /\ Len(t.keys) <= Order
                /\ \A i \in DOMAIN t.vnode : validate_node(t.vnode[i])

RECURSIVE Filled(_)
Filled(t) == t # Null => Len(t.keys) >= MinKeys /\ \A i \in DOMAIN t.vnode : Filled(t.vnode[i])

validate_tree(t) ==
    LET s == flatten_tree(t)
    IN  /\ validate_node(t)
        /\ Cardinality(Depths(t)) = 1
        /\ t # Null => t.keys # <<>> /\ \A i \in DOMAIN t.vnode : Filled(t.vnode[i])
        /\ \A i \in 1 .. Len(s) - 1 : s[i] < s[i + 1]
=============================================================================
