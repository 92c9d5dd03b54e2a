------------------------------ MODULE AvlTree ------------------------------
(***************************************************************************)
(* class AVLtree of src/Data_structures/AVLTree.hpp, the tree as a value   *)
(* and its operations as operators.  A node carries its balance factor,    *)
(* which the code keeps in the map heightb beside the nodes.  The loops    *)
(* that walk up from a changed place, searching for each parent anew, are  *)
(* the way back out of the recursion; `done` is their break.               *)
(***************************************************************************)
EXTENDS Integers, Sequences, SequencesExt

CONSTANTS
    Null,    \* nullptr
    Crash    \* the outcome of an operation that dereferences nullptr

Node(key, bf, left, right) == [key |-> key, bf |-> bf, left |-> left, right |-> right]
Leaf(key) == Node(key, 0, Null, Null)

\* heightb[n]; the entry of nullptr is never written.
BF(n) == IF n = Null THEN 0 ELSE n.bf

RECURSIVE InOrder(_)
InOrder(t) == IF t = Null THEN <<>> ELSE InOrder(t.left) \o <<t.key>> \o InOrder(t.right)
KeysOf(t) == ToSet(InOrder(t))

RECURSIVE heightOp(_)
heightOp(t) ==
    IF t = Null THEN 0
    ELSE 1 + (IF heightOp(t.left) > heightOp(t.right) THEN heightOp(t.left) ELSE heightOp(t.right))

-----------------------------------------------------------------------------
(* Search, and what a walk to a key passes.                                *)

\* The nodes from t down to the key, or to where it would be.
RECURSIVE Walk(_, _)
Walk(t, k) ==
    IF t = Null THEN <<>>
    ELSE IF t.key = k THEN <<t>>
    ELSE <<t>> \o Walk(IF t.key > k THEN t.left ELSE t.right, k)

search(t, k) == LET w == Walk(t, k) IN IF w # <<>> /\ Last(w).key = k THEN Last(w) ELSE Null

RECURSIVE Least(_)
Least(t) == IF t.left = Null THEN t ELSE Least(t.left)

\* Without a right subtree: up to the first node that is left from below.
bst_succesor(t, x) ==
    LET w    == Walk(t, x.key)
        last == {i \in 1 .. Len(w) - 1 : w[i].left = w[i + 1]}
    IN  IF x.right # Null THEN Least(x.right)
        ELSE IF last = {} THEN Null
        ELSE w[CHOOSE i \in last : \A j \in last : j <= i]

\* Onward from one node to the other; past the last node it dereferences nullptr.
RECURSIVE Onward(_, _, _)
Onward(t, n, end) ==
    IF n = end THEN <<n.key>>
    ELSE LET next == bst_succesor(t, n)
             rest == IF next = Null THEN Crash ELSE Onward(t, next, end)
         IN  IF rest = Crash THEN Crash ELSE <<n.key>> \o rest
inorder_range_traversal(t, k1, k2) ==
    IF Null \in {search(t, k1), search(t, k2)} THEN <<>>
    ELSE Onward(t, search(t, k1), search(t, k2))

-----------------------------------------------------------------------------
(* Rotations about f, whose child s comes up.  A missing child crashes.    *)

\* Mutant: the subtree between the two nodes goes to the wrong side.
left_rotate_crossed(f) ==
    IF f.right = Null THEN Crash
    ELSE Node(f.right.key, 0, Node(f.key, 0, f.right.left, f.left), f.right.right)
left_rotate(f) ==
    IF f.right = Null THEN Crash
    ELSE LET s  == f.right
             bf == IF s.bf = 0 THEN 1 ELSE 0
         IN  Node(s.key, -bf, Node(f.key, bf, f.left, s.left), s.right)

right_rotate(f) ==
    IF f.left = Null THEN Crash
    ELSE LET s  == f.left
             bf == IF s.bf = 0 THEN -1 ELSE 0
         IN  Node(s.key, -bf, s.left, Node(f.key, bf, s.right, f.right))

\* g comes up between a, which is below it on the left, and b.
Between(g, a, b) ==
    Node(g.key, 0, [a EXCEPT !.bf = IF g.bf > 0 THEN -1 ELSE 0, !.right = g.left],
                   [b EXCEPT !.bf = IF g.bf < 0 THEN 1 ELSE 0, !.left = g.right])

left_right_rotate(f) ==
    IF f.right = Null \/ f.right.left = Null THEN Crash
    ELSE Between(f.right.left, f, f.right)

right_left_rotate(f) ==
    IF f.left = Null \/ f.left.right = Null THEN Crash
    ELSE Between(f.left.right, f.left, f)

-----------------------------------------------------------------------------
(* insertion.                                                              *)

Step(tree, done) == [tree |-> tree, done |-> done]

\* The loop at X after its right, or left, subtree became higher.
\* Mutant: a node that a taller subtree brings into balance does not end the walk.
GrownRightOnward(X) ==
    IF X.bf > 0
    THEN Step(IF BF(X.right) >= 0 THEN left_rotate(X) ELSE left_right_rotate(X), TRUE)
    ELSE Step([X EXCEPT !.bf = @ + 1], FALSE)
\* Mutant: no rotation.
GrownRightHigher(X) == Step([X EXCEPT !.bf = @ + 1], X.bf < 0)
GrownRight(X) ==
    IF X.bf > 0
    THEN Step(IF BF(X.right) >= 0 THEN left_rotate(X) ELSE left_right_rotate(X), TRUE)
    ELSE IF X.bf < 0 THEN Step([X EXCEPT !.bf = 0], TRUE)
    ELSE Step([X EXCEPT !.bf = 1], FALSE)

GrownLeft(X) ==
    IF X.bf < 0
    THEN Step(IF BF(X.left) <= 0 THEN right_rotate(X) ELSE right_left_rotate(X), TRUE)
    ELSE IF X.bf > 0 THEN Step([X EXCEPT !.bf = 0], TRUE)
    ELSE Step([X EXCEPT !.bf = -1], FALSE)

\* X has a new subtree on one side; next is the loop's step there, unless the walk is over.
Up(X, sub, next) ==
    IF sub.tree = Crash THEN Step(Crash, TRUE)
    ELSE IF sub.done THEN Step(X, TRUE) ELSE next

\* A key that is there is replaced by the new leaf, with all below it.
RECURSIVE Ins(_, _)
Ins(t, k) ==
    IF t = Null \/ t.key = k THEN Step(Leaf(k), FALSE)
    ELSE IF t.key < k
    THEN LET sub == Ins(t.right, k)
             X   == [t EXCEPT !.right = sub.tree]
         IN  Up(X, sub, GrownRight(X))
    ELSE LET sub == Ins(t.left, k)
             X   == [t EXCEPT !.left = sub.tree]
         IN  Up(X, sub, GrownLeft(X))

insertion(t, k) == Ins(t, k).tree

-----------------------------------------------------------------------------
(* deletion.                                                               *)

\* The loop at X when its subtree N became lower.  A missing subtree on the left is taken
\* for N first; a rotation on the right takes the double one where the single one is due.
\* Mutant: the walk ends at a node that became lower.
ShrunkStops(X, N) ==
    IF X.left = N
    THEN IF X.bf > 0
         THEN Step(IF BF(X.right) < 0 THEN left_right_rotate(X) ELSE left_rotate(X), BF(X.right) = 0)
         ELSE Step([X EXCEPT !.bf = @ + 1], TRUE)
    ELSE IF X.bf < 0
    THEN Step(IF BF(X.left) <= 0 THEN right_left_rotate(X) ELSE right_rotate(X), BF(X.left) = 0)
    ELSE Step([X EXCEPT !.bf = @ - 1], TRUE)
Shrunk(X, N) ==
    IF X.left = N
    THEN IF X.bf > 0
         THEN Step(IF BF(X.right) < 0 THEN left_right_rotate(X) ELSE left_rotate(X), BF(X.right) = 0)
         ELSE Step([X EXCEPT !.bf = @ + 1], X.bf = 0)
    ELSE IF X.bf < 0
    THEN Step(IF BF(X.left) <= 0 THEN right_left_rotate(X) ELSE right_rotate(X), BF(X.left) = 0)
    ELSE Step([X EXCEPT !.bf = @ - 1], X.bf = 0)

ShrunkUp(X, sub) == Up(X, sub, Shrunk(X, sub.tree))

\* t without its least node.
RECURSIVE WithoutLeast(_)
WithoutLeast(t) ==
    IF t.left = Null THEN Step(t.right, FALSE)
    ELSE LET sub == WithoutLeast(t.left) IN ShrunkUp([t EXCEPT !.left = sub.tree], sub)

\* bst_delete and the walk up.  The successor that takes the place of a node with two
\* children keeps its own balance factor.
RECURSIVE Del(_, _)
Del(t, k) ==
    IF t = Null THEN Step(Null, TRUE)
    ELSE IF t.key > k
    THEN LET sub == Del(t.left, k)  IN ShrunkUp([t EXCEPT !.left = sub.tree], sub)
    ELSE IF t.key < k
    THEN LET sub == Del(t.right, k) IN ShrunkUp([t EXCEPT !.right = sub.tree], sub)
    ELSE IF t.left = Null THEN Step(t.right, FALSE)
    ELSE IF t.right = Null THEN Step(t.left, FALSE)
    ELSE LET y   == Least(t.right)
             sub == WithoutLeast(t.right)
         IN  ShrunkUp(Node(y.key, y.bf, t.left, sub.tree), sub)

deletion(t, k) == Del(t, k).tree

-----------------------------------------------------------------------------
(* Join, split and union.                                                  *)

RECURSIVE recomputeBF(_)
recomputeBF(t) ==
    IF t = Null THEN Null
    ELSE Node(t.key, heightOp(t.right) - heightOp(t.left), recomputeBF(t.left), recomputeBF(t.right))

\* The last test is the wrong way round: a T_ that is too high stays.
RECURSIVE RightAVl(_, _, _)
RightAVl(LT, RT, k) ==
    LET C == LT.right IN
    IF heightOp(C) <= heightOp(RT) + 1
    THEN LET T == Node(k, 0, C, RT)
             m == Node(LT.key, 0, LT.left, T)
         IN  IF heightOp(LT.left) + 1 >= heightOp(T) THEN m ELSE left_right_rotate(m)
    ELSE LET T == RightAVl(C, RT, k)
             m == Node(LT.key, 0, LT.left, T)
         IN  IF heightOp(LT.left) <= heightOp(T) + 1 THEN m ELSE left_rotate(m)

RECURSIVE LeftAVL(_, _, _)
LeftAVL(LT, RT, k) ==
    LET C == RT.left IN
    IF heightOp(C) <= heightOp(LT) + 1
    THEN LET T == Node(k, 0, LT, C)
             m == Node(RT.key, 0, T, RT.right)
         IN  IF heightOp(RT.right) + 1 >= heightOp(T) THEN m ELSE right_left_rotate(m)
    ELSE LET T == LeftAVL(LT, C, k)
             m == Node(RT.key, 0, T, RT.right)
         IN  IF heightOp(RT.right) + 1 >= heightOp(T) THEN m ELSE right_rotate(m)

\* Mutant: the key between goes on top whatever the heights.
JoingOpOnTop(LT, RT, k) == recomputeBF(Node(k, 0, LT, RT))
JoingOp(LT, RT, k) ==
    recomputeBF(IF heightOp(LT) = heightOp(RT) THEN Node(k, 0, LT, RT)
                ELSE IF heightOp(LT) > heightOp(RT) THEN RightAVl(LT, RT, k)
                ELSE LeftAVL(LT, RT, k))

RECURSIVE SplitTrees(_, _)
SplitTrees(t, k) ==
    IF t = Null THEN <<Null, Null>>
    ELSE IF t.key = k THEN <<recomputeBF(t.left), recomputeBF(t.right)>>
    ELSE IF t.key < k
    THEN LET s == SplitTrees(t.left, k) IN <<s[1], JoingOp(s[2], t.right, t.key)>>
    ELSE LET s == SplitTrees(t.right, k) IN <<JoingOp(t.left, s[1], t.key), s[2]>>

RECURSIVE UnionTrees(_, _)
UnionTrees(t1, t2) ==
    IF t1 = Null THEN t2
    ELSE IF t2 = Null THEN t1
    ELSE LET s == SplitTrees(t2, t1.key)
         IN  JoingOp(UnionTrees(s[1], t1.left), UnionTrees(s[2], t1.right), t1.key)

-----------------------------------------------------------------------------
(* What the code's own validators ask of a tree (1052-1109).               *)

validateBST(t) == LET s == InOrder(t) IN \A i \in 1 .. Len(s) - 1 : s[i] < s[i + 1]

RECURSIVE validateAVL(_)
validateAVL(t) ==
    t # Null => /\ t.bf \in -1 .. 1
                /\ t.bf = heightOp(t.right) - heightOp(t.left)
                /\ validateAVL(t.left)
                /\ validateAVL(t.right)

assertCorrect(t) == t # Crash /\ validateBST(t) /\ validateAVL(t)
=============================================================================
