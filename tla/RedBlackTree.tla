---------------------------- MODULE RedBlackTree ----------------------------
(***************************************************************************)
(* class RedBlackTree of src/Data_structures/RedBlackTree.cpp, the tree as *)
(* a value and its operations as operators.  child is the union's array;   *)
(* get_Color(nullptr) is black.  The parent links always follow the child  *)
(* links (each place that moves a node sets both), so the walks to parents *)
(* are the way back out of the recursion.                                  *)
(***************************************************************************)
EXTENDS Integers, Sequences, SequencesExt

CONSTANTS
    Null,    \* nullptr
    Crash    \* the outcome of an operation that dereferences nullptr

Sides == {"LEFT", "RIGHT"}
return_dir_opposite(dir) == IF dir = "RIGHT" THEN "LEFT" ELSE "RIGHT"

Node(key, color, left, right) ==
    [key |-> key, color |-> color, child |-> ("LEFT" :> left @@ "RIGHT" :> right)]
get_Color(n) == IF n = Null THEN "black" ELSE n.color
Painted(n, color) == [n EXCEPT !.color = color]

RECURSIVE inorder(_)
inorder(t) ==
    IF t = Null THEN <<>> ELSE inorder(t.child["LEFT"]) \o <<t.key>> \o inorder(t.child["RIGHT"])

Side(t, k) == IF t.key >= k THEN "LEFT" ELSE "RIGHT"

RECURSIVE search(_, _)
search(t, k) == IF t = Null \/ t.key = k THEN t ELSE search(t.child[Side(t, k)], k)

subtree_rotation(sub, dir) ==
    LET other == return_dir_opposite(dir)
        up    == sub.child[other]
    IN  IF up = Null THEN Crash
        ELSE [up EXCEPT !.child[dir] = [sub EXCEPT !.child[other] = up.child[dir]]]

-----------------------------------------------------------------------------
(* insertion.  On the way up, `red` says what the loop has still to look   *)
(* at: nothing, the root of the subtree (N), or a red child of its red     *)
(* root (N, on side dir of X).                                             *)

Grown(tree, red, dir) == [tree |-> tree, red |-> red, dir |-> dir]
Settled(tree) == Grown(tree, "none", "LEFT")

\* Case 5 and 6 at the grandparent G, whose child X on side dir has N on side below.
Lifted(G, dir, below) ==
    LET G2  == IF below = dir THEN G ELSE [G EXCEPT !.child[dir] = subtree_rotation(@, dir)]
        top == subtree_rotation(G2, return_dir_opposite(dir))
    IN  [top EXCEPT !.color = "black", !.child[return_dir_opposite(dir)].color = "red"]

\* The loop's turn at t, whose child on side dir is new.
InsertFixed(t, dir, sub) ==
    LET other == return_dir_opposite(dir)
        n     == [t EXCEPT !.child[dir] = sub.tree]
    IN  IF sub.red = "none" \/ (sub.red = "root" /\ t.color = "black") THEN Settled(n)
        ELSE IF sub.red = "root" THEN Grown(n, "child", dir)
        ELSE IF get_Color(t.child[other]) = "black" THEN Settled(Lifted(n, dir, sub.dir))
        ELSE Grown([n EXCEPT !.color = "red", !.child[dir].color = "black",
                             !.child[other].color = "black"], "root", dir)

\* A key that is there is replaced by the new red leaf, with all below it.
RECURSIVE Ins(_, _)
Ins(t, k) ==
    IF t = Null \/ t.key = k THEN Grown(Node(k, "red", Null, Null), "root", "LEFT")
    ELSE InsertFixed(t, Side(t, k), Ins(t.child[Side(t, k)], k))

\* Case 4: a red root with a red child becomes black.
insertion(t, k) ==
    LET top == Ins(t, k)
    IN  IF top.red = "child" THEN Painted(top.tree, "black") ELSE top.tree

-----------------------------------------------------------------------------
(* deletion.                                                               *)

Step(tree, done) == [tree |-> tree, done |-> done]

\* Mutant: the node that comes up does not take the colour of the old root.
Case6Black(X, dir) ==
    LET top == subtree_rotation(X, dir)
    IN  [top EXCEPT !.child["LEFT"].color = "black", !.child["RIGHT"].color = "black"]
Case6(X, dir) ==
    LET top == subtree_rotation(X, dir)
    IN  [top EXCEPT !.color = X.color, !.child["LEFT"].color = "black", !.child["RIGHT"].color = "black"]
Case5(X, dir) ==
    LET other == return_dir_opposite(dir)
        S     == subtree_rotation(X.child[other], other)
    IN  Case6([X EXCEPT !.child[other] = [S EXCEPT !.color = "black", !.child[other].color = "red"]], dir)

\* Cases 5, 6, 4 and 2, in the order of their tests, at X with sibling S.  An X and S of
\* other colours are passed by.
WithBlackSibling(X, dir) ==
    LET other == return_dir_opposite(dir)
        S == X.child[other]
        C == get_Color(S.child[dir])
        D == get_Color(S.child[other])
    IN  IF S.color = "red" THEN Step(X, FALSE)
        ELSE IF C = "red" /\ D = "black" THEN Step(Case5(X, dir), TRUE)
        ELSE IF D = "red" THEN Step(Case6(X, dir), TRUE)
        ELSE Step([X EXCEPT !.color = "black", !.child[other].color = "red"], X.color = "red")

\* The loop's turn at X, whose child on side dir lost a black node.
DeleteFixed(X, dir) ==
    LET other == return_dir_opposite(dir)
        S   == X.child[other]
        top == subtree_rotation(X, dir)
        sub == WithBlackSibling(Painted(top.child[dir], "red"), dir)
    IN  IF S = Null THEN Step(Crash, TRUE)
        ELSE IF X.color = "black" /\ S.color = "red"
                /\ \A d \in Sides : get_Color(S.child[d]) = "black"
        THEN IF S.child[dir] = Null THEN Step(Crash, TRUE)
             ELSE Step([top EXCEPT !.color = "black", !.child[dir] = sub.tree], TRUE)
        ELSE WithBlackSibling(X, dir)

ShrunkUp(t, dir, sub) ==
    IF sub.tree = Crash THEN Step(Crash, TRUE)
    ELSE LET X == [t EXCEPT !.child[dir] = sub.tree]
         IN  IF sub.done THEN Step(X, TRUE) ELSE DeleteFixed(X, dir)

\* A node without two children is taken out.  A left child is not looked at.
Unlinked(pod) ==
    LET r == pod.child["RIGHT"]
    IN  IF pod.color = "red" THEN Step(r, TRUE)
        ELSE IF r # Null THEN Step(Painted(r, "black"), TRUE)
        ELSE Step(Null, FALSE)

RECURSIVE Least(_)
Least(t) == IF t.child["LEFT"] = Null THEN t ELSE Least(t.child["LEFT"])

RECURSIVE WithoutLeast(_)
WithoutLeast(t) ==
    IF t.child["LEFT"] = Null THEN Unlinked(t) ELSE ShrunkUp(t, "LEFT", WithoutLeast(t.child["LEFT"]))

TwoChildren(n) == \A d \in Sides : n.child[d] # Null

RECURSIVE Del(_, _)
Del(t, k) ==
    IF t.key # k THEN ShrunkUp(t, Side(t, k), Del(t.child[Side(t, k)], k))
    ELSE IF TwoChildren(t)
    THEN ShrunkUp([t EXCEPT !.key = Least(t.child["RIGHT"]).key], "RIGHT", WithoutLeast(t.child["RIGHT"]))
    ELSE Unlinked(t)

\* A root without two children gives way to its only one.
deletion(t, k) ==
    IF search(t, k) = Null THEN t
    ELSE IF t.key = k /\ ~TwoChildren(t)
    THEN LET only == IF t.child["LEFT"] # Null THEN t.child["LEFT"] ELSE t.child["RIGHT"]
         IN  IF only = Null THEN Null ELSE Painted(only, "black")
    ELSE Del(t, k).tree

-----------------------------------------------------------------------------
(* Join, split and union.                                                  *)

\* One more than the black nodes on the way to the greatest key.
RECURSIVE black_height(_)
black_height(t) ==
    IF t = Null THEN 1
    ELSE black_height(t.child["RIGHT"]) + (IF t.color = "black" THEN 1 ELSE 0)

\* t, whose child on side dir was joined: two reds below a black t are rotated apart.
\* Mutant: they are not.
JoinFixedNot(t, dir) == t
JoinFixed(t, dir) ==
    LET c == t.child[dir]
    IN  IF t.color = "black" /\ get_Color(c) = "red" /\ get_Color(c.child[dir]) = "red"
        THEN subtree_rotation([t EXCEPT !.child[dir].child[dir].color = "black"], return_dir_opposite(dir))
        ELSE t

RECURSIVE RightRBJoin(_, _, _)
RightRBJoin(t1, t2, k) ==
    IF t1 = Null \/ (t1.color = "black" /\ black_height(t1) = black_height(t2))
    THEN Node(k, "red", t1, t2)
    ELSE JoinFixed([t1 EXCEPT !.child["RIGHT"] = RightRBJoin(@, t2, k)], "RIGHT")

RECURSIVE LeftRBJoin(_, _, _)
LeftRBJoin(t1, t2, k) ==
    IF t2 = Null \/ (t2.color = "black" /\ black_height(t1) = black_height(t2))
    THEN Node(k, "red", t1, t2)
    ELSE JoinFixed([t2 EXCEPT !.child["LEFT"] = LeftRBJoin(t1, @, k)], "LEFT")

Topped(t, dir) ==
    IF t.color = "red" /\ get_Color(t.child[dir]) = "red" THEN Painted(t, "black") ELSE t

JoinOP(t1, t2, k) ==
    IF black_height(t1) > black_height(t2) THEN Topped(RightRBJoin(t1, t2, k), "RIGHT")
    ELSE IF black_height(t1) < black_height(t2) THEN Topped(LeftRBJoin(t1, t2, k), "LEFT")
    ELSE Node(k, IF get_Color(t1) = "black" /\ get_Color(t2) = "black" THEN "red" ELSE "black", t1, t2)

RECURSIVE SplitOP(_, _)
SplitOP(t, k) ==
    IF t = Null THEN <<Null, Null>>
    ELSE LET l == t.child["LEFT"]
             r == t.child["RIGHT"]
         IN  IF t.key = k THEN <<l, r>>
             ELSE IF t.key > k
             THEN LET s == SplitOP(l, k) IN <<s[1], JoinOP(s[2], r, t.key)>>
             ELSE LET s == SplitOP(r, k) IN <<JoinOP(l, s[1], t.key), s[2]>>

RECURSIVE unionOP(_, _)
unionOP(t1, t2) ==
    IF t1 = Null THEN t2
    ELSE IF t2 = Null THEN t1
    ELSE LET s == SplitOP(t1, t2.key)
         IN  JoinOP(unionOP(t2.child["LEFT"], s[1]), unionOP(s[2], t2.child["RIGHT"]), t2.key)

-----------------------------------------------------------------------------
(* What the tests ask of a tree.                                           *)

RECURSIVE validate_black_height(_)
validate_black_height(t) ==
    t # Null => /\ black_height(t.child["LEFT"]) = black_height(t.child["RIGHT"])
                /\ \A d \in Sides : validate_black_height(t.child[d])

RECURSIVE validate_red_property(_)
validate_red_property(t) ==
    t # Null => \A d \in Sides :
                   /\ ~(t.color = "red" /\ get_Color(t.child[d]) = "red")
                   /\ validate_red_property(t.child[d])

validate_bst(t) == LET s == inorder(t) IN \A i \in 1 .. Len(s) - 1 : s[i] < s[i + 1]

validate_tree(t) ==
    t # Crash /\ validate_bst(t) /\ validate_red_property(t) /\ validate_black_height(t)
=============================================================================
