------------------------------ MODULE Memtable ------------------------------
(***************************************************************************)
(* The memtable over its index: Memtable, AVL_interface and B_interface of *)
(* src/v1/IN-MEM_Interface.hpp.  insert and erase pass on to the tree and  *)
(* say true whatever happened; find and scan read it.  The enumeration     *)
(* names two more trees, RB and Bplus, which have no adapter: they get the *)
(* same calls on their own methods.  An operation that dereferences        *)
(* nullptr ends the process, and with it the behaviour.                    *)
(***************************************************************************)
EXTENDS Integers, Sequences, FiniteSets, SequencesExt

CONSTANTS
    Starts,      \* [index, tree, keys, ops]: an index, its first tree, the client's keys, its calls
    Unbounded,   \* any number of calls
    Middle,      \* a key above those of the first trees that are joined
    Above,       \* for AVL and RB: balanced trees of keys above Middle, to join with
    Others,      \* for AVL and RB: balanced trees of any keys, to unite with
    Order,       \* of the B-tree and the B+ tree
    Null, Crash

ASSUME MemtableAssumption == Middle \in Nat /\ Order \in Nat /\ Unbounded \notin Nat

VARIABLES
    index,       \* the Memtable_tree_interfaces of this memtable
    tree,
    keys, ops,   \* the client: its keys, and how many calls it has left
    stored,      \* history: the keys inserted and not erased since
    spoilt       \* history: a call was made that the tree is known to get wrong

vars == <<index, tree, keys, ops, stored, spoilt>>

Avl   == INSTANCE AvlTree
RB    == INSTANCE RedBlackTree
B     == INSTANCE BTree
Bplus == INSTANCE BPlusTree

-----------------------------------------------------------------------------
(* What the index does.                                                    *)

Inserted(t, k) ==
    CASE index = "AVL"   -> Avl!insertion(t, k)
      [] index = "RB"    -> RB!insertion(t, k)
      [] index = "B"     -> B!insertion(t, k)
      [] index = "Bplus" -> Bplus!insertion(t, k)

\* Mutant: a key with two children is not taken out.
EraseTips(t, k) ==
    LET n == Avl!search(t, k)
    IN  IF index = "AVL" /\ n # Null /\ n.left # Null /\ n.right # Null THEN t
        ELSE CASE index = "AVL"   -> Avl!deletion(t, k)
               [] index = "RB"    -> RB!deletion(t, k)
               [] index = "B"     -> B!deletion(t, k)
               [] index = "Bplus" -> Bplus!deletion(t, k)
Erased(t, k) ==
    CASE index = "AVL"   -> Avl!deletion(t, k)
      [] index = "RB"    -> RB!deletion(t, k)
      [] index = "B"     -> B!deletion(t, k)
      [] index = "Bplus" -> Bplus!deletion(t, k)

find(k) ==
    CASE index = "AVL"   -> Avl!search(tree, k) # Null
      [] index = "RB"    -> RB!search(tree, k) # Null
      [] index = "B"     -> B!search(tree, k) # Null
      [] index = "Bplus" -> Bplus!search(tree, k)

\* The red-black tree has no traversal of a range.
scan(start, end) ==
    CASE index = "AVL"   -> Avl!inorder_range_traversal(tree, start, end)
      [] index = "B"     -> B!inorder_range_traversal(tree, start, end)
      [] index = "Bplus" -> Bplus!range_lookup(tree, start, end)

KeysOf(t) ==
    ToSet(CASE index = "AVL"   -> Avl!InOrder(t)
            [] index = "RB"    -> RB!inorder(t)
            [] index = "B"     -> B!flatten_tree(t)
            [] index = "Bplus" -> Bplus!LeafKeys(t))

\* The validator of the tree's own tests.
Valid(t) ==
    CASE index = "AVL"   -> Avl!assertCorrect(t)
      [] index = "RB"    -> RB!validate_tree(t)
      [] index = "B"     -> B!validate_tree(t)
      [] index = "Bplus" -> Bplus!validate_all(t)

-----------------------------------------------------------------------------
(* The calls.                                                              *)

\* A key in an AVL or red-black tree is replaced together with the subtree below it.
InsertSpoils(k) == index \in {"AVL", "RB"} /\ k \in stored

\* The red-black tree drops the left child of the node it takes out.  The B+ tree copies
\* the first key of an internal node into the separator before it, and a leaf that borrows from
\* the right leaves the borrowed key as the separator.
DropsLeftChild(k) ==
    LET n == RB!search(tree, k)
    IN  n \notin {Null, tree} /\ n.child["RIGHT"] = Null /\ n.child["LEFT"] # Null

RECURSIVE NodeAt(_, _)
NodeAt(t, path) == IF path = <<>> THEN t ELSE NodeAt(t.vnode[Head(path)], Tail(path))
BorrowsFromRight(P, c) ==
    LET Rich(j) == j \in DOMAIN P.vnode /\ Len(P.vnode[j].keys) > Bplus!min_keys
    IN  Len(P.vnode[c].keys) = Bplus!min_keys /\ ~Rich(c - 1) /\ Rich(c + 1)
WrongSeparator(k) ==
    LET path == Bplus!Path(tree, k)
    IN  /\ Bplus!search(tree, k)
        /\ path # <<>>
        /\ \/ \E i \in 1 .. Len(path) - 1 : path[i] > 1
           \/ BorrowsFromRight(NodeAt(tree, Front(path)), Last(path))

EraseSpoils(k) ==
    CASE index = "RB"    -> DropsLeftChild(k)
      [] index = "Bplus" -> WrongSeparator(k)
      [] OTHER           -> FALSE

Call == /\ tree # Crash
        /\ ops # 0
        /\ ops' = IF ops = Unbounded THEN ops ELSE ops - 1
        /\ UNCHANGED <<index, keys>>

\* A second insertion of a key is no call for the B+ tree here: it would keep both.
insert(k) ==
    /\ Call
    /\ index = "Bplus" => k \notin KeysOf(tree)
    /\ tree' = Inserted(tree, k)
    /\ stored' = stored \cup {k}
    /\ spoilt' = (spoilt \/ InsertSpoils(k))

erase(k) ==
    /\ Call
    /\ tree' = Erased(tree, k)
    /\ stored' = stored \ {k}
    /\ spoilt' = (spoilt \/ EraseSpoils(k))

Init == \E s \in Starts :
    /\ index = s.index /\ tree = s.tree /\ keys = s.keys /\ ops = s.ops
    /\ stored = KeysOf(s.tree)
    /\ spoilt = FALSE
Next == \E k \in keys : insert(k) \/ erase(k)
Spec == Init /\ [][Next]_vars

-----------------------------------------------------------------------------
(* Properties.                                                             *)

\* Every variable has its type, and no balance factor leaves its range.
RECURSIVE IsAvl(_)
IsAvl(t) == t # Null => t.bf \in -1 .. 1 /\ IsAvl(t.left) /\ IsAvl(t.right)
TypeOK ==
    /\ index \in {"AVL", "RB", "B", "Bplus"}
    /\ ops \in Nat \cup {Unbounded}
    /\ tree # Crash => KeysOf(tree) \subseteq Nat
    /\ tree # Crash /\ index = "AVL" => IsAvl(tree)
    /\ spoilt \in BOOLEAN

\* Whatever rotations do, right or wrong, they keep the order of the keys: search goes the
\* right way in every AVL and red-black tree there is, even after a key was inserted twice.
Ordered ==
    tree # Crash => /\ index = "AVL" => Avl!validateBST(tree)
                    /\ index = "RB"  => RB!validate_bst(tree)

\* Until a call the tree is known to get wrong, find finds exactly what was inserted and not
\* erased, in each of the four trees, and in an AVL tree out of balance too.  A scan from a key that
\* is there returns the keys in its range.  With another lower end the B-tree still does,
\* the B+ tree adds smaller keys of one leaf.
Running == tree # Crash /\ ~spoilt
InRange(s, t) == {k \in stored : s <= k /\ k <= t}
ScanIs(s, t, set) == /\ scan(s, t) # Crash
                     /\ ToSet(scan(s, t)) = set
                     /\ Len(scan(s, t)) = Cardinality(set)
FindAndScanRight ==
    Running =>
       /\ \A k \in keys : find(k) <=> k \in stored
       /\ KeysOf(tree) = stored
       /\ index = "AVL" => \A s, t \in stored : s <= t => ScanIs(s, t, InRange(s, t))
       /\ index = "B" => \A s, t \in keys : ScanIs(s, t, InRange(s, t))
       /\ index = "Bplus" => \A s, t \in keys :
             /\ InRange(s, t) \subseteq ToSet(scan(s, t))
             /\ ToSet(scan(s, t)) \subseteq
                   InRange(s, t) \cup IF tree = Null THEN {} ELSE ToSet(Bplus!LeafFor(tree, s).keys)

Adds   == stored \subseteq stored' /\ stored' # stored
Erases == stored' \subseteq stored /\ stored' # stored

\* A new key leaves a valid tree valid.
InsertionKeepsBalance ==
    [][Adds /\ Running /\ Valid(tree) => Valid(tree')]_vars

\* So does erasing the least key of an AVL tree, where only left sides become lower.
EraseLeastKeepsBalance ==
    [][/\ Erases /\ index = "AVL" /\ Running /\ Valid(tree)
       /\ \A k \in stored \ stored', j \in stored' : k < j
       => Valid(tree')]_vars

\* Erasing any key of the other trees leaves a valid tree valid, also when the red-black tree drops
\* keys or the B+ tree gets its separators wrong: their validators do not notice.
EraseKeepsBalance ==
    [][Erases /\ index # "AVL" /\ tree # Crash /\ Valid(tree) => Valid(tree')]_vars

\* Erasing a key takes no other key out of a B-tree, nor out of the leaves of a B+ tree, though wrong
\* separators may hide it from search; a valid red-black tree loses at most one more, the left child.
EraseTakesOneKey ==
    [][Erases /\ Crash \notin {tree, tree'} /\ index # "AVL" /\ (index = "RB" => ~spoilt)
         => Cardinality((KeysOf(tree) \ KeysOf(tree')) \ (stored \ stored')) <=
               IF index = "RB" /\ spoilt' THEN 1 ELSE 0]_vars

\* JoingOp puts together the keys of a balanced tree, the one between and those of a
\* balanced tree above, in order.  The result is balanced if the trees are equally high, or
\* the upper one is higher by two or more, or the lower one by two.
JoinSound ==
    index = "AVL" /\ Running /\ Valid(tree) =>
       \A t \in Above["AVL"] :
          LET joined == Avl!JoingOp(tree, t, Middle)
              higher == Avl!heightOp(t) - Avl!heightOp(tree)
          IN  /\ Avl!InOrder(joined) = Avl!InOrder(tree) \o <<Middle>> \o Avl!InOrder(t)
              /\ higher \in {-2, 0} \/ higher >= 2 => Avl!assertCorrect(joined)

\* UnionTrees loses no key, and keeps the keys of trees without a common one once each, but
\* their order only by luck: at a key below the one it splits at, SplitTrees descends into the left
\* subtree and gives the key itself to the upper part.  The union of two trees, neither of them
\* empty, is in order exactly when it meets the same key at the top of both, every time.
RECURSIVE SameTops(_, _)
SameTops(t1, t2) ==
    \/ Null \in {t1, t2}
    \/ t1.key = t2.key /\ SameTops(t2.left, t1.left) /\ SameTops(t2.right, t1.right)

\* Joins and unions of red-black trees are right for all heights and colours: the keys in order,
\* and with the root painted black, as the callers do, a valid tree.
RedBlackJoinsRight ==
    index = "RB" /\ Running /\ Valid(tree) =>
       /\ \A t \in Above["RB"] :
             LET joined == RB!JoinOP(tree, t, Middle)
             IN  /\ RB!inorder(joined) = RB!inorder(tree) \o <<Middle>> \o RB!inorder(t)
                 /\ RB!validate_tree(RB!Painted(joined, "black"))
       /\ \A t \in Others["RB"] :
             LET union == RB!unionOP(tree, t)
             IN  /\ ToSet(RB!inorder(union)) = stored \cup ToSet(RB!inorder(t))
                 /\ union # Null => RB!validate_tree(RB!Painted(union, "black"))

\* Every operation leaves a search tree in balance, as the tests of the tree assert.
AssertCorrect == ~spoilt => Valid(tree)
=============================================================================
