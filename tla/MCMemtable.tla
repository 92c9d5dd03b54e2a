----------------------------- MODULE MCMemtable -----------------------------
(***************************************************************************)
(* Memtable for TLC.  Each index starts empty, with any number of calls on *)
(* a few keys; B-trees and B+ trees also with three levels of nodes and a  *)
(* few calls.  The trees to join and unite with are built by insertion in  *)
(* several orders.                                                         *)
(***************************************************************************)
EXTENDS Memtable

Start(i, t, ks, n) == [index |-> i, tree |-> t, keys |-> ks, ops |-> n]
Built(insertion(_, _), s) == FoldLeft(insertion, Null, s)

Up(n) == [i \in 1 .. n |-> i]
Down(n) == [i \in 1 .. n |-> n + 1 - i]
AvlStart == {Start("AVL", Null, 1 .. 6, Unbounded)}
FourIndexes ==
    AvlStart
      \cup {Start("RB", Null, 1 .. 6, Unbounded)}
      \cup {Start("B", Null, 1 .. 7, Unbounded), Start("Bplus", Null, 1 .. 7, Unbounded)}
      \cup {Start("B", Built(B!insertion, s), {0, 2, 5, 6, 9, 12, 17}, 4) : s \in {Up(17), Down(17)}}
      \cup {Start("Bplus", Built(Bplus!insertion, s), {0, 1, 4, 7, 8, 10, 13}, 4) : s \in {Up(13), Down(14)}}

Orders == {[i \in 1 .. n |-> 10 + i] : n \in 0 .. 7}
            \cup {[i \in 1 .. n |-> 20 - i] : n \in 1 .. 7}
            \cup {<<14, 12, 16, 11, 13, 15>>, <<13, 15, 12, 11>>, <<12, 11, 14, 13>>,
                  <<15, 13, 17, 12, 14, 16, 11>>, <<13, 15, 11, 14, 16, 12, 17>>}
UpperTrees == [AVL |-> {Built(Avl!insertion, s) : s \in Orders}, RB |-> {Built(RB!insertion, s) : s \in Orders}]

Mixed == {<<2, 4, 6, 8>>, <<7, 3, 8, 5, 2>>, <<10, 9, 8>>, <<3>>, <<2>>, <<2, 1, 4, 3>>, <<4, 2, 5, 1, 3, 6>>}
MixedTrees == [AVL |-> {Built(Avl!insertion, s) : s \in Mixed}, RB |-> {Built(RB!insertion, s) : s \in Mixed}]

NoTrees == [AVL |-> {}, RB |-> {}]
=============================================================================
