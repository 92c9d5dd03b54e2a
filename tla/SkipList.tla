------------------------------ MODULE SkipList ------------------------------
(***************************************************************************)
(* The skip list of src/Data_structures/Skiplist.hpp as a value and its    *)
(* operations as operators.  Level 1 is the bottom; a level maps the keys  *)
(* of its nodes, the head's among them, to their `right` pointer and their *)
(* right_skip_gap.  The nodes of one key are a tower: `up` and `down` join *)
(* equal keys of neighbouring levels, `left` is the inverse of `right`.    *)
(* A list without levels is sl == nullptr.  The height of a new tower,     *)
(* random in the code, is a parameter.                                     *)
(***************************************************************************)
EXTENDS Integers, Sequences, FiniteSets

CONSTANTS
    neg_inf,        \* KeyType::neg_inf(), the key of the head nodes
    Null,           \* nullptr
    Crash,          \* the outcome of a walk that dereferences nullptr
    Before(_, _)    \* the comparator gives 1: the first key is the smaller

Node(right, gap) == [right |-> right, gap |-> gap]

\* A level with the head and the node of k only.
PairLevel(k, headgap, gap) ==
    [n \in {neg_inf, k} |-> IF n = neg_inf THEN Node(k, headgap) ELSE Node(Null, gap)]

\* The list as constructed: a head of one level.
NewList == [levels |-> <<[n \in {neg_inf} |-> Node(Null, 0)]>>, length |-> 0]

Height(list) == Len(list.levels)
KeysOf(list) == (UNION {DOMAIN list.levels[l] : l \in 1 .. Height(list)}) \ {neg_inf}

-----------------------------------------------------------------------------
(* search: from the top head, right while the next key is not larger, down *)
(* otherwise.  index is the sum of the gaps passed, preds the nodes left   *)
(* downwards, from the top level on, each with its index.  (The test for a  *)
(* first key that is larger, 83-96, cannot succeed: no step goes past k.)   *)

At(l, n, i) == [level |-> l, node |-> n, index |-> i]
Positions(list) ==
    {at \in [level : 1 .. Height(list), node : KeysOf(list) \cup {neg_inf}, index : Int] :
       at.node \in DOMAIN list.levels[at.level]}

Found(at) == [node |-> at.node, level |-> at.level, index |-> at.index, preds |-> <<>>]

Search(list, k) ==
    LET from[at \in Positions(list)] ==
          LET nd == list.levels[at.level][at.node]
          IN  IF at.node # k /\ nd.right # Null /\ ~Before(k, nd.right)
              THEN from[At(at.level, nd.right, at.index + nd.gap)]
              ELSE IF at.node = k \/ at.level = 1
              THEN Found(at)
              ELSE LET below == from[At(at.level - 1, at.node, at.index)]
                   IN  [below EXCEPT !.preds = <<at>> \o @]
    IN  from[At(Height(list), neg_inf, 0)]

\* The predecessor search left on level l, above the level it ended on.
PredAt(list, s, l) == s.preds[Height(list) + 1 - l]

(* search_index: the same walk, by gaps.  A walk that has not used up its  *)
(* count on the bottom level goes down to nullptr and dereferences it.     *)
SearchIndex(list, i) ==
    LET from[at \in Positions(list)] ==
          LET nd == list.levels[at.level][at.node]
          IN  IF nd.right # Null /\ at.index >= nd.gap
              THEN from[At(at.level, nd.right, at.index - nd.gap)]
              ELSE IF at.index = 0 THEN at.node
              ELSE IF at.level = 1 THEN Crash
              ELSE from[At(at.level - 1, at.node, at.index)]
    IN  IF i <= 0 \/ i > list.length THEN Null ELSE from[At(Height(list), neg_inf, i)]

\* range_search: the bottom nodes from lo to hi, none unless lo itself is in the list.
RangeSearch(list, lo, hi) ==
    LET onward[n \in KeysOf(list) \cup {Null}] ==
          IF n = Null \/ Before(hi, n) THEN <<>>
          ELSE <<n>> \o onward[list.levels[1][n].right]
    IN  IF Height(list) = 0 \/ Search(list, lo).node # lo THEN <<>> ELSE onward[lo]

-----------------------------------------------------------------------------
(* insert.                                                                 *)

\* A level with k linked in after p, under new gaps.
LinkAfter(level, p, k, pgap, kgap) ==
    [n \in DOMAIN level \cup {k} |->
       CASE n = p -> Node(k, pgap)
         [] n = k -> Node(level[p].right, kgap)
         [] OTHER -> level[n]]

Stretch(level, p, by) == [level EXCEPT ![p].gap = @ + by]

\* Mutant: the new node's own place is not counted in its predecessor's gap.
NewPredGapShort(s, p) == s.index - p.index
NewPredGap(s, p) == s.index + 1 - p.index

\* Level l of the list once the tower of k, h high, stands where s found its place.
LevelWith(list, s, k, h, l) ==
    IF l > Height(list)
    THEN PairLevel(k, s.index + 1, list.length - s.index)
    ELSE IF l = 1
    THEN LinkAfter(list.levels[1], s.node, k, 1,
                   IF list.levels[1][s.node].right = Null THEN 0 ELSE 1)
    ELSE LET p   == PredAt(list, s, l)
             gap == list.levels[l][p.node].gap
         IN  IF l > h
             THEN Stretch(list.levels[l], p.node, 1)
             ELSE LinkAfter(list.levels[l], p.node, k, NewPredGap(s, p),
                            gap + 1 - NewPredGap(s, p))

\* An empty list, with a head or without, gets one level whatever h is.
Insert(list, k, h) ==
    IF Height(list) = 0 \/ list.levels[Height(list)][neg_inf].right = Null
    THEN [levels |-> <<PairLevel(k, 1, 0)>>, length |-> 1]
    ELSE LET s    == Search(list, k)
             high == IF h > Height(list) THEN h ELSE Height(list)
         IN  IF s.node = k THEN list
             ELSE [levels |-> [l \in 1 .. high |-> LevelWith(list, s, k, h, l)],
                   length |-> list.length + 1]

-----------------------------------------------------------------------------
(* delete_key.                                                             *)

\* Mutant: the predecessor keeps its own gap.
UnlinkKept(level, k) ==
    [n \in DOMAIN level \ {k} |->
       IF level[n].right = k THEN Node(level[k].right, level[n].gap) ELSE level[n]]

\* k unlinked: its predecessor takes over its gap, and does not add its own.
Unlink(level, k) ==
    LET p == CHOOSE n \in DOMAIN level : level[n].right = k
    IN  [n \in DOMAIN level \ {k} |->
           IF n = p THEN Node(level[k].right, level[k].gap) ELSE level[n]]

\* Mutant: the gaps above the tower stay.
LevelWithoutKept(list, s, k, l) ==
    IF l > s.level THEN list.levels[l] ELSE Unlink(list.levels[l], k)
LevelWithout(list, s, k, l) ==
    IF l > s.level
    THEN Stretch(list.levels[l], PredAt(list, s, l).node, -1)
    ELSE Unlink(list.levels[l], k)

\* Levels of the tower that are left without nodes go: sl moves below them.
Emptied(levels) == {l \in 1 .. Len(levels) : levels[l][neg_inf].right = Null}
Below(levels) ==
    SubSeq(levels, 1, CHOOSE m \in 0 .. Len(levels) :
                         /\ m + 1 \in Emptied(levels) \cup {Len(levels) + 1}
                         /\ \A l \in Emptied(levels) : m < l)

\* A list without that key stays; on sl == nullptr the code dereferences it.
Delete(list, k) ==
    LET s == Search(list, k)
    IN  IF s.node # k THEN list
        ELSE [levels |-> Below([l \in 1 .. Height(list) |-> LevelWithout(list, s, k, l)]),
              length |-> list.length - 1]

-----------------------------------------------------------------------------
(* What the code's own validators ask of a list (Skiplist.hpp:527-685), and *)
(* what its tests ask of search_index.                                     *)

Place(S, n) == Cardinality({m \in S : ~Before(n, m)})

\* The right pointers of each level visit its nodes in key order, from the head to the end.
Linked(list) ==
    \A l \in 1 .. Height(list) :
       LET level == list.levels[l]
       IN  \A n \in DOMAIN level :
             IF level[n].right = Null
             THEN \A m \in DOMAIN level : ~Before(n, m)
             ELSE /\ level[n].right \in DOMAIN level
                  /\ Before(n, level[n].right)
                  /\ \A m \in DOMAIN level : Before(n, m) => ~Before(m, level[n].right)

\* Towers have no gaps, no level is empty but a new list's, and the length is the bottom's.
Towers(list) ==
    /\ \A l \in 2 .. Height(list) : DOMAIN list.levels[l] \subseteq DOMAIN list.levels[l - 1]
    /\ \A l \in 1 .. Height(list) : DOMAIN list.levels[l] = {neg_inf} => list = NewList
    /\ list.length = Cardinality(KeysOf(list))

\* A gap is the number of bottom nodes up to the next node, or to the end.
GapsExact(list) ==
    \A l \in 1 .. Height(list) : \A n \in DOMAIN list.levels[l] :
       LET nd == list.levels[l][n]
       IN  nd.gap = Cardinality({m \in KeysOf(list) :
                       Before(n, m) /\ (nd.right # Null => ~Before(nd.right, m))})

\* search_index finds the i-th key.
RanksExact(list) ==
    \A k \in KeysOf(list) : SearchIndex(list, Place(KeysOf(list), k)) = k
=============================================================================
