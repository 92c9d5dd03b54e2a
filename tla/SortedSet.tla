----------------------------- MODULE SortedSet -----------------------------
(***************************************************************************)
(* A sorted set, Wrap_ZSET in src/v1/IN-MEM_Helper.hpp: score_hash gives   *)
(* each member its score, score_tree is a skip list of (score, member)     *)
(* keys.  The operations of Wrap_object keep the two together, each in     *)
(* several steps and without undoing any.  Members stand for strings in    *)
(* the comparator's order, by hash and then by name.                       *)
(***************************************************************************)
EXTENDS Integers, Sequences, FiniteSets

CONSTANTS
    Members,     \* the strings clients use
    Scores,      \* the scores there are; an increment leads from one to another
    MaxHeight,   \* bound: how high height_calc makes a tower
    MaxOps       \* bound: operations that change the set

ASSUME SortedSetAssumption ==
    /\ Members \subseteq Nat \ {0}
    /\ Scores \subseteq Nat
    /\ MaxHeight \in Nat \ {0}
    /\ MaxOps \in Nat

VARIABLES
    score_hash,
    score_tree,
    nops,        \* operations so far, for the bound
    skewed       \* history: a tower was removed from more than one place behind a predecessor

vars == <<score_hash, score_tree, nops, skewed>>

-----------------------------------------------------------------------------
(* The keys: Wrap_ZZSET_internal_DB_key and its comparator.                *)

Key(score, member) == [score |-> score, member |-> member]
NegInf == Key(-1, 0)  \* below every key
Null   == Key(-2, 0)
Crash  == Key(-3, 0)

\* Mutant: scores alone order the keys.
BeforeByScore(a, b) == a.score < b.score
Before(a, b) ==
    \/ a.score < b.score
    \/ a.score = b.score /\ a.member < b.member

List == INSTANCE SkipList WITH neg_inf <- NegInf

-----------------------------------------------------------------------------
(* What the list holds, and the operations that read it.                   *)

Listed == List!KeysOf(score_tree)
KeyOfMember(m) == Key(score_hash[m], m)

get_rank(m) == List!Search(score_tree, KeyOfMember(m)).index

\* ZRANGE: the keys search_index finds for the two ranks, and what lies between them.
get_range_by_rank(start, end) ==
    LET s == List!SearchIndex(score_tree, start)
        e == List!SearchIndex(score_tree, end)
    IN  IF Null \in {s, e} THEN <<>> ELSE List!RangeSearch(score_tree, s, e)

-----------------------------------------------------------------------------
(* The operations that change it.                                          *)

\* Removing k now would take an inexact gap over: on a higher level its predecessor is not
\* its neighbour, and others stay on that level.
Skews(list, k) ==
    \E l \in 2 .. List!Height(list) :
       \E n \in DOMAIN list.levels[l] :
          /\ list.levels[l][n].right = k /\ list.levels[l][n].gap # 1
          /\ DOMAIN list.levels[l] # {NegInf, k}

Operation == nops < MaxOps /\ nops' = nops + 1

SetScore(m, s) ==
    [x \in DOMAIN score_hash \cup {m} |-> IF x = m THEN s ELSE score_hash[x]]

\* Mutant: the member is listed only when it is new.
InsertNew(m, s, h) ==
    IF m \in DOMAIN score_hash THEN score_tree ELSE List!Insert(score_tree, Key(s, m), h)
InsertMember(m, s, h) == List!Insert(score_tree, Key(s, m), h)

\* ZADD: the hash forgets a former score, the list does not.
zset_add(m, s) ==
    /\ Operation
    /\ score_hash' = SetScore(m, s)
    /\ \E h \in 1 .. MaxHeight : score_tree' = InsertMember(m, s, h)
    /\ UNCHANGED skewed

\* Without m the code sets an error and changes nothing.
remove(m) ==
    /\ Operation
    /\ m \in DOMAIN score_hash
    /\ score_hash' = [x \in DOMAIN score_hash \ {m} |-> score_hash[x]]
    /\ score_tree' = List!Delete(score_tree, KeyOfMember(m))
    /\ skewed' = (skewed \/ Skews(score_tree, KeyOfMember(m)))

\* ZINCRBY of a member there is; of another it is zset_add.  Mutant: the list gets the old
\* score on top of the new one.
MovedTwice(m, s, h) ==
    List!Insert(List!Delete(score_tree, KeyOfMember(m)), Key(score_hash[m] + s, m), h)
Moved(m, s, h) ==
    List!Insert(List!Delete(score_tree, KeyOfMember(m)), Key(s, m), h)
update_increase_by_delta(m, s) ==
    /\ Operation
    /\ m \in DOMAIN score_hash
    /\ \E h \in 1 .. MaxHeight : score_tree' = Moved(m, s, h)
    /\ score_hash' = SetScore(m, s)
    /\ skewed' = (skewed \/ Skews(score_tree, KeyOfMember(m)))

Init ==
    /\ score_hash = [m \in {} |-> 0]
    /\ score_tree = List!NewList
    /\ nops = 0
    /\ skewed = FALSE

Next ==
    \E m \in Members :
       \/ \E s \in Scores : zset_add(m, s) \/ update_increase_by_delta(m, s)
       \/ remove(m)

Spec == Init /\ [][Next]_vars

-----------------------------------------------------------------------------
(* Properties.                                                             *)

\* Every variable has its type; the keys of the list are scores of members.
TypeOK ==
    /\ DOMAIN score_hash \subseteq Members
    /\ \A m \in DOMAIN score_hash : score_hash[m] \in Scores
    /\ Listed \subseteq [score : Scores, member : Members]
    /\ score_tree.length \in Nat
    /\ nops \in 0 .. MaxOps
    /\ skewed \in BOOLEAN

\* Whatever is inserted, moved and removed, the levels stay linked in key order, a tower
\* stands on all levels below its top, no level stays empty and the length is right.
WellFormed == List!Linked(score_tree) /\ List!Towers(score_tree)

\* The key under a member's present score is in the list: remove, ZINCRBY and ZRANK,
\* which do not check what search returns, find it, even after it was rescored.
MembersListed == \A m \in DOMAIN score_hash : KeyOfMember(m) \in Listed

\* Each gap is the number of keys it spans until a tower is removed that was more than
\* one place behind its predecessor on a higher level that stays; no other removal and no
\* insertion, whatever its height, loses count.
GapsExactUntilSkewed == skewed \/ List!GapsExact(score_tree)

\* Until then search_index finds the key of each rank, ZRANK gives a member's position,
\* counted from 1, and ZRANGE from it to the last its successors.
RanksExactUntilSkewed ==
    \/ skewed
    \/ /\ List!RanksExact(score_tree)
       /\ \A m \in DOMAIN score_hash :
             LET k == KeyOfMember(m)
             IN  /\ get_rank(m) = List!Place(Listed, k)
                 /\ Len(get_range_by_rank(get_rank(m), score_tree.length))
                      = Cardinality({n \in Listed : ~Before(n, k)})

\* And every removal of that kind does: delete_key gives the predecessor the gap of the
\* removed node instead of the sum of the two less one, on no level is that right by chance,
\* and the insertion that follows in ZINCRBY does not mend it.
SkewedMiscounts == [][~skewed /\ skewed' => ~List!GapsExact(score_tree')]_vars

\* List and hash come to disagree in one way only: ZADD gives a member another score and
\* leaves its old key in the list.
Agree == Listed = {KeyOfMember(m) : m \in DOMAIN score_hash}
OnlyRescoringDisagrees ==
    [][Agree => \/ Agree'
                \/ \E m \in DOMAIN score_hash :
                     /\ score_hash'[m] # score_hash[m]
                     /\ Listed' = Listed \cup {Key(score_hash'[m], m)}]_vars
=============================================================================
