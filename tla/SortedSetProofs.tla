-------------------------- MODULE SortedSetProofs --------------------------
(***************************************************************************)
(* Theorems about SortedSet and the skip list it is kept in.               *)
(***************************************************************************)
EXTENDS SortedSet, TLAPS, FiniteSetTheorems, SequenceTheorems, WellFoundedInduction

-----------------------------------------------------------------------------
(* Recursion over a set whose elements are ranked by natural numbers.      *)

LEMMA LeastIn ==
    ASSUME NEW T, T \subseteq Nat, T # {}
    PROVE  \E x \in T : \A y \in T : ~(y < x)
<1>1. PICK x \in T : \A y \in T : ~ (<<y, x>> \in OpToRel(<, Nat))
  BY NatLessThanWellFounded, WFMin
<1>2. \A y \in T : ~(y < x)
  BY <1>1 DEF OpToRel
<1> QED
  BY <1>2

\* Of some elements one has the least rank.
LEMMA LeastRank ==
    ASSUME NEW S, NEW rank \in [S -> Nat], NEW T, T \subseteq S, T # {}
    PROVE  \E x \in T : \A y \in T : ~(rank[y] < rank[x])
<1> DEFINE R == {rank[x] : x \in T}
<1>1. R \subseteq Nat /\ R # {}
  OBVIOUS
<1>2. PICK n \in R : \A m \in R : ~(m < n)
  <2> HIDE DEF R
  <2> QED
    BY <1>1, LeastIn
<1>3. PICK x \in T : n = rank[x]
  OBVIOUS
<1>4. \A y \in T : rank[y] \in R
  OBVIOUS
<1> QED
  BY <1>2, <1>3, <1>4

\* F looks at elements of a lower rank only.
Contracts(F, S, V, rank) ==
    \A g, h \in [S -> V] : \A x \in S :
       (\A y \in S : rank[y] < rank[x] => g[y] = h[y]) => F[g][x] = F[h][x]

Descends(F, S, V) ==
    /\ V # {}
    /\ F \in [[S -> V] -> [S -> V]]
    /\ \E rank \in [S -> Nat] : \E bound \in Nat :
         (\A x \in S : rank[x] < bound) /\ Contracts(F, S, V, rank)

\* A recursive definition that descends has a function that satisfies it.
LEMMA RecursionHasSolution ==
    ASSUME NEW F, NEW S, NEW V, Descends(F, S, V)
    PROVE  \E f \in [S -> V] : f = F[f]
<1>0. V # {} /\ F \in [[S -> V] -> [S -> V]]
  BY DEF Descends
<1>r. PICK rank \in [S -> Nat], bound \in Nat :
        (\A x \in S : rank[x] < bound) /\ Contracts(F, S, V, rank)
  BY DEF Descends
<1> DEFINE Solves(f, n) == \A x \in S : rank[x] < n => f[x] = F[f][x]
           Unsolved == {n \in Nat : ~\E f \in [S -> V] : Solves(f, n)}
<1>1. 0 \notin Unsolved
  <2>1. PICK v : v \in V
    BY <1>0
  <2>2. [x \in S |-> v] \in [S -> V]
    BY <2>1
  <2>3. Solves([x \in S |-> v], 0)
    OBVIOUS
  <2> QED
    BY <2>2, <2>3
<1>2. ASSUME NEW n \in Nat, n \notin Unsolved
      PROVE  n + 1 \notin Unsolved
  <2>1. PICK f \in [S -> V] : Solves(f, n)
    BY <1>2
  <2>2. F[f] \in [S -> V]
    BY <1>0
  <2>3. Solves(F[f], n + 1)
    <3> SUFFICES ASSUME NEW x \in S, rank[x] < n + 1
                 PROVE  F[f][x] = F[F[f]][x]
      OBVIOUS
    <3>1. \A y \in S : rank[y] < rank[x] => f[y] = F[f][y]
      <4> SUFFICES ASSUME NEW y \in S, rank[y] < rank[x]
                   PROVE  rank[y] < n
        BY <2>1
      <4>1. rank[x] \in Nat /\ rank[y] \in Nat
        OBVIOUS
      <4> QED
        BY <4>1
    <3> QED
      BY <1>r, <2>2, <3>1 DEF Contracts
  <2> HIDE DEF Solves
  <2> QED
    BY <2>2, <2>3
<1>3. Unsolved = {}
  <2> SUFFICES ASSUME Unsolved # {} PROVE FALSE
    OBVIOUS
  <2>1. Unsolved \subseteq Nat
    OBVIOUS
  <2> HIDE DEF Unsolved, Solves
  <2>2. PICK n \in Unsolved : \A m \in Unsolved : ~(m < n)
    BY <2>1, LeastIn
  <2>3. n \in Nat /\ n # 0
    BY <1>1, <2>1, <2>2
  <2>4. n - 1 \in Nat /\ n - 1 < n /\ (n - 1) + 1 = n
    BY <2>3
  <2>5. n - 1 \notin Unsolved
    BY <2>2, <2>4
  <2> QED
    BY <1>2, <2>2, <2>4, <2>5
<1>4. PICK f \in [S -> V] : Solves(f, bound)
  <2> HIDE DEF Solves
  <2> QED
    BY <1>3, <1>r
<1>5. f = F[f]
  <2>1. \A x \in S : f[x] = F[f][x]
    BY <1>4, <1>r
  <2>2. F[f] \in [S -> V]
    BY <1>0
  <2> QED
    BY <2>1, <2>2
<1> QED
  BY <1>5

-----------------------------------------------------------------------------
(* The keys and their order.                                               *)

Keys  == [score : Scores, member : Members]
Nodes == {NegInf} \cup Keys

LEMMA NodesAre ==
    /\ \A a \in Nodes : a.score \in Int /\ a.member \in Int
    /\ \A a, b \in Nodes : a.score = b.score /\ a.member = b.member => a = b
    /\ \A a \in Keys : 0 <= a.score /\ a # NegInf
    /\ NegInf \in Nodes /\ NegInf.score = -1 /\ NegInf.member = 0
    /\ Null \notin Nodes /\ Crash \notin Nodes /\ Null # Crash
<1>1. \A a \in Keys : /\ a.score \in Nat /\ a.member \in Nat
                      /\ a = [score |-> a.score, member |-> a.member]
  <2>1. Members \subseteq Nat /\ Scores \subseteq Nat
    BY SortedSetAssumption DEF SortedSetAssumption
  <2>2. \A a \in Keys : /\ a.score \in Scores /\ a.member \in Members
                        /\ a = [score |-> a.score, member |-> a.member]
    BY DEF Keys
  <2> QED
    BY <2>1, <2>2
<1>2. /\ NegInf = [score |-> -1, member |-> 0]
      /\ Null = [score |-> -2, member |-> 0]
      /\ Crash = [score |-> -3, member |-> 0]
  BY DEF NegInf, Null, Crash, Key
<1>3. NegInf.score = -1 /\ NegInf.member = 0 /\ Null.score = -2 /\ Crash.score = -3
  BY <1>2
<1>4. \A a \in Nodes : a.score \in Int /\ a.member \in Int /\ -1 <= a.score
                       /\ a = [score |-> a.score, member |-> a.member]
  BY <1>1, <1>2, <1>3 DEF Nodes
<1>5. \A a \in Keys : 0 <= a.score /\ a # NegInf
  BY <1>1, <1>3
<1>6. Null \notin Nodes /\ Crash \notin Nodes /\ Null # Crash
  BY <1>3, <1>4
<1>7. \A a, b \in Nodes : a.score = b.score /\ a.member = b.member => a = b
  BY <1>4
<1> QED
  BY <1>3, <1>4, <1>5, <1>6, <1>7 DEF Nodes

LEMMA Ordered ==
    /\ \A a \in Nodes : ~Before(a, a)
    /\ \A a, b, c \in Nodes : Before(a, b) /\ Before(b, c) => Before(a, c)
    /\ \A a, b \in Nodes : a = b \/ Before(a, b) \/ Before(b, a)
    /\ \A a \in Keys : Before(NegInf, a)
<1>1. \A a \in Nodes : ~Before(a, a)
  BY NodesAre DEF Before
<1>2. \A a, b, c \in Nodes : Before(a, b) /\ Before(b, c) => Before(a, c)
  BY NodesAre DEF Before
<1>3. \A a, b \in Nodes : a = b \/ Before(a, b) \/ Before(b, a)
  BY NodesAre DEF Before
<1>4. \A a \in Keys : Before(NegInf, a)
  BY NodesAre DEF Before, Nodes
<1> QED
  BY <1>1, <1>2, <1>3, <1>4

LEMMA NeverBoth ==
    ASSUME NEW a \in Nodes, NEW b \in Nodes, Before(a, b)
    PROVE  ~Before(b, a) /\ a # b
  BY Ordered

-----------------------------------------------------------------------------
(* A level.                                                                *)

NodeType == [right : Nodes \cup {Null}, gap : Int]

Levels == {level \in UNION {[S -> NodeType] : S \in SUBSET Nodes} :
             NegInf \in DOMAIN level /\ IsFiniteSet(DOMAIN level)}

LevelLinked(level) ==
    \A n \in DOMAIN level :
       IF level[n].right = Null
       THEN \A m \in DOMAIN level : ~Before(n, m)
       ELSE /\ level[n].right \in DOMAIN level
            /\ Before(n, level[n].right)
            /\ \A m \in DOMAIN level : Before(n, m) => ~Before(m, level[n].right)

\* p is the node of a level behind which k belongs.
IsPred(level, p, k) ==
    /\ p \in DOMAIN level
    /\ Before(p, k)
    /\ level[p].right # Null => Before(k, level[p].right)

After(level, n) == {m \in DOMAIN level : Before(n, m)}

LEMMA LevelFacts ==
    ASSUME NEW level \in Levels
    PROVE  /\ DOMAIN level \subseteq Nodes /\ NegInf \in DOMAIN level /\ IsFiniteSet(DOMAIN level)
           /\ level \in [DOMAIN level -> NodeType]
           /\ \A n \in DOMAIN level : level[n].right \in Nodes \cup {Null} /\ level[n].gap \in Int
  BY DEF Levels, NodeType

LEMMA LevelIs ==
    ASSUME NEW S \in SUBSET Nodes, NegInf \in S, IsFiniteSet(S), NEW level \in [S -> NodeType]
    PROVE  level \in Levels /\ DOMAIN level = S
  BY DEF Levels

\* A step to the right leaves fewer nodes behind.
LEMMA AfterShrinks ==
    ASSUME NEW level \in Levels, LevelLinked(level), NEW n \in DOMAIN level, level[n].right # Null
    PROVE  /\ Cardinality(After(level, n)) \in Nat
           /\ Cardinality(After(level, level[n].right)) \in Nat
           /\ Cardinality(After(level, level[n].right)) < Cardinality(After(level, n))
<1> DEFINE r == level[n].right
<1>1. r \in DOMAIN level /\ Before(n, r)
  BY DEF LevelLinked
<1>2. IsFiniteSet(After(level, n)) /\ IsFiniteSet(After(level, r))
  BY LevelFacts, FS_Subset DEF After
<1>3. After(level, r) \in SUBSET After(level, n)
  BY <1>1, LevelFacts, Ordered DEF After
<1>4. r \in After(level, n) /\ r \notin After(level, r)
  BY <1>1, LevelFacts, Ordered DEF After
<1>5. /\ Cardinality(After(level, r)) <= Cardinality(After(level, n))
      /\ Cardinality(After(level, r)) # Cardinality(After(level, n))
  BY <1>2, <1>3, <1>4, FS_Subset
<1> QED
  BY <1>2, <1>5, FS_CardinalityType

\* Every node but the head has one that points to it.
LEMMA HasPred ==
    ASSUME NEW level \in Levels, LevelLinked(level), NEW k \in DOMAIN level, k # NegInf
    PROVE  \E p \in DOMAIN level : level[p].right = k
<1> DEFINE T == {n \in DOMAIN level : Before(n, k)}
           rank == [n \in DOMAIN level |-> Cardinality(After(level, n))]
<1>0. k \in Keys /\ DOMAIN level \subseteq Nodes
  BY LevelFacts DEF Nodes
<1>1. T \subseteq DOMAIN level /\ T # {}
  BY <1>0, LevelFacts, Ordered
<1>2. rank \in [DOMAIN level -> Nat]
  <2>1. \A n \in DOMAIN level : Cardinality(After(level, n)) \in Nat
    BY LevelFacts, FS_Subset, FS_CardinalityType DEF After
  <2> QED
    BY <2>1
<1>3. PICK p \in T : \A n \in T : ~(rank[n] < rank[p])
  <2> HIDE DEF T, rank
  <2> QED
    BY <1>1, <1>2, LeastRank
<1>4. p \in DOMAIN level /\ Before(p, k)
  OBVIOUS
<1>5. level[p].right # Null
  BY <1>4 DEF LevelLinked
<1>6. level[p].right \in DOMAIN level /\ ~Before(k, level[p].right)
  BY <1>4, <1>5 DEF LevelLinked
<1>7. rank[level[p].right] < rank[p]
  BY <1>4, <1>5, <1>6, AfterShrinks
<1>8. ~Before(level[p].right, k)
  BY <1>3, <1>6, <1>7
<1>9. level[p].right = k
  BY <1>0, <1>6, <1>8, Ordered
<1> QED
  BY <1>4, <1>9

-----------------------------------------------------------------------------
(* The levels of a list.                                                   *)

\* Each level is linked and stands on the one below.
Form(list) ==
    /\ list.levels \in Seq(Levels)
    /\ \A l \in 1 .. List!Height(list) : LevelLinked(list.levels[l])
    /\ \A l \in 2 .. List!Height(list) :
          DOMAIN list.levels[l] \subseteq DOMAIN list.levels[l - 1]

LEMMA HeightIs ==
    ASSUME NEW list, Form(list)
    PROVE  /\ List!Height(list) \in Nat
           /\ \A l \in 1 .. List!Height(list) : list.levels[l] \in Levels
  BY DEF Form, List!Height

\* A tower stands on every level below its top.
LEMMA TowersReachDown ==
    ASSUME NEW list, Form(list), NEW i \in 1 .. List!Height(list), NEW j \in i .. List!Height(list)
    PROVE  DOMAIN list.levels[j] \subseteq DOMAIN list.levels[i]
<1> DEFINE H == List!Height(list)
           Off == {a \in i .. H : ~(DOMAIN list.levels[a] \subseteq DOMAIN list.levels[i])}
<1> SUFFICES ASSUME Off # {} PROVE FALSE
  OBVIOUS
<1>1. H \in Nat /\ i \in Nat /\ Off \subseteq Nat
  BY HeightIs
<1>2. PICK a \in Off : \A b \in Off : ~(b < a)
  <2> HIDE DEF Off
  <2> QED
    BY <1>1, LeastIn
<1>3. a # i /\ a \in i .. H
  OBVIOUS
<1>4. a \in 2 .. H /\ a - 1 \in i .. H /\ a - 1 < a
  BY <1>1, <1>3
<1>5. DOMAIN list.levels[a] \subseteq DOMAIN list.levels[a - 1]
  BY <1>4 DEF Form
<1>6. a - 1 \notin Off
  BY <1>2, <1>4
<1>7. DOMAIN list.levels[a - 1] \subseteq DOMAIN list.levels[i]
  BY <1>4, <1>6
<1> QED
  BY <1>5, <1>7

LEMMA LevelsNest ==
    ASSUME NEW list, Form(list), NEW l \in 1 .. List!Height(list)
    PROVE  DOMAIN list.levels[l] \subseteq DOMAIN list.levels[1]
<1>1. List!Height(list) \in Nat
  BY HeightIs
<1>2. 1 \in 1 .. List!Height(list) /\ l \in 1 .. List!Height(list)
  BY <1>1
<1> QED
  BY <1>2, TowersReachDown

LEMMA BottomKeys ==
    ASSUME NEW list, Form(list)
    PROVE  /\ List!Height(list) = 0 => List!KeysOf(list) = {}
           /\ List!Height(list) # 0 =>
                /\ List!KeysOf(list) = DOMAIN list.levels[1] \ {NegInf}
                /\ DOMAIN list.levels[1] = List!KeysOf(list) \cup {NegInf}
           /\ List!KeysOf(list) \subseteq Keys
           /\ IsFiniteSet(List!KeysOf(list))
<1> DEFINE H == List!Height(list)
           ks == List!KeysOf(list)
<1>1. ks = (UNION {DOMAIN list.levels[l] : l \in 1 .. H}) \ {NegInf}
  BY DEF List!KeysOf
<1>2. H \in Nat
  BY HeightIs
<1>3. CASE H = 0
  <2>1. 1 .. H = {}
    BY <1>3
  <2>2. ks = {}
    BY <1>1, <2>1
  <2> QED
    BY <1>3, <2>2, FS_EmptySet
<1>4. CASE H # 0
  <2>1. 1 \in 1 .. H
    BY <1>2, <1>4
  <2>2. list.levels[1] \in Levels
    BY <2>1, HeightIs
  <2>3. ks = DOMAIN list.levels[1] \ {NegInf}
    <3>1. \A l \in 1 .. H : DOMAIN list.levels[l] \subseteq DOMAIN list.levels[1]
      BY LevelsNest
    <3>2. UNION {DOMAIN list.levels[l] : l \in 1 .. H} = DOMAIN list.levels[1]
      <4> HIDE DEF H
      <4> QED
        BY <2>1, <3>1
    <3> QED
      BY <1>1, <3>2
  <2>4. DOMAIN list.levels[1] \subseteq Nodes /\ NegInf \in DOMAIN list.levels[1]
        /\ IsFiniteSet(DOMAIN list.levels[1])
    BY <2>2, LevelFacts
  <2>5. ks \subseteq Keys /\ DOMAIN list.levels[1] = ks \cup {NegInf}
    BY <2>3, <2>4 DEF Nodes
  <2>6. IsFiniteSet(ks)
    BY <2>3, <2>4, FS_RemoveElement
  <2> QED
    BY <1>4, <2>3, <2>5, <2>6
<1> QED
  BY <1>3, <1>4

-----------------------------------------------------------------------------
(* The positions of a walk, which goes right or down.                      *)

Rank(list) ==
    [at \in List!Positions(list) |->
       at.level * (Cardinality(DOMAIN list.levels[1]) + 1)
         + Cardinality(After(list.levels[at.level], at.node))]

LEMMA PositionsAre ==
    ASSUME NEW list, Form(list)
    PROVE  \A at : at \in List!Positions(list) <=>
              \E l \in 1 .. List!Height(list) : \E n \in DOMAIN list.levels[l] : \E i \in Int :
                 at = List!At(l, n, i)
<1>1. \A l \in 1 .. List!Height(list) :
         DOMAIN list.levels[l] \subseteq List!KeysOf(list) \cup {NegInf}
  <2> SUFFICES ASSUME NEW l \in 1 .. List!Height(list), NEW n \in DOMAIN list.levels[l]
               PROVE  n \in UNION {DOMAIN list.levels[i] : i \in 1 .. List!Height(list)}
    BY DEF List!KeysOf
  <2> QED
    OBVIOUS
<1> QED
  BY <1>1 DEF List!Positions, List!At

LEMMA AtFields ==
    ASSUME NEW l, NEW n, NEW i
    PROVE  List!At(l, n, i).level = l /\ List!At(l, n, i).node = n /\ List!At(l, n, i).index = i
  BY DEF List!At

LEMMA PositionFacts ==
    ASSUME NEW list, Form(list), NEW at \in List!Positions(list)
    PROVE  /\ at.level \in 1 .. List!Height(list) /\ at.level \in Nat
           /\ list.levels[at.level] \in Levels /\ LevelLinked(list.levels[at.level])
           /\ at.node \in DOMAIN list.levels[at.level] /\ at.node \in Nodes
           /\ at.index \in Int
<1>1. PICK l \in 1 .. List!Height(list) : \E n \in DOMAIN list.levels[l] : \E i \in Int :
         at = List!At(l, n, i)
  BY PositionsAre
<1>2. PICK n \in DOMAIN list.levels[l], i \in Int : at = List!At(l, n, i)
  BY <1>1
<1>3. at.level = l /\ at.node = n /\ at.index = i
  BY <1>2, AtFields
<1>4. list.levels[l] \in Levels /\ LevelLinked(list.levels[l])
  BY HeightIs DEF Form
<1> QED
  BY <1>2, <1>3, <1>4, LevelFacts

LEMMA Products ==
    ASSUME NEW a \in Nat, NEW b \in Nat, NEW c \in Nat
    PROVE  /\ a * c \in Nat
           /\ a <= b => a * c <= b * c
           /\ (a + 1) * c = a * c + c
<1>1. a * c \in Nat /\ b * c \in Nat
  OBVIOUS
<1>2. (a + 1) * c = a * c + c
  OBVIOUS
<1>3. ASSUME a <= b PROVE a * c <= b * c
  <2>1. PICK d \in Nat : b = a + d
    BY <1>3, b - a \in Nat, b = a + (b - a)
  <2>2. b * c = a * c + d * c /\ d * c \in Nat
    BY <2>1
  <2> QED
    BY <1>1, <2>2
<1> QED
  BY <1>1, <1>2, <1>3

LEMMA RankType ==
    ASSUME NEW list, Form(list), List!Height(list) # 0
    PROVE  /\ Rank(list) \in [List!Positions(list) -> Nat]
           /\ \E bound \in Nat : \A at \in List!Positions(list) : Rank(list)[at] < bound
<1> DEFINE H == List!Height(list)
           B == Cardinality(DOMAIN list.levels[1])
           count(at) == Cardinality(After(list.levels[at.level], at.node))
<1>1. H \in Nat /\ 1 \in 1 .. H
  BY HeightIs
<1>2. IsFiniteSet(DOMAIN list.levels[1]) /\ B \in Nat
  BY <1>1, HeightIs, LevelFacts, FS_CardinalityType
<1>3. ASSUME NEW at \in List!Positions(list)
      PROVE  /\ count(at) \in Nat /\ count(at) <= B
             /\ at.level * (B + 1) \in Nat /\ at.level * (B + 1) <= H * (B + 1) /\ H * (B + 1) \in Nat
  <2>1. at.level \in 1 .. H /\ at.level \in Nat
    BY PositionFacts
  <2>2. After(list.levels[at.level], at.node) \in SUBSET DOMAIN list.levels[1]
    BY <2>1, LevelsNest DEF After
  <2>3. count(at) \in Nat /\ count(at) <= B
    BY <1>2, <2>2, FS_Subset, FS_CardinalityType
  <2> HIDE DEF B, H, count
  <2>4. at.level * (B + 1) \in Nat /\ at.level * (B + 1) <= H * (B + 1) /\ H * (B + 1) \in Nat
    <3>1. B + 1 \in Nat /\ at.level <= H
      BY <1>1, <1>2, <2>1
    <3> QED
      BY <1>1, <2>1, <3>1, Products
  <2> QED
    BY <2>3, <2>4
<1>4. \A at \in List!Positions(list) : Rank(list)[at] = at.level * (B + 1) + count(at)
  BY DEF Rank
<1>5. Rank(list) = [at \in List!Positions(list) |-> Rank(list)[at]]
  BY DEF Rank
<1> HIDE DEF H, B, count
<1>6. \A at \in List!Positions(list) : Rank(list)[at] \in Nat
  BY <1>3, <1>4
<1>7. H * (B + 1) \in Nat
  <2>1. B + 1 \in Nat
    BY <1>2
  <2> QED
    BY <1>1, <2>1, Products
<1>8. \A at \in List!Positions(list) : Rank(list)[at] < H * (B + 1) + B + 1
  BY <1>2, <1>3, <1>4, <1>7
<1>9. H * (B + 1) + B + 1 \in Nat
  BY <1>2, <1>7
<1> QED
  BY <1>5, <1>6, <1>8, <1>9

\* To the right and downwards the rank falls.
LEMMA RankRight ==
    ASSUME NEW list, Form(list), NEW at \in List!Positions(list), NEW i \in Int,
           list.levels[at.level][at.node].right # Null
    PROVE  LET to == List!At(at.level, list.levels[at.level][at.node].right, i)
           IN  to \in List!Positions(list) /\ Rank(list)[to] < Rank(list)[at]
<1> DEFINE r == list.levels[at.level][at.node].right
           to == List!At(at.level, r, i)
           B == Cardinality(DOMAIN list.levels[1])
           p == at.level * (B + 1)
<1>1. /\ at.level \in 1 .. List!Height(list) /\ list.levels[at.level] \in Levels
      /\ LevelLinked(list.levels[at.level]) /\ at.node \in DOMAIN list.levels[at.level]
  BY PositionFacts
<1>2. r \in DOMAIN list.levels[at.level]
  BY <1>1 DEF LevelLinked
<1>3. to \in List!Positions(list)
  BY <1>1, <1>2, PositionsAre
<1>4. to.level = at.level /\ to.node = r
  BY AtFields
<1>5. /\ Rank(list)[at] = p + Cardinality(After(list.levels[at.level], at.node))
      /\ Rank(list)[to] = p + Cardinality(After(list.levels[at.level], r))
  BY <1>3, <1>4 DEF Rank
<1>6. p \in Nat
  <2>1. 1 \in 1 .. List!Height(list)
    BY <1>1, HeightIs
  <2>2. B + 1 \in Nat
    BY <2>1, HeightIs, LevelFacts, FS_CardinalityType
  <2>3. at.level \in Nat
    BY PositionFacts
  <2> QED
    BY <2>2, <2>3, Products
<1> HIDE DEF p
<1>7. /\ Cardinality(After(list.levels[at.level], at.node)) \in Nat
      /\ Cardinality(After(list.levels[at.level], r)) \in Nat
      /\ Cardinality(After(list.levels[at.level], r)) < Cardinality(After(list.levels[at.level], at.node))
  BY <1>1, AfterShrinks
<1> QED
  BY <1>3, <1>5, <1>6, <1>7

LEMMA RankDown ==
    ASSUME NEW list, Form(list), NEW at \in List!Positions(list), NEW i \in Int, at.level # 1
    PROVE  LET to == List!At(at.level - 1, at.node, i)
           IN  to \in List!Positions(list) /\ Rank(list)[to] < Rank(list)[at]
<1> DEFINE to == List!At(at.level - 1, at.node, i)
           B == Cardinality(DOMAIN list.levels[1])
           c == Cardinality(After(list.levels[at.level], at.node))
           e == Cardinality(After(list.levels[at.level - 1], at.node))
<1>0. at.level \in 1 .. List!Height(list) /\ at.level \in Nat /\ List!Height(list) \in Nat
  BY PositionFacts, HeightIs
<1>1. /\ at.level \in 2 .. List!Height(list) /\ at.level - 1 \in 1 .. List!Height(list)
      /\ 1 \in 1 .. List!Height(list) /\ at.level - 1 \in Nat /\ (at.level - 1) + 1 = at.level
  BY <1>0
<1>2. at.node \in DOMAIN list.levels[at.level - 1]
  BY <1>1, PositionFacts DEF Form
<1>3. to \in List!Positions(list)
  BY <1>1, <1>2, PositionsAre
<1>4. to.level = at.level - 1 /\ to.node = at.node
  BY AtFields
<1>5. Rank(list)[at] = at.level * (B + 1) + c /\ Rank(list)[to] = (at.level - 1) * (B + 1) + e
  BY <1>3, <1>4 DEF Rank
<1>6. IsFiniteSet(DOMAIN list.levels[1]) /\ B \in Nat
  BY <1>1, HeightIs, LevelFacts, FS_CardinalityType
<1>7. e \in Nat /\ e <= B
  <2>1. After(list.levels[at.level - 1], at.node) \in SUBSET DOMAIN list.levels[1]
    BY <1>1, LevelsNest DEF After
  <2> QED
    BY <1>6, <2>1, FS_Subset, FS_CardinalityType
<1>8. c \in Nat
  <2>1. After(list.levels[at.level], at.node) \in SUBSET DOMAIN list.levels[1]
    BY <1>0, LevelsNest DEF After
  <2> QED
    BY <1>6, <2>1, FS_Subset, FS_CardinalityType
<1>9. at.level * (B + 1) = (at.level - 1) * (B + 1) + (B + 1) /\ (at.level - 1) * (B + 1) \in Nat
  <2>1. B + 1 \in Nat
    BY <1>6
  <2>2. ((at.level - 1) + 1) * (B + 1) = (at.level - 1) * (B + 1) + (B + 1)
    BY <1>1, <2>1, Products
  <2> QED
    BY <1>1, <2>1, <2>2, Products
<1> HIDE DEF B, c, e, to
<1>10. Rank(list)[to] < Rank(list)[at]
  <2> DEFINE q == (at.level - 1) * (B + 1)
  <2>1. q \in Nat /\ Rank(list)[at] = q + (B + 1) + c /\ Rank(list)[to] = q + e
    BY <1>5, <1>9
  <2> HIDE DEF q
  <2> QED
    BY <1>6, <1>7, <1>8, <2>1
<1> QED
  BY <1>3, <1>10 DEF to

-----------------------------------------------------------------------------
(* The walk of search.                                                     *)

Steps   == [level : Nat, node : Nodes, index : Int]
Results == [level : Nat, node : Nodes, index : Int, preds : Seq(Steps)]

RightOf(list, at) == list.levels[at.level][at.node].right
GoesRight(list, k, at) ==
    at.node # k /\ RightOf(list, at) # Null /\ ~Before(k, RightOf(list, at))
ToRight(list, at) ==
    List!At(at.level, RightOf(list, at), at.index + list.levels[at.level][at.node].gap)
ToDown(at) == List!At(at.level - 1, at.node, at.index)
Under(below, at) == [below EXCEPT !.preds = <<at>> \o @]

\* What search finds from a position, given what it finds from the others.
SearchStep(list, k, f, at) ==
    IF GoesRight(list, k, at) THEN f[ToRight(list, at)]
    ELSE IF at.node = k \/ at.level = 1 THEN List!Found(at)
    ELSE Under(f[ToDown(at)], at)

LEMMA StepsOnward ==
    ASSUME NEW list, Form(list), NEW k, NEW at \in List!Positions(list)
    PROVE  /\ GoesRight(list, k, at) =>
                ToRight(list, at) \in List!Positions(list) /\ Rank(list)[ToRight(list, at)] < Rank(list)[at]
           /\ at.level # 1 =>
                ToDown(at) \in List!Positions(list) /\ Rank(list)[ToDown(at)] < Rank(list)[at]
<1>a. at.index \in Int /\ list.levels[at.level] \in Levels /\ at.node \in DOMAIN list.levels[at.level]
  <2>1. at.index \in Int /\ at.level \in 1 .. List!Height(list) /\ at.node \in DOMAIN list.levels[at.level]
    BY PositionFacts
  <2> QED
    BY <2>1, HeightIs
<1>1. at.index \in Int /\ list.levels[at.level][at.node].gap \in Int
  <2> DEFINE level == list.levels[at.level]
  <2>1. level \in Levels /\ at.node \in DOMAIN level
    BY <1>a
  <2> HIDE DEF level
  <2>2. level[at.node].gap \in Int
    BY <2>1, LevelFacts
  <2> QED
    BY <1>a, <2>2 DEF level
<1>2. at.index + list.levels[at.level][at.node].gap \in Int
  <2> DEFINE index == at.index
             gap   == list.levels[at.level][at.node].gap
  <2>1. index \in Int /\ gap \in Int
    BY <1>1
  <2> HIDE DEF index, gap
  <2>2. index + gap \in Int
    BY <2>1
  <2> QED
    BY <2>2, Zenon DEF index, gap
<1>3. ASSUME GoesRight(list, k, at)
      PROVE  ToRight(list, at) \in List!Positions(list) /\ Rank(list)[ToRight(list, at)] < Rank(list)[at]
  BY <1>2, <1>3, RankRight DEF GoesRight, ToRight, RightOf
<1>4. ASSUME at.level # 1
      PROVE  ToDown(at) \in List!Positions(list) /\ Rank(list)[ToDown(at)] < Rank(list)[at]
  BY <1>1, <1>4, RankDown DEF ToDown
<1> QED
  BY <1>3, <1>4

LEMMA PositionStep ==
    ASSUME NEW list, Form(list), NEW at \in List!Positions(list)
    PROVE  /\ at \in Steps /\ at = List!At(at.level, at.node, at.index)
           /\ List!Found(at) \in Results
<1>1. at = List!At(at.level, at.node, at.index)
  BY PositionsAre, AtFields
<1>2. at.level \in Nat /\ at.node \in Nodes /\ at.index \in Int
  BY PositionFacts
<1>3. at \in Steps
  BY <1>1, <1>2 DEF Steps, List!At
<1>4. List!Found(at) \in Results
  BY <1>2 DEF Results, List!Found
<1> QED
  BY <1>1, <1>3, <1>4

LEMMA UnderIs ==
    ASSUME NEW below \in Results, NEW at \in Steps
    PROVE  /\ Under(below, at) \in Results
           /\ Under(below, at).level = below.level /\ Under(below, at).node = below.node
           /\ Under(below, at).index = below.index
           /\ Len(Under(below, at).preds) = Len(below.preds) + 1 /\ Len(below.preds) \in Nat
           /\ Under(below, at).preds[1] = at
           /\ \A j \in 1 .. Len(below.preds) : Under(below, at).preds[j + 1] = below.preds[j]
<1> DEFINE ps == below.preds
           qs == <<at>> \o ps
<1>1. ps \in Seq(Steps) /\ Len(ps) \in Nat
  BY DEF Results
<1>2. <<at>> \in Seq(Steps) /\ Len(<<at>>) = 1
  OBVIOUS
<1>3. qs \in Seq(Steps) /\ Len(qs) = Len(ps) + 1 /\ qs[1] = at
  BY <1>1, <1>2
<1>4. \A j \in 1 .. Len(ps) : qs[j + 1] = ps[j]
  BY <1>1, <1>2
<1>5. Under(below, at) = [below EXCEPT !.preds = qs]
  BY DEF Under
<1> HIDE DEF ps, qs
<1>6. below = [level |-> below.level, node |-> below.node, index |-> below.index, preds |-> below.preds]
      /\ below.level \in Nat /\ below.node \in Nodes /\ below.index \in Int
  BY DEF Results
<1>7. Under(below, at) = [level |-> below.level, node |-> below.node, index |-> below.index, preds |-> qs]
  BY <1>5, <1>6
<1> QED
  BY <1>1, <1>3, <1>4, <1>6, <1>7 DEF ps, Results

LEMMA SearchWalks ==
    ASSUME NEW list, Form(list), List!Height(list) # 0, NEW k
    PROVE  \E f : /\ \A at \in List!Positions(list) : f[at] = SearchStep(list, k, f, at)
                  /\ List!Search(list, k) = f[List!At(List!Height(list), NegInf, 0)]
<1> DEFINE S == List!Positions(list)
           F == [g \in [S -> Results] |-> [at \in S |-> SearchStep(list, k, g, at)]]
           Sol(f) == f = [at \in S |-> SearchStep(list, k, f, at)]
<1>1. ASSUME NEW g \in [S -> Results], NEW at \in S
      PROVE  SearchStep(list, k, g, at) \in Results
  <2>1. CASE GoesRight(list, k, at)
    BY <2>1, StepsOnward DEF SearchStep
  <2>2. CASE ~GoesRight(list, k, at) /\ (at.node = k \/ at.level = 1)
    BY <2>2, PositionStep DEF SearchStep
  <2>3. CASE ~GoesRight(list, k, at) /\ ~(at.node = k \/ at.level = 1)
    <3>1. ToDown(at) \in S
      BY <2>3, StepsOnward
    <3>2. g[ToDown(at)] \in Results /\ at \in Steps
      BY <3>1, PositionStep
    <3>3. SearchStep(list, k, g, at) = Under(g[ToDown(at)], at)
      BY <2>3 DEF SearchStep
    <3> QED
      BY <3>2, <3>3, UnderIs
  <2> QED
    BY <2>1, <2>2, <2>3
<1>2. F \in [[S -> Results] -> [S -> Results]]
  BY <1>1
<1>3. Contracts(F, S, Results, Rank(list))
  <2> SUFFICES ASSUME NEW g \in [S -> Results], NEW h \in [S -> Results], NEW x \in S,
                      \A y \in S : Rank(list)[y] < Rank(list)[x] => g[y] = h[y]
               PROVE  SearchStep(list, k, g, x) = SearchStep(list, k, h, x)
    BY DEF Contracts
  <2> QED
    BY StepsOnward DEF SearchStep
<1>4. Results # {}
  <2>1. [level |-> 0, node |-> NegInf, index |-> 0, preds |-> <<>>] \in Results
    BY NodesAre DEF Results
  <2> QED
    BY <2>1
<1>5. \E f : Sol(f)
  <2>1. Rank(list) \in [S -> Nat] /\ \E b \in Nat : \A at \in S : Rank(list)[at] < b
    BY RankType
  <2>2. PICK b \in Nat : \A at \in S : Rank(list)[at] < b
    BY <2>1
  <2> HIDE DEF F, S
  <2>3. PICK f \in [S -> Results] : f = F[f]
    <3>1. Descends(F, S, Results)
      BY <1>2, <1>3, <1>4, <2>1, <2>2 DEF Descends
    <3> QED
      BY <3>1, RecursionHasSolution
  <2>4. F[f] = [at \in S |-> SearchStep(list, k, f, at)]
    BY DEF F
  <2> QED
    BY <2>3, <2>4
<1> DEFINE from == CHOOSE f : Sol(f)
<1>6. Sol(from)
  BY <1>5
<1>7. List!Search(list, k) = from[List!At(List!Height(list), NegInf, 0)]
  BY DEF List!Search, SearchStep, GoesRight, RightOf, ToRight, ToDown, Under
<1> QED
  <2> HIDE DEF from
  <2> QED
    BY <1>6, <1>7

-----------------------------------------------------------------------------
(* The keys a node has behind it and before it.                            *)

\* The list counts as this module does.
LEMMA SameCount == \A S : List!Cardinality(S) = Cardinality(S)
  BY DEF List!Cardinality, Cardinality

\* How many keys there are up to n.
Spot(list, n) == List!Place(List!KeysOf(list), n)

LEMMA SpotType ==
    ASSUME NEW list, Form(list), NEW n
    PROVE  /\ IsFiniteSet({m \in List!KeysOf(list) : ~Before(n, m)})
           /\ Spot(list, n) = Cardinality({m \in List!KeysOf(list) : ~Before(n, m)})
           /\ Spot(list, n) \in Nat
<1>1. {m \in List!KeysOf(list) : ~Before(n, m)} \in SUBSET List!KeysOf(list)
  OBVIOUS
<1>2. IsFiniteSet({m \in List!KeysOf(list) : ~Before(n, m)})
  BY <1>1, BottomKeys, FS_Subset
<1>3. Spot(list, n) = Cardinality({m \in List!KeysOf(list) : ~Before(n, m)})
  BY SameCount DEF Spot, List!Place
<1> QED
  BY <1>2, <1>3, FS_CardinalityType

LEMMA HeadSpot ==
    ASSUME NEW list, Form(list)
    PROVE  Spot(list, NegInf) = 0
<1>1. {m \in List!KeysOf(list) : ~Before(NegInf, m)} = {}
  BY BottomKeys, Ordered
<1> QED
  BY <1>1, SpotType, FS_EmptySet

\* The keys between two nodes.
LEMMA SpotsApart ==
    ASSUME NEW list, Form(list), NEW a \in Nodes, NEW b \in Nodes, ~Before(b, a)
    PROVE  Cardinality({m \in List!KeysOf(list) : Before(a, m) /\ ~Before(b, m)})
             = Spot(list, b) - Spot(list, a)
<1> DEFINE ks == List!KeysOf(list)
           A == {m \in ks : ~Before(a, m)}
           B == {m \in ks : ~Before(b, m)}
<1>1. ks \subseteq Nodes
  BY BottomKeys DEF Nodes
<1>2. B \ A = {m \in ks : Before(a, m) /\ ~Before(b, m)}
  OBVIOUS
<1>3. B \cap A = A
  <2> SUFFICES ASSUME NEW m \in A PROVE ~Before(b, m)
    OBVIOUS
  <2> QED
    BY <1>1, Ordered
<1>4. Cardinality(B \ A) = Cardinality(B) - Cardinality(B \cap A)
  BY SpotType, FS_Difference
<1> QED
  BY <1>2, <1>3, <1>4, SpotType

LEMMA GapIs ==
    ASSUME NEW list, Form(list), List!GapsExact(list), NEW l \in 1 .. List!Height(list),
           NEW n \in DOMAIN list.levels[l], list.levels[l][n].right # Null
    PROVE  list.levels[l][n].gap = Spot(list, list.levels[l][n].right) - Spot(list, n)
<1> DEFINE r == list.levels[l][n].right
<1>1. list.levels[l] \in Levels /\ LevelLinked(list.levels[l])
  BY HeightIs DEF Form
<1>2. n \in Nodes /\ r \in Nodes /\ Before(n, r)
  BY <1>1, LevelFacts DEF LevelLinked
<1>3. list.levels[l][n].gap = Cardinality({m \in List!KeysOf(list) : Before(n, m) /\ ~Before(r, m)})
  <2>1. list.levels[l][n].gap = Cardinality({m \in List!KeysOf(list) :
           Before(n, m) /\ (r # Null => ~Before(r, m))})
    BY SameCount DEF List!GapsExact
  <2>2. {m \in List!KeysOf(list) : Before(n, m) /\ (r # Null => ~Before(r, m))}
          = {m \in List!KeysOf(list) : Before(n, m) /\ ~Before(r, m)}
    OBVIOUS
  <2> QED
    BY <2>1, <2>2
<1> QED
  BY <1>2, <1>3, NeverBoth, SpotsApart

-----------------------------------------------------------------------------
(* What search finds.                                                      *)

\* The predecessor a result from position at has on level l.
PredOf(r, at, l) == r.preds[at.level + 1 - l]

Offset(list, at) == at.index - Spot(list, at.node)

Reached(list, k, at, r) ==
    /\ r \in Results
    /\ r.level \in 1 .. at.level
    /\ Len(r.preds) = at.level - r.level
    /\ \/ r.node = k /\ k \in DOMAIN list.levels[r.level]
       \/ r.level = 1 /\ IsPred(list.levels[1], r.node, k)
    /\ \A l \in r.level + 1 .. at.level : IsPred(list.levels[l], PredOf(r, at, l).node, k)
    /\ List!GapsExact(list) =>
         /\ Offset(list, r) = Offset(list, at)
         /\ \A l \in r.level + 1 .. at.level : Offset(list, PredOf(r, at, l)) = Offset(list, at)

LEMMA WalkEnds ==
    ASSUME NEW list, Form(list), NEW k \in Keys, NEW at \in List!Positions(list), ~Before(k, at.node),
           ~GoesRight(list, k, at), at.node = k \/ at.level = 1
    PROVE  Reached(list, k, at, List!Found(at))
<1> DEFINE r == List!Found(at)
<1>1. /\ at.level \in Nat /\ at.level \in 1 .. at.level /\ at.node \in DOMAIN list.levels[at.level]
      /\ at.node \in Nodes /\ k \in Nodes
  BY PositionFacts DEF Nodes
<1>2. r.node = at.node /\ r.level = at.level /\ r.index = at.index /\ r.preds = <<>>
  BY DEF List!Found
<1>3. r \in Results
  BY PositionStep
<1>4. Len(r.preds) = at.level - r.level
  BY <1>1, <1>2
<1>5. \A l \in r.level + 1 .. at.level : FALSE
  BY <1>1, <1>2
<1>6. \/ r.node = k /\ k \in DOMAIN list.levels[r.level]
      \/ r.level = 1 /\ IsPred(list.levels[1], r.node, k)
  <2>1. CASE at.node = k
    BY <1>1, <1>2, <2>1
  <2>2. CASE at.node # k
    <3>1. at.level = 1
      BY <2>2
    <3>2. Before(at.node, k)
      BY <1>1, <2>2, Ordered
    <3>3. RightOf(list, at) # Null => Before(k, RightOf(list, at))
      BY <2>2 DEF GoesRight
    <3> QED
      BY <1>1, <1>2, <3>1, <3>2, <3>3 DEF IsPred, RightOf
  <2> QED
    BY <2>1, <2>2
<1>7. Offset(list, r) = Offset(list, at)
  BY <1>2 DEF Offset
<1> QED
  BY <1>1, <1>2, <1>3, <1>4, <1>5, <1>6, <1>7 DEF Reached

LEMMA WalkRight ==
    ASSUME NEW list, Form(list), NEW k \in Keys, NEW at \in List!Positions(list),
           GoesRight(list, k, at), NEW r, Reached(list, k, ToRight(list, at), r)
    PROVE  Reached(list, k, at, r)
<1> DEFINE to == ToRight(list, at)
           nd == list.levels[at.level][at.node]
<1>1. to.level = at.level /\ to.node = nd.right /\ to.index = at.index + nd.gap
  BY AtFields DEF ToRight, RightOf
<1>2. List!GapsExact(list) => Offset(list, to) = Offset(list, at)
  <2> SUFFICES ASSUME List!GapsExact(list) PROVE Offset(list, to) = Offset(list, at)
    OBVIOUS
  <2>1. /\ at.level \in 1 .. List!Height(list) /\ at.node \in DOMAIN list.levels[at.level]
        /\ at.index \in Int /\ nd.right # Null
    BY PositionFacts DEF GoesRight, RightOf
  <2>2. nd.gap = Spot(list, nd.right) - Spot(list, at.node)
    BY <2>1, GapIs
  <2>3. Spot(list, nd.right) \in Nat /\ Spot(list, at.node) \in Nat
    BY SpotType
  <2> QED
    BY <1>1, <2>1, <2>2, <2>3 DEF Offset
<1>3. \A l : PredOf(r, to, l) = PredOf(r, at, l)
  BY <1>1 DEF PredOf
<1> HIDE DEF to, nd
<1>4. Reached(list, k, to, r)
  BY DEF to
<1>5. /\ r.level \in 1 .. at.level /\ Len(r.preds) = at.level - r.level
      /\ \A l \in r.level + 1 .. at.level : IsPred(list.levels[l], PredOf(r, at, l).node, k)
  BY <1>1, <1>3, <1>4 DEF Reached
<1>6. List!GapsExact(list) =>
        /\ Offset(list, r) = Offset(list, at)
        /\ \A l \in r.level + 1 .. at.level : Offset(list, PredOf(r, at, l)) = Offset(list, at)
  <2> SUFFICES ASSUME List!GapsExact(list)
               PROVE  /\ Offset(list, r) = Offset(list, at)
                      /\ \A l \in r.level + 1 .. at.level : Offset(list, PredOf(r, at, l)) = Offset(list, at)
    OBVIOUS
  <2>1. /\ Offset(list, r) = Offset(list, to)
        /\ \A l \in r.level + 1 .. to.level : Offset(list, PredOf(r, to, l)) = Offset(list, to)
    BY <1>4 DEF Reached
  <2> QED
    BY <1>1, <1>2, <1>3, <2>1
<1>7. /\ r \in Results
      /\ \/ r.node = k /\ k \in DOMAIN list.levels[r.level]
         \/ r.level = 1 /\ IsPred(list.levels[1], r.node, k)
  BY <1>4 DEF Reached
<1> QED
  BY <1>5, <1>6, <1>7, Zenon DEF Reached

LEMMA WalkDown ==
    ASSUME NEW list, Form(list), NEW k \in Keys, NEW at \in List!Positions(list), ~Before(k, at.node),
           ~GoesRight(list, k, at), at.node # k, at.level # 1,
           NEW below, Reached(list, k, ToDown(at), below)
    PROVE  Reached(list, k, at, Under(below, at))
<1> DEFINE to == ToDown(at)
           r == Under(below, at)
<1>0. /\ at.level \in Nat /\ at.level \in 1 .. List!Height(list) /\ at.node \in DOMAIN list.levels[at.level]
      /\ at.node \in Nodes /\ k \in Nodes /\ at \in Steps
  BY PositionFacts, PositionStep DEF Nodes
<1>1. to.level = at.level - 1 /\ to.node = at.node /\ to.index = at.index
  BY AtFields DEF ToDown
<1>2. /\ below \in Results /\ below.level \in 1 .. to.level /\ Len(below.preds) = to.level - below.level
      /\ \/ below.node = k /\ k \in DOMAIN list.levels[below.level]
         \/ below.level = 1 /\ IsPred(list.levels[1], below.node, k)
      /\ \A l \in below.level + 1 .. to.level : IsPred(list.levels[l], PredOf(below, to, l).node, k)
      /\ List!GapsExact(list) =>
           /\ Offset(list, below) = Offset(list, to)
           /\ \A l \in below.level + 1 .. to.level : Offset(list, PredOf(below, to, l)) = Offset(list, to)
  BY DEF Reached
<1>3. /\ r \in Results /\ r.level = below.level /\ r.node = below.node /\ r.index = below.index
      /\ Len(r.preds) = Len(below.preds) + 1 /\ Len(below.preds) \in Nat /\ r.preds[1] = at
      /\ \A j \in 1 .. Len(below.preds) : r.preds[j + 1] = below.preds[j]
  BY <1>0, <1>2, UnderIs
<1> HIDE DEF to, r
<1>4. r.level \in 1 .. at.level /\ Len(r.preds) = at.level - r.level /\ below.level \in Nat
  BY <1>0, <1>1, <1>2, <1>3
<1>5. IsPred(list.levels[at.level], at.node, k)
  <2>1. Before(at.node, k)
    BY <1>0, Ordered
  <2> QED
    BY <1>0, <2>1 DEF IsPred, GoesRight, RightOf
<1>6. ASSUME NEW l \in r.level + 1 .. at.level
      PROVE  \/ l = at.level /\ PredOf(r, at, l) = at
             \/ l \in below.level + 1 .. to.level /\ PredOf(r, at, l) = PredOf(below, to, l)
  <2>1. CASE l = at.level
    <3>1. at.level + 1 - l = 1
      BY <1>0, <2>1
    <3> QED
      BY <1>3, <2>1, <3>1 DEF PredOf
  <2>2. CASE l # at.level
    <3>1. l \in Int /\ l <= at.level - 1 /\ below.level + 1 <= l
      BY <1>0, <1>3, <1>4, <2>2
    <3>2. l \in below.level + 1 .. to.level
      BY <1>0, <1>1, <1>4, <3>1
    <3>3. to.level + 1 - l \in 1 .. Len(below.preds)
      BY <1>0, <1>1, <1>2, <1>4, <3>1
    <3>4. (to.level + 1 - l) + 1 = at.level + 1 - l
      BY <1>0, <1>1, <3>1
    <3>5. r.preds[(to.level + 1 - l) + 1] = below.preds[to.level + 1 - l]
      BY <1>3, <3>3
    <3> QED
      BY <3>2, <3>4, <3>5 DEF PredOf
  <2> QED
    BY <2>1, <2>2
<1>7. Offset(list, to) = Offset(list, at) /\ Offset(list, r) = Offset(list, below)
  BY <1>1, <1>3 DEF Offset
<1>8. \A l \in r.level + 1 .. at.level : IsPred(list.levels[l], PredOf(r, at, l).node, k)
  BY <1>2, <1>5, <1>6
<1>9. List!GapsExact(list) =>
        \A l \in r.level + 1 .. at.level : Offset(list, PredOf(r, at, l)) = Offset(list, at)
  BY <1>2, <1>6, <1>7
<1> QED
  BY <1>2, <1>3, <1>4, <1>7, <1>8, <1>9 DEF Reached, r

Top(list) == List!At(List!Height(list), NegInf, 0)

LEMMA TopPosition ==
    ASSUME NEW list, Form(list), List!Height(list) # 0
    PROVE  /\ Top(list) \in List!Positions(list)
           /\ Top(list).level = List!Height(list) /\ Top(list).node = NegInf /\ Top(list).index = 0
           /\ Offset(list, Top(list)) = 0
<1>1. List!Height(list) \in 1 .. List!Height(list)
  BY HeightIs
<1>2. NegInf \in DOMAIN list.levels[List!Height(list)]
  BY <1>1, HeightIs, LevelFacts
<1>3. Top(list) \in List!Positions(list)
  BY <1>1, <1>2, PositionsAre DEF Top
<1>4. Top(list).level = List!Height(list) /\ Top(list).node = NegInf /\ Top(list).index = 0
  BY AtFields DEF Top
<1> QED
  BY <1>3, <1>4, HeadSpot DEF Offset

LEMMA SearchReaches ==
    ASSUME NEW list, Form(list), List!Height(list) # 0, NEW k \in Keys
    PROVE  Reached(list, k, Top(list), List!Search(list, k))
<1> DEFINE S == List!Positions(list)
<1>1. PICK f : /\ \A at \in S : f[at] = SearchStep(list, k, f, at)
               /\ List!Search(list, k) = f[Top(list)]
  BY SearchWalks DEF Top
<1> DEFINE Bad == {at \in S : ~Before(k, at.node) /\ ~Reached(list, k, at, f[at])}
<1>2. Bad = {}
  <2> SUFFICES ASSUME Bad # {} PROVE FALSE
    OBVIOUS
  <2>1. Bad \subseteq S /\ Rank(list) \in [S -> Nat]
    BY RankType
  <2>2. PICK at \in Bad : \A y \in Bad : ~(Rank(list)[y] < Rank(list)[at])
    <3> HIDE DEF Bad, S
    <3> QED
      BY <2>1, LeastRank
  <2>3. at \in S /\ ~Before(k, at.node) /\ ~Reached(list, k, at, f[at])
    OBVIOUS
  <2>4. \A to \in S : Rank(list)[to] < Rank(list)[at] /\ ~Before(k, to.node)
          => Reached(list, k, to, f[to])
    BY <2>2
  <2> HIDE DEF Bad
  <2>5. CASE GoesRight(list, k, at)
    <3>1. ToRight(list, at) \in S /\ Rank(list)[ToRight(list, at)] < Rank(list)[at]
      BY <2>3, <2>5, StepsOnward
    <3>2. ~Before(k, ToRight(list, at).node)
      BY <2>5, AtFields DEF GoesRight, ToRight
    <3>3. Reached(list, k, ToRight(list, at), f[ToRight(list, at)])
      BY <2>4, <3>1, <3>2
    <3>4. f[at] = f[ToRight(list, at)]
      BY <1>1, <2>3, <2>5 DEF SearchStep
    <3> QED
      BY <2>3, <2>5, <3>3, <3>4, WalkRight
  <2>6. CASE ~GoesRight(list, k, at) /\ (at.node = k \/ at.level = 1)
    <3>1. f[at] = List!Found(at)
      BY <1>1, <2>3, <2>6 DEF SearchStep
    <3> QED
      BY <2>3, <2>6, <3>1, WalkEnds
  <2>7. CASE ~GoesRight(list, k, at) /\ at.node # k /\ at.level # 1
    <3>1. ToDown(at) \in S /\ Rank(list)[ToDown(at)] < Rank(list)[at]
      BY <2>3, <2>7, StepsOnward
    <3>2. ~Before(k, ToDown(at).node)
      BY <2>3, AtFields DEF ToDown
    <3>3. Reached(list, k, ToDown(at), f[ToDown(at)])
      BY <2>4, <3>1, <3>2
    <3>4. f[at] = Under(f[ToDown(at)], at)
      BY <1>1, <2>3, <2>7 DEF SearchStep
    <3> QED
      BY <2>3, <2>7, <3>3, <3>4, WalkDown
  <2> QED
    BY <2>5, <2>6, <2>7
<1>3. ~Before(k, NegInf)
  BY Ordered, NodesAre, NeverBoth DEF Nodes
<1>4. Top(list) \in S /\ Top(list).node = NegInf
  BY TopPosition
<1> QED
  BY <1>1, <1>2, <1>3, <1>4

\* Behind the predecessor of k on a level there is no k.
LEMMA PredMisses ==
    ASSUME NEW level \in Levels, LevelLinked(level), NEW k \in Keys, NEW p, IsPred(level, p, k)
    PROVE  k \notin DOMAIN level
<1> SUFFICES ASSUME k \in DOMAIN level PROVE FALSE
  OBVIOUS
<1>1. p \in DOMAIN level /\ Before(p, k) /\ (level[p].right # Null => Before(k, level[p].right))
  BY DEF IsPred
<1> QED
  BY <1>1 DEF LevelLinked

\* search ends on the top node of the tower of k, or, if k is not listed, on the node that it
\* belongs behind; on the levels above it has left the nodes k belongs behind.
LEMMA SearchFinds ==
    ASSUME NEW list, Form(list), List!Height(list) # 0, NEW k \in Keys
    PROVE  LET s == List!Search(list, k)
               H == List!Height(list)
           IN  /\ s.level \in 1 .. H /\ s.index \in Int
               /\ \A l \in s.level + 1 .. H :
                     /\ IsPred(list.levels[l], List!PredAt(list, s, l).node, k)
                     /\ List!PredAt(list, s, l).index \in Int
                     /\ k \notin DOMAIN list.levels[l]
               /\ s.node = k <=> k \in List!KeysOf(list)
               /\ IF k \in List!KeysOf(list) THEN k \in DOMAIN list.levels[s.level]
                  ELSE s.level = 1 /\ IsPred(list.levels[1], s.node, k)
               /\ List!GapsExact(list) =>
                    /\ s.index = Spot(list, s.node)
                    /\ \A l \in s.level + 1 .. H :
                          List!PredAt(list, s, l).index = Spot(list, List!PredAt(list, s, l).node)
<1> DEFINE s == List!Search(list, k)
           H == List!Height(list)
           top == Top(list)
<1>1. Reached(list, k, top, s)
  BY SearchReaches
<1>2. top.level = H /\ Offset(list, top) = 0
  BY TopPosition
<1>3. \A l : PredOf(s, top, l) = List!PredAt(list, s, l)
  BY <1>2 DEF PredOf, List!PredAt
<1>0. H \in Nat
  BY HeightIs
<1> HIDE DEF s, H, top
<1>4. /\ s \in Results /\ s.level \in 1 .. H
      /\ \/ s.node = k /\ k \in DOMAIN list.levels[s.level]
         \/ s.level = 1 /\ IsPred(list.levels[1], s.node, k)
      /\ \A l \in s.level + 1 .. H : IsPred(list.levels[l], List!PredAt(list, s, l).node, k)
  BY <1>1, <1>2, <1>3 DEF Reached
<1>5. \A l \in 1 .. H : list.levels[l] \in Levels /\ LevelLinked(list.levels[l])
                        /\ DOMAIN list.levels[l] \subseteq DOMAIN list.levels[1]
  BY HeightIs, LevelsNest DEF Form, H
<1>6. List!KeysOf(list) = DOMAIN list.levels[1] \ {NegInf} /\ k # NegInf /\ 1 \in 1 .. H
  BY <1>0, BottomKeys, NodesAre DEF H
<1>7. ASSUME NEW l \in s.level + 1 .. H
      PROVE  k \notin DOMAIN list.levels[l]
  <2>1. l \in 1 .. H
    BY <1>0, <1>4
  <2> QED
    BY <1>4, <1>5, <2>1, PredMisses
<1>8. ASSUME k \in List!KeysOf(list)
      PROVE  s.node = k /\ k \in DOMAIN list.levels[s.level]
  <2>1. k \in DOMAIN list.levels[1]
    BY <1>6, <1>8
  <2>2. ~(s.level = 1 /\ IsPred(list.levels[1], s.node, k))
    BY <1>5, <1>6, <2>1, PredMisses
  <2> QED
    BY <1>4, <2>2
<1>9. ASSUME k \notin List!KeysOf(list)
      PROVE  s.node # k /\ s.level = 1 /\ IsPred(list.levels[1], s.node, k)
  <2>1. k \notin DOMAIN list.levels[s.level]
    BY <1>4, <1>5, <1>6, <1>9
  <2>2. s.level = 1 /\ IsPred(list.levels[1], s.node, k)
    BY <1>4, <2>1
  <2> QED
    BY <2>1, <2>2 DEF IsPred
<1>10. s.node = k <=> k \in List!KeysOf(list)
  BY <1>8, <1>9
<1>11. IF k \in List!KeysOf(list) THEN k \in DOMAIN list.levels[s.level]
       ELSE s.level = 1 /\ IsPred(list.levels[1], s.node, k)
  BY <1>8, <1>9
<1>12. s.index \in Int /\ \A l \in s.level + 1 .. H : List!PredAt(list, s, l).index \in Int
  <2>1. s.index \in Int /\ s.preds \in Seq(Steps) /\ Len(s.preds) = H - s.level
    BY <1>1, <1>2, <1>4 DEF Results, Reached
  <2> SUFFICES ASSUME NEW l \in s.level + 1 .. H PROVE List!PredAt(list, s, l).index \in Int
    BY <2>1
  <2>2. H + 1 - l \in 1 .. Len(s.preds)
    BY <1>0, <1>4, <2>1
  <2>3. s.preds[H + 1 - l] \in Steps
    BY <2>1, <2>2
  <2> QED
    BY <2>3 DEF List!PredAt, H, Steps
<1>13. ASSUME List!GapsExact(list)
       PROVE  /\ s.index = Spot(list, s.node)
              /\ \A l \in s.level + 1 .. H :
                    List!PredAt(list, s, l).index = Spot(list, List!PredAt(list, s, l).node)
  <2>1. /\ Offset(list, s) = 0
        /\ \A l \in s.level + 1 .. H : Offset(list, List!PredAt(list, s, l)) = 0
    BY <1>1, <1>2, <1>3, <1>13 DEF Reached
  <2>2. \A r : r.index \in Int /\ Offset(list, r) = 0 => r.index = Spot(list, r.node)
    <3> SUFFICES ASSUME NEW r, r.index \in Int, r.index - Spot(list, r.node) = 0
                 PROVE  r.index = Spot(list, r.node)
      BY DEF Offset
    <3>1. Spot(list, r.node) \in Nat
      BY SpotType
    <3> QED
      BY <3>1
  <2> QED
    BY <1>12, <2>1, <2>2
<1> QED
  BY <1>4, <1>7, <1>10, <1>11, <1>12, <1>13 DEF s, H

-----------------------------------------------------------------------------
(* What linking and unlinking a node makes of a level.                     *)

LEMMA NodeIs ==
    ASSUME NEW r \in Nodes \cup {Null}, NEW g \in Int
    PROVE  List!Node(r, g) \in NodeType /\ List!Node(r, g).right = r /\ List!Node(r, g).gap = g
  BY DEF List!Node, NodeType

PairMade(level, k, a, b) ==
    /\ level \in Levels /\ LevelLinked(level) /\ DOMAIN level = {NegInf, k}
    /\ level[NegInf].right = k /\ level[NegInf].gap = a
    /\ level[k].right = Null /\ level[k].gap = b

LEMMA PairLevelLinked ==
    ASSUME NEW k \in Keys, NEW a \in Int, NEW b \in Int
    PROVE  PairMade(List!PairLevel(k, a, b), k, a, b)
<1> DEFINE level == List!PairLevel(k, a, b)
<1>1. k \in Nodes /\ k # NegInf /\ k # Null /\ NegInf \in Nodes
  BY NodesAre DEF Nodes
<1>2. /\ DOMAIN level = {NegInf, k}
      /\ level = [n \in {NegInf, k} |-> IF n = NegInf THEN List!Node(k, a) ELSE List!Node(Null, b)]
  BY DEF List!PairLevel
<1>3. List!Node(k, a) \in NodeType /\ List!Node(Null, b) \in NodeType
  BY <1>1, NodeIs
<1>4. level \in [{NegInf, k} -> NodeType]
  BY <1>2, <1>3
<1>5. IsFiniteSet({NegInf, k})
  <2>1. {NegInf, k} = {NegInf} \cup {k}
    OBVIOUS
  <2> QED
    <3>1. IsFiniteSet({NegInf})
      BY FS_Singleton
    <3>2. IsFiniteSet({NegInf} \cup {k})
      BY <3>1, FS_AddElement
    <3> QED
      BY <2>1, <3>2
<1>6. level[NegInf].right = k /\ level[NegInf].gap = a /\ level[k].right = Null /\ level[k].gap = b
  BY <1>1, <1>2, NodeIs
<1>7. level \in Levels
  BY <1>1, <1>4, <1>5, LevelIs
<1> HIDE DEF level
<1>8. Before(NegInf, k) /\ ~Before(k, NegInf) /\ ~Before(k, k) /\ ~Before(NegInf, NegInf)
  BY <1>1, Ordered, NeverBoth
<1>9. LevelLinked(level)
  BY <1>1, <1>2, <1>6, <1>8 DEF LevelLinked
<1> QED
  BY <1>2, <1>6, <1>7, <1>9 DEF level, PairMade

LinkMade(new, level, p, k, a, b) ==
    /\ new \in Levels /\ LevelLinked(new) /\ DOMAIN new = DOMAIN level \cup {k}
    /\ new[p].right = k /\ new[p].gap = a
    /\ new[k].right = level[p].right /\ new[k].gap = b
    /\ \A n \in DOMAIN level : n # p => new[n] = level[n]

LEMMA LinkAfterLinked ==
    ASSUME NEW level \in Levels, LevelLinked(level), NEW k \in Keys, NEW p, IsPred(level, p, k),
           NEW a \in Int, NEW b \in Int
    PROVE  LinkMade(List!LinkAfter(level, p, k, a, b), level, p, k, a, b)
<1> DEFINE new == List!LinkAfter(level, p, k, a, b)
           S == DOMAIN level
           r == level[p].right
<1>0. k \notin S
  BY PredMisses
<1>1. /\ p \in S /\ Before(p, k) /\ (r # Null => Before(k, r))
      /\ S \subseteq Nodes /\ NegInf \in S /\ IsFiniteSet(S) /\ k \in Nodes /\ k # Null
      /\ r \in Nodes \cup {Null} /\ \A n \in S : level[n] \in NodeType
  BY LevelFacts, NodesAre DEF IsPred, Nodes
<1>2. /\ DOMAIN new = S \cup {k}
      /\ new = [n \in S \cup {k} |-> CASE n = p -> List!Node(k, a)
                                       [] n = k -> List!Node(r, b)
                                       [] OTHER -> level[n]]
  BY DEF List!LinkAfter
<1>3. /\ List!Node(k, a) \in NodeType /\ List!Node(k, a).right = k /\ List!Node(k, a).gap = a
      /\ List!Node(r, b) \in NodeType /\ List!Node(r, b).right = r /\ List!Node(r, b).gap = b
  BY <1>1, NodeIs
<1>4. /\ new[p] = List!Node(k, a) /\ new[k] = List!Node(r, b)
      /\ \A n \in S : n # p => new[n] = level[n]
  BY <1>0, <1>1, <1>2
<1> HIDE DEF new
<1>5. \A n \in S \cup {k} : new[n] \in NodeType
  BY <1>1, <1>3, <1>4
<1>6. new \in [S \cup {k} -> NodeType]
  BY <1>2, <1>5
<1>7. new \in Levels
  <2>1. IsFiniteSet(S \cup {k}) /\ S \cup {k} \in SUBSET Nodes
    BY <1>1, FS_AddElement
  <2> HIDE DEF S
  <2> QED
    BY <1>1, <1>6, <2>1, LevelIs
<1>8. LevelLinked(new)
  <2> SUFFICES ASSUME NEW n \in S \cup {k}
               PROVE  IF new[n].right = Null
                      THEN \A m \in S \cup {k} : ~Before(n, m)
                      ELSE /\ new[n].right \in S \cup {k}
                           /\ Before(n, new[n].right)
                           /\ \A m \in S \cup {k} : Before(n, m) => ~Before(m, new[n].right)
    BY <1>2 DEF LevelLinked
  <2>0. \A m \in S : IF level[m].right = Null
                     THEN \A q \in S : ~Before(m, q)
                     ELSE /\ level[m].right \in S
                          /\ Before(m, level[m].right)
                          /\ \A q \in S : Before(m, q) => ~Before(q, level[m].right)
    BY DEF LevelLinked
  <2>1. CASE n = p
    <3>1. new[n].right = k
      BY <1>3, <1>4, <2>1
    <3>2. \A m \in S : Before(p, m) => ~Before(m, k)
      BY <1>1, <2>0, Ordered
    <3> QED
      BY <1>1, <2>1, <3>1, <3>2, Ordered
  <2>2. CASE n = k
    <3>1. new[n].right = r
      BY <1>3, <1>4, <2>2
    <3>2. \A m \in S : Before(k, m) => Before(p, m)
      BY <1>1, Ordered
    <3>3. ~Before(k, k) /\ (r # Null => r \in S)
      BY <1>1, <2>0, Ordered
    <3> QED
      BY <1>1, <2>0, <2>2, <3>1, <3>2, <3>3
  <2>3. CASE n # p /\ n # k
    <3>1. n \in S /\ new[n] = level[n]
      BY <1>4, <2>3
    <3>2. CASE level[n].right = Null
      <4>1. ~Before(n, p) /\ n \in Nodes /\ p \in Nodes
        BY <1>1, <2>0, <3>1, <3>2
      <4>2. Before(p, n)
        BY <2>3, <4>1, Ordered
      <4>3. r # Null /\ ~Before(n, r) /\ r \in S
        BY <1>1, <2>0, <3>1, <3>2, <4>2
      <4>4. ~Before(n, k)
        BY <1>1, <4>1, <4>3, Ordered
      <4> QED
        BY <2>0, <3>1, <3>2, <4>4
    <3>3. CASE level[n].right # Null
      <4> DEFINE t == level[n].right
      <4>1. t \in S /\ Before(n, t) /\ \A q \in S : Before(n, q) => ~Before(q, t)
        BY <2>0, <3>1, <3>3
      <4>2. ~(Before(n, k) /\ Before(k, t))
        <5> SUFFICES ASSUME Before(n, k), Before(k, t) PROVE FALSE
          OBVIOUS
        <5>1. n \in Nodes /\ t \in Nodes /\ p \in Nodes
          BY <1>1, <3>1, <4>1
        <5>2. CASE Before(n, p)
          <6>1. Before(p, t)
            BY <1>1, <5>1, Ordered
          <6> QED
            BY <1>1, <4>1, <5>2, <6>1
        <5>3. CASE Before(p, n)
          <6>1. r # Null /\ r \in S /\ ~Before(n, r)
            BY <1>1, <2>0, <3>1, <5>3
          <6>2. Before(k, r)
            BY <1>1, <6>1
          <6> QED
            BY <1>1, <5>1, <6>1, <6>2, Ordered
        <5> QED
          BY <2>3, <5>1, <5>2, <5>3, Ordered
      <4> QED
        BY <3>1, <3>3, <4>1, <4>2
    <3> QED
      BY <3>2, <3>3
  <2> QED
    BY <2>1, <2>2, <2>3
<1> QED
  BY <1>2, <1>3, <1>4, <1>7, <1>8 DEF new, LinkMade

LEMMA SameRightsLinked ==
    ASSUME NEW level, NEW new, LevelLinked(level), DOMAIN new = DOMAIN level,
           \A n \in DOMAIN level : new[n].right = level[n].right
    PROVE  LevelLinked(new)
  BY DEF LevelLinked

StretchMade(new, level, p, by) ==
    /\ new \in Levels /\ LevelLinked(new) /\ DOMAIN new = DOMAIN level
    /\ new[p].gap = level[p].gap + by
    /\ \A n \in DOMAIN level : /\ new[n].right = level[n].right
                               /\ n # p => new[n] = level[n]

LEMMA StretchLinked ==
    ASSUME NEW level \in Levels, LevelLinked(level), NEW p \in DOMAIN level, NEW by \in Int
    PROVE  StretchMade(List!Stretch(level, p, by), level, p, by)
<1> DEFINE new == List!Stretch(level, p, by)
           S == DOMAIN level
<1>1. /\ S \in SUBSET Nodes /\ NegInf \in S /\ IsFiniteSet(S) /\ level \in [S -> NodeType]
      /\ level[p].gap \in Int
  BY LevelFacts
<1>2. new = [level EXCEPT ![p].gap = level[p].gap + by]
  BY DEF List!Stretch
<1>3. level[p] \in NodeType /\ level[p].gap + by \in Int
  BY <1>1
<1>4. /\ DOMAIN new = S /\ new[p] = [level[p] EXCEPT !.gap = level[p].gap + by]
      /\ \A n \in S : n # p => new[n] = level[n]
  BY <1>1, <1>2
<1>5. new[p] \in NodeType /\ new[p].right = level[p].right /\ new[p].gap = level[p].gap + by
  BY <1>3, <1>4 DEF NodeType
<1>6. new \in [S -> NodeType]
  <2>1. \A n \in S : new[n] \in NodeType
    BY <1>1, <1>4, <1>5
  <2>2. new = [n \in S |-> new[n]]
    BY <1>1, <1>2
  <2> QED
    BY <2>1, <2>2
<1>7. new \in Levels
  BY <1>1, <1>6, LevelIs
<1> HIDE DEF new
<1>8. LevelLinked(new)
  BY <1>4, <1>5, SameRightsLinked
<1> QED
  BY <1>4, <1>5, <1>7, <1>8 DEF new, StretchMade

LEMMA OnePred ==
    ASSUME NEW level \in Levels, LevelLinked(level), NEW k \in DOMAIN level,
           NEW p \in DOMAIN level, level[p].right = k, NEW n \in DOMAIN level, level[n].right = k
    PROVE  n = p
<1>1. k # Null /\ n \in Nodes /\ p \in Nodes
  BY LevelFacts, NodesAre
<1>2. /\ Before(n, k) /\ \A m \in DOMAIN level : Before(n, m) => ~Before(m, k)
      /\ Before(p, k) /\ \A m \in DOMAIN level : Before(p, m) => ~Before(m, k)
  BY <1>1 DEF LevelLinked
<1> QED
  BY <1>1, <1>2, Ordered

UnlinkMade(new, level, k) ==
    /\ new \in Levels /\ LevelLinked(new) /\ DOMAIN new = DOMAIN level \ {k}
    /\ \E p \in DOMAIN level \ {k} :
          /\ Before(p, k) /\ level[p].right = k
          /\ new[p].right = level[k].right /\ new[p].gap = level[k].gap
          /\ \A n \in DOMAIN level \ {k} :
               n # p => new[n] = level[n] /\ level[n].right # k

LEMMA UnlinkLinked ==
    ASSUME NEW level \in Levels, LevelLinked(level), NEW k \in DOMAIN level, k # NegInf
    PROVE  UnlinkMade(List!Unlink(level, k), level, k)
<1> DEFINE new == List!Unlink(level, k)
           S == DOMAIN level
           p == CHOOSE n \in S : level[n].right = k
<1>1. /\ S \in SUBSET Nodes /\ NegInf \in S /\ IsFiniteSet(S) /\ level \in [S -> NodeType]
      /\ \A n \in S : level[n].right \in Nodes \cup {Null} /\ level[n].gap \in Int
      /\ k \in S /\ k \in Nodes /\ k # Null
  BY LevelFacts, NodesAre
<1>2. p \in S /\ level[p].right = k
  BY HasPred
<1>3. new = [n \in S \ {k} |-> IF n = p THEN List!Node(level[k].right, level[k].gap) ELSE level[n]]
  BY DEF List!Unlink
<1> HIDE DEF p
<1>4. \A n \in S : /\ level[n].right = k => n = p
                   /\ IF level[n].right = Null
                      THEN \A q \in S : ~Before(n, q)
                      ELSE /\ level[n].right \in S
                           /\ Before(n, level[n].right)
                           /\ \A q \in S : Before(n, q) => ~Before(q, level[n].right)
  BY <1>2, OnePred DEF LevelLinked
<1>5. p \in S \ {k} /\ Before(p, k)
  BY <1>1, <1>2, <1>4, Ordered
<1>6. /\ List!Node(level[k].right, level[k].gap) \in NodeType
      /\ List!Node(level[k].right, level[k].gap).right = level[k].right
      /\ List!Node(level[k].right, level[k].gap).gap = level[k].gap
  BY <1>1, NodeIs
<1>7. /\ DOMAIN new = S \ {k} /\ new[p].right = level[k].right /\ new[p].gap = level[k].gap
      /\ \A n \in S \ {k} : n # p => new[n] = level[n]
  BY <1>3, <1>5, <1>6
<1>8. new \in [S \ {k} -> NodeType]
  BY <1>1, <1>3, <1>6
<1>9. new \in Levels
  <2>1. IsFiniteSet(S \ {k}) /\ S \ {k} \in SUBSET Nodes /\ NegInf \in S \ {k}
    BY <1>1, FS_RemoveElement
  <2> HIDE DEF new, S
  <2> QED
    BY <1>8, <2>1, LevelIs
<1> HIDE DEF new, S
<1>10. LevelLinked(new)
  <2> SUFFICES ASSUME NEW n \in S \ {k}
               PROVE  IF new[n].right = Null
                      THEN \A m \in S \ {k} : ~Before(n, m)
                      ELSE /\ new[n].right \in S \ {k}
                           /\ Before(n, new[n].right)
                           /\ \A m \in S \ {k} : Before(n, m) => ~Before(m, new[n].right)
    BY <1>7 DEF LevelLinked
  <2>1. CASE n # p
    BY <1>4, <1>7, <2>1
  <2>2. CASE n = p
    <3> DEFINE r == level[k].right
    <3>1. new[p].right = r
      BY <1>7
    <3>2. \A m \in S \ {k} : Before(p, m) => Before(k, m)
      <4> TAKE m \in S \ {k}
      <4> HAVE Before(p, m)
      <4>1. ~Before(m, k) /\ m # k /\ m \in Nodes
        BY <1>1, <1>2, <1>4
      <4> QED
        BY <1>1, <4>1, Ordered
    <3>3. CASE r = Null
      <4>1. \A m \in S : ~Before(k, m)
        BY <1>1, <1>4, <3>3
      <4> QED
        BY <2>2, <3>1, <3>2, <3>3, <4>1
    <3>4. CASE r # Null
      <4>1. r \in S /\ Before(k, r) /\ \A m \in S : Before(k, m) => ~Before(m, r)
        BY <1>1, <1>4, <3>4
      <4>2. r # k /\ Before(p, r)
        BY <1>1, <1>5, <4>1, Ordered
      <4> QED
        BY <2>2, <3>1, <3>2, <3>4, <4>1, <4>2
    <3> QED
      BY <3>3, <3>4
  <2> QED
    BY <2>1, <2>2
<1>11. \A n \in S \ {k} : n # p => level[n].right # k
  BY <1>4
<1> QED
  BY <1>2, <1>5, <1>7, <1>9, <1>10, <1>11 DEF new, S, UnlinkMade

-----------------------------------------------------------------------------
(* insert.                                                                 *)

\* The list of a sorted set: its levels are in order, and none is empty but a new list's.
WellBuilt(list) == Form(list) /\ List!Towers(list)

LEMMA Length ==
    ASSUME NEW list, WellBuilt(list)
    PROVE  list.length = Cardinality(List!KeysOf(list)) /\ list.length \in Nat
<1>1. list.length = Cardinality(List!KeysOf(list))
  BY SameCount DEF WellBuilt, List!Towers
<1>2. IsFiniteSet(List!KeysOf(list))
  BY BottomKeys DEF WellBuilt
<1> QED
  BY <1>1, <1>2, FS_CardinalityType

\* A level whose head points nowhere holds the head only.
LEMMA EmptyLevel ==
    ASSUME NEW level \in Levels, LevelLinked(level)
    PROVE  level[NegInf].right = Null <=> DOMAIN level = {NegInf}
<1>1. NegInf \in DOMAIN level /\ DOMAIN level \subseteq Nodes /\ NegInf # Null
  BY LevelFacts, NodesAre
<1>2. ASSUME level[NegInf].right = Null, NEW n \in DOMAIN level, n # NegInf
      PROVE  FALSE
  <2>1. n \in Keys
    BY <1>1, <1>2 DEF Nodes
  <2>2. Before(NegInf, n)
    BY <2>1, Ordered
  <2> QED
    BY <1>1, <1>2, <2>2 DEF LevelLinked
<1>3. ASSUME level[NegInf].right # Null
      PROVE  DOMAIN level # {NegInf}
  <2>1. level[NegInf].right \in DOMAIN level /\ Before(NegInf, level[NegInf].right)
    BY <1>1, <1>3 DEF LevelLinked
  <2>2. level[NegInf].right # NegInf
    BY <1>1, <2>1, Ordered
  <2> QED
    BY <2>1, <2>2
<1> QED
  BY <1>1, <1>2, <1>3

LEMMA NewListKeys == List!KeysOf(List!NewList) = {} /\ List!Height(List!NewList) = 1
                     /\ List!NewList.levels[1][NegInf].right = Null
<1> DEFINE level == [n \in {NegInf} |-> List!Node(Null, 0)]
<1>1. List!NewList.levels = <<level>>
  BY DEF List!NewList
<1>2. List!Height(List!NewList) = 1
  BY <1>1 DEF List!Height
<1>3. List!NewList.levels[1] = level /\ DOMAIN level = {NegInf}
  BY <1>1
<1>4. (UNION {DOMAIN List!NewList.levels[l] : l \in 1 .. 1}) = {NegInf}
  BY <1>3
<1>5. level[NegInf].right = Null
  BY DEF List!Node
<1> QED
  BY <1>2, <1>3, <1>4, <1>5 DEF List!KeysOf

Inserted(new, list, k, h, l) ==
    /\ new \in Levels /\ LevelLinked(new)
    /\ DOMAIN new = IF l > List!Height(list) THEN {NegInf, k}
                    ELSE IF l = 1 \/ l <= h THEN DOMAIN list.levels[l] \cup {k}
                    ELSE DOMAIN list.levels[l]

LEMMA InsertedLevel ==
    ASSUME NEW list, WellBuilt(list), List!Height(list) # 0, NEW k \in Keys, k \notin List!KeysOf(list),
           NEW h \in Nat \ {0}, NEW l \in Nat \ {0}
    PROVE  Inserted(List!LevelWith(list, List!Search(list, k), k, h, l), list, k, h, l)
<1> DEFINE H == List!Height(list)
           s == List!Search(list, k)
           new == List!LevelWith(list, s, k, h, l)
           p == List!PredAt(list, s, l)
<1>0. Form(list) /\ H \in Nat /\ list.length \in Nat
  BY HeightIs, Length DEF WellBuilt
<1>1. /\ s.level = 1 /\ s.index \in Int /\ IsPred(list.levels[1], s.node, k)
      /\ \A i \in 2 .. H : /\ IsPred(list.levels[i], List!PredAt(list, s, i).node, k)
                           /\ List!PredAt(list, s, i).index \in Int
  <2>1. s.level = 1 /\ s.index \in Int /\ IsPred(list.levels[1], s.node, k)
    BY <1>0, SearchFinds
  <2>2. \A i \in s.level + 1 .. H : /\ IsPred(list.levels[i], List!PredAt(list, s, i).node, k)
                                    /\ List!PredAt(list, s, i).index \in Int
    BY <1>0, SearchFinds
  <2> QED
    BY <2>1, <2>2
<1>2. CASE l > H
  <2>1. new = List!PairLevel(k, s.index + 1, list.length - s.index)
    BY <1>2 DEF List!LevelWith
  <2>2. s.index + 1 \in Int /\ list.length - s.index \in Int
    BY <1>0, <1>1
  <2> HIDE DEF new, s, Inserted
  <2>3. PairMade(new, k, s.index + 1, list.length - s.index)
    BY <2>1, <2>2, PairLevelLinked
  <2>4. new \in Levels /\ LevelLinked(new) /\ DOMAIN new = {NegInf, k}
    BY <2>3 DEF PairMade
  <2> QED
    BY <1>2, <2>4 DEF new, s, Inserted
<1>3. CASE l <= H
  <2>0. l \in 1 .. H /\ ~(l > H) /\ list.levels[l] \in Levels /\ LevelLinked(list.levels[l])
    BY <1>0, <1>3, HeightIs DEF Form
  <2>1. CASE l = 1
    <3> DEFINE g == IF list.levels[1][s.node].right = Null THEN 0 ELSE 1
    <3>1. new = List!LinkAfter(list.levels[1], s.node, k, 1, g)
      BY <2>0, <2>1 DEF List!LevelWith
    <3>2. g \in Int
      OBVIOUS
    <3> HIDE DEF new, g, s
    <3>a. LinkMade(new, list.levels[1], s.node, k, 1, g)
      BY <1>1, <2>0, <2>1, <3>1, <3>2, LinkAfterLinked
    <3>3. new \in Levels /\ LevelLinked(new) /\ DOMAIN new = DOMAIN list.levels[1] \cup {k}
      BY <3>a DEF LinkMade
    <3> QED
      BY <2>0, <2>1, <3>3 DEF new, s, Inserted
  <2>2. CASE l # 1
    <3>1. l \in 2 .. H
      BY <2>0, <2>2
    <3>2. IsPred(list.levels[l], p.node, k) /\ p.index \in Int
      BY <1>1, <3>1
    <3>3. p.node \in DOMAIN list.levels[l] /\ list.levels[l][p.node].gap \in Int
      BY <2>0, <3>2, LevelFacts DEF IsPred
    <3>4. CASE l > h
      <4>1. new = List!Stretch(list.levels[l], p.node, 1)
        BY <2>0, <2>2, <3>4 DEF List!LevelWith
      <4> HIDE DEF new, p, s
      <4>2. new \in Levels /\ LevelLinked(new) /\ DOMAIN new = DOMAIN list.levels[l]
        BY <2>0, <3>3, <4>1, StretchLinked DEF StretchMade
      <4> QED
        BY <2>0, <2>2, <3>4, <4>2 DEF new, s, Inserted
    <3>5. CASE l <= h
      <4> DEFINE a == List!NewPredGap(s, p)
                 b == list.levels[l][p.node].gap + 1 - a
      <4>1. new = List!LinkAfter(list.levels[l], p.node, k, a, b)
        BY <2>0, <2>2, <3>5 DEF List!LevelWith
      <4>2. a \in Int
        BY <1>1, <3>2 DEF List!NewPredGap
      <4>3. b \in Int
        <5> HIDE DEF a
        <5> QED
          BY <3>3, <4>2
      <4> HIDE DEF new, p, s, a, b
      <4>a. LinkMade(new, list.levels[l], p.node, k, a, b)
        BY <2>0, <3>2, <4>1, <4>2, <4>3, LinkAfterLinked
      <4>4. new \in Levels /\ LevelLinked(new) /\ DOMAIN new = DOMAIN list.levels[l] \cup {k}
        BY <4>a DEF LinkMade
      <4> QED
        BY <2>0, <2>2, <3>5, <4>4 DEF new, s, Inserted
    <3> QED
      BY <3>4, <3>5
  <2> QED
    BY <2>1, <2>2
<1> QED
  BY <1>0, <1>2, <1>3

\* Levels as insert and delete_key leave them.
Stacked(list, H, ks) ==
    /\ list.levels \in [1 .. H -> Levels]
    /\ \A l \in 1 .. H : LevelLinked(list.levels[l]) /\ DOMAIN list.levels[l] # {NegInf}
    /\ \A l \in 2 .. H : DOMAIN list.levels[l] \subseteq DOMAIN list.levels[l - 1]
    /\ IF H = 0 THEN ks = {} ELSE DOMAIN list.levels[1] = ks \cup {NegInf} /\ NegInf \notin ks
    /\ list.length = Cardinality(ks)

LEMMA BuiltFrom ==
    ASSUME NEW list, NEW H \in Nat, NEW ks, Stacked(list, H, ks)
    PROVE  WellBuilt(list) /\ List!KeysOf(list) = ks
<1>1. /\ list.levels \in [1 .. H -> Levels]
      /\ \A l \in 1 .. H : LevelLinked(list.levels[l]) /\ DOMAIN list.levels[l] # {NegInf}
      /\ \A l \in 2 .. H : DOMAIN list.levels[l] \subseteq DOMAIN list.levels[l - 1]
      /\ IF H = 0 THEN ks = {} ELSE DOMAIN list.levels[1] = ks \cup {NegInf} /\ NegInf \notin ks
      /\ list.length = Cardinality(ks)
  BY DEF Stacked
<1>2. list.levels \in Seq(Levels) /\ Len(list.levels) = H
  BY <1>1
<1>3. List!Height(list) = H
  BY <1>2 DEF List!Height
<1>4. Form(list)
  BY <1>1, <1>2, <1>3 DEF Form
<1>5. List!KeysOf(list) = ks
  <2>1. CASE H = 0
    BY <1>1, <1>3, <1>4, <2>1, BottomKeys
  <2>2. CASE H # 0
    <3>1. List!KeysOf(list) = DOMAIN list.levels[1] \ {NegInf}
      BY <1>3, <1>4, <2>2, BottomKeys
    <3>2. DOMAIN list.levels[1] = ks \cup {NegInf} /\ NegInf \notin ks
      BY <1>1, <2>2
    <3> QED
      BY <3>1, <3>2
  <2> QED
    BY <2>1, <2>2
<1>6. List!Towers(list)
  <2>1. list.length = List!Cardinality(List!KeysOf(list))
    BY <1>1, <1>5, SameCount
  <2> QED
    BY <1>1, <1>3, <2>1 DEF List!Towers
<1> QED
  BY <1>4, <1>5, <1>6 DEF WellBuilt

\* The list insert starts over from holds nothing; in every other no level is empty.
LEMMA EmptyList ==
    ASSUME NEW list, WellBuilt(list)
    PROVE  IF List!Height(list) = 0 \/ list.levels[List!Height(list)][NegInf].right = Null
           THEN List!KeysOf(list) = {}
           ELSE \A l \in 1 .. List!Height(list) : DOMAIN list.levels[l] # {NegInf}
<1> DEFINE H == List!Height(list)
<1>1. /\ Form(list) /\ H \in Nat
      /\ \A l \in 1 .. H : list.levels[l] \in Levels /\ LevelLinked(list.levels[l])
      /\ \A l \in 1 .. H : DOMAIN list.levels[l] = {NegInf} => list = List!NewList
  BY HeightIs DEF WellBuilt, Form, List!Towers
<1> HIDE DEF H
<1>2. CASE H = 0
  BY <1>1, <1>2, BottomKeys DEF H
<1>3. CASE H # 0 /\ list.levels[H][NegInf].right = Null
  <2>1. DOMAIN list.levels[H] = {NegInf}
    <3>1. H \in 1 .. H
      BY <1>1, <1>3
    <3> QED
      BY <1>1, <1>3, <3>1, EmptyLevel
  <2>2. list = List!NewList
    BY <1>1, <1>3, <2>1
  <2> QED
    BY <1>3, <2>2, NewListKeys DEF H
<1>4. CASE H # 0 /\ list.levels[H][NegInf].right # Null
  <2>1. list # List!NewList
    BY <1>4, NewListKeys DEF H
  <2> QED
    BY <1>1, <1>4, <2>1 DEF H
<1> QED
  BY <1>2, <1>3, <1>4 DEF H

LEMMA InsertBuilds ==
    ASSUME NEW list, WellBuilt(list), NEW k \in Keys, NEW h \in Nat \ {0}
    PROVE  /\ WellBuilt(List!Insert(list, k, h))
           /\ List!KeysOf(List!Insert(list, k, h)) = List!KeysOf(list) \cup {k}
<1> DEFINE H == List!Height(list)
           ks == List!KeysOf(list)
           s == List!Search(list, k)
           new == List!Insert(list, k, h)
<1>1. /\ Form(list) /\ H \in Nat /\ list.length = Cardinality(ks) /\ list.length \in Nat
      /\ k # NegInf /\ NegInf \notin ks /\ IsFiniteSet(ks)
  BY HeightIs, Length, BottomKeys, NodesAre DEF WellBuilt
<1>2. CASE H = 0 \/ list.levels[H][NegInf].right = Null
  <2>1. ks = {}
    BY <1>2, EmptyList
  <2>2. new = [levels |-> <<List!PairLevel(k, 1, 0)>>, length |-> 1]
    BY <1>2 DEF List!Insert
  <2>3. PairMade(List!PairLevel(k, 1, 0), k, 1, 0)
    BY PairLevelLinked
  <2>4. Stacked(new, 1, {k})
    <3>1. new.levels = <<List!PairLevel(k, 1, 0)>> /\ new.length = 1
      BY <2>2
    <3>2. /\ new.levels \in [1 .. 1 -> Levels] /\ LevelLinked(new.levels[1])
          /\ DOMAIN new.levels[1] = {NegInf, k}
      BY <2>3, <3>1 DEF PairMade
    <3>3. Cardinality({k}) = 1
      BY FS_Singleton
    <3> HIDE DEF new
    <3> QED
      BY <1>1, <3>1, <3>2, <3>3 DEF Stacked
  <2> HIDE DEF new
  <2>5. WellBuilt(new) /\ List!KeysOf(new) = {k}
    BY <2>4, BuiltFrom
  <2> QED
    BY <2>1, <2>5 DEF new
<1>3. CASE ~(H = 0 \/ list.levels[H][NegInf].right = Null) /\ k \in ks
  <2>1. s.node = k
    BY <1>1, <1>3, SearchFinds
  <2>2. new = list
    BY <1>3, <2>1 DEF List!Insert
  <2> QED
    BY <1>3, <2>2
<1>4. CASE ~(H = 0 \/ list.levels[H][NegInf].right = Null) /\ k \notin ks
  <2> DEFINE high == IF h > H THEN h ELSE H
             f == [l \in 1 .. high |-> List!LevelWith(list, s, k, h, l)]
  <2>1. s.node # k
    BY <1>1, <1>4, SearchFinds
  <2>2. new.levels = f /\ new.length = list.length + 1
    BY <1>4, <2>1 DEF List!Insert
  <2>3. high \in Nat /\ H <= high /\ h <= high /\ high # 0 /\ (high = h \/ high = H)
    BY <1>1
  <2>4. \A l \in 1 .. H : DOMAIN list.levels[l] # {NegInf} /\ NegInf \in DOMAIN list.levels[l]
    BY <1>1, <1>4, EmptyList, HeightIs, LevelFacts
  <2>5. \A l \in 1 .. high :
          /\ f[l] \in Levels /\ LevelLinked(f[l])
          /\ DOMAIN f[l] = IF l > H THEN {NegInf, k}
                           ELSE IF l = 1 \/ l <= h THEN DOMAIN list.levels[l] \cup {k}
                           ELSE DOMAIN list.levels[l]
    <3> SUFFICES ASSUME NEW l \in 1 .. high
                 PROVE  /\ f[l] \in Levels /\ LevelLinked(f[l])
                        /\ DOMAIN f[l] = IF l > H THEN {NegInf, k}
                                         ELSE IF l = 1 \/ l <= h THEN DOMAIN list.levels[l] \cup {k}
                                         ELSE DOMAIN list.levels[l]
      OBVIOUS
    <3>1. f[l] = List!LevelWith(list, s, k, h, l) /\ l \in Nat \ {0}
      BY <2>3
    <3> HIDE DEF f
    <3>2. Inserted(f[l], list, k, h, l)
      BY <1>4, <3>1, InsertedLevel
    <3> QED
      BY <3>2 DEF Inserted
  <2>6. f = [l \in 1 .. high |-> f[l]]
    OBVIOUS
  <2> HIDE DEF f, high, s
  <2>7. \A l \in 1 .. high : DOMAIN f[l] # {NegInf}
    <3> SUFFICES ASSUME NEW l \in 1 .. high PROVE DOMAIN f[l] # {NegInf}
      OBVIOUS
    <3>1. k \in DOMAIN f[l] \/ (DOMAIN f[l] = DOMAIN list.levels[l] /\ l \in 1 .. H)
      <4>1. CASE l > H
        <5>1. DOMAIN f[l] = {NegInf, k}
          BY <2>5, <4>1
        <5> QED
          BY <5>1
      <4>2. CASE ~(l > H)
        <5>1. l \in 1 .. H
          BY <1>1, <2>3, <4>2
        <5>2. \/ DOMAIN f[l] = DOMAIN list.levels[l] \cup {k}
              \/ DOMAIN f[l] = DOMAIN list.levels[l]
          BY <2>5, <4>2
        <5> QED
          BY <5>1, <5>2
      <4> QED
        BY <4>1, <4>2
    <3> QED
      BY <1>1, <2>4, <3>1
  <2>8. \A l \in 2 .. high : DOMAIN f[l] \subseteq DOMAIN f[l - 1]
    <3> SUFFICES ASSUME NEW l \in 2 .. high PROVE DOMAIN f[l] \subseteq DOMAIN f[l - 1]
      OBVIOUS
    <3>1. l \in 1 .. high /\ l - 1 \in 1 .. high /\ l # 1
      BY <2>3
    <3>2. CASE l > H
      <4>1. DOMAIN f[l] = {NegInf, k}
        BY <2>5, <3>1, <3>2
      <4>2. l - 1 <= h
        BY <1>1, <2>3, <3>1, <3>2
      <4>3. CASE l - 1 > H
        BY <2>5, <3>1, <4>1, <4>3
      <4>4. CASE ~(l - 1 > H)
        <5>1. l - 1 \in 1 .. H
          BY <1>1, <3>1, <4>4
        <5>2. DOMAIN f[l - 1] = DOMAIN list.levels[l - 1] \cup {k}
          BY <2>5, <3>1, <4>2, <4>4
        <5>3. NegInf \in DOMAIN list.levels[l - 1]
          BY <2>4, <5>1
        <5> QED
          BY <4>1, <5>2, <5>3
      <4> QED
        BY <4>3, <4>4
    <3>3. CASE l <= H
      <4>1. l \in 2 .. H /\ ~(l > H) /\ ~(l - 1 > H) /\ (l <= h => l - 1 <= h)
        BY <1>1, <3>1, <3>3
      <4>2. DOMAIN list.levels[l] \subseteq DOMAIN list.levels[l - 1]
        BY <1>1, <4>1 DEF Form
      <4>3. DOMAIN f[l] = IF l <= h THEN DOMAIN list.levels[l] \cup {k} ELSE DOMAIN list.levels[l]
        BY <2>5, <3>1, <4>1
      <4>4. \/ DOMAIN f[l - 1] = DOMAIN list.levels[l - 1] \cup {k}
            \/ ~(l - 1 <= h) /\ DOMAIN f[l - 1] = DOMAIN list.levels[l - 1]
        BY <2>5, <3>1, <4>1
      <4> QED
        BY <4>1, <4>2, <4>3, <4>4
    <3> QED
      BY <1>1, <2>3, <3>2, <3>3
  <2>9. DOMAIN f[1] = (ks \cup {k}) \cup {NegInf}
    <3>1. 1 \in 1 .. high /\ ~(1 > H)
      BY <1>1, <1>4, <2>3
    <3>2. DOMAIN f[1] = DOMAIN list.levels[1] \cup {k}
      BY <2>5, <3>1
    <3>3. DOMAIN list.levels[1] = ks \cup {NegInf}
      BY <1>1, <1>4, BottomKeys
    <3> QED
      BY <3>2, <3>3
  <2>10. new.length = Cardinality(ks \cup {k})
    <3> HIDE DEF ks, new
    <3>1. Cardinality(ks \cup {k}) = Cardinality(ks) + 1
      BY <1>1, <1>4, FS_AddElement
    <3> QED
      BY <1>1, <2>2, <3>1
  <2>11. Stacked(new, high, ks \cup {k})
    <3>1. f \in [1 .. high -> Levels]
      BY <2>5, <2>6
    <3> HIDE DEF ks, new
    <3> QED
      BY <1>1, <2>2, <2>3, <2>5, <2>7, <2>8, <2>9, <2>10, <3>1 DEF Stacked
  <2> HIDE DEF new, ks
  <2>12. WellBuilt(new) /\ List!KeysOf(new) = ks \cup {k}
    BY <2>3, <2>11, BuiltFrom
  <2> QED
    BY <2>12 DEF new, ks
<1> QED
  BY <1>2, <1>3, <1>4

-----------------------------------------------------------------------------
(* delete_key.                                                             *)

Removed(new, list, k, l) ==
    new \in Levels /\ LevelLinked(new) /\ DOMAIN new = DOMAIN list.levels[l] \ {k}

LEMMA RemovedLevel ==
    ASSUME NEW list, WellBuilt(list), NEW k \in List!KeysOf(list), NEW l \in 1 .. List!Height(list)
    PROVE  Removed(List!LevelWithout(list, List!Search(list, k), k, l), list, k, l)
<1> DEFINE H == List!Height(list)
           s == List!Search(list, k)
           new == List!LevelWithout(list, s, k, l)
           p == List!PredAt(list, s, l)
<1>0. /\ Form(list) /\ H \in Nat /\ H # 0 /\ k \in Keys /\ k # NegInf
      /\ list.levels[l] \in Levels /\ LevelLinked(list.levels[l])
  BY HeightIs, BottomKeys, NodesAre DEF WellBuilt, Form
<1>1. s.level \in 1 .. H /\ k \in DOMAIN list.levels[s.level]
  BY <1>0, SearchFinds
<1>2. CASE l > s.level
  <2>0. l \in s.level + 1 .. H
    BY <1>0, <1>1, <1>2
  <2>1. IsPred(list.levels[l], p.node, k) /\ k \notin DOMAIN list.levels[l]
    BY <1>0, <2>0, SearchFinds
  <2>2. new = List!Stretch(list.levels[l], p.node, -1)
    BY <1>2 DEF List!LevelWithout
  <2>3. p.node \in DOMAIN list.levels[l]
    BY <2>1 DEF IsPred
  <2> HIDE DEF new, p, s
  <2>4. new \in Levels /\ LevelLinked(new) /\ DOMAIN new = DOMAIN list.levels[l]
    BY <1>0, <2>2, <2>3, StretchLinked DEF StretchMade
  <2> QED
    BY <2>1, <2>4 DEF Removed, new, s
<1>3. CASE ~(l > s.level)
  <2>1. s.level \in l .. H
    BY <1>0, <1>1, <1>3
  <2>2. k \in DOMAIN list.levels[l]
    BY <1>0, <1>1, <2>1, TowersReachDown
  <2>3. new = List!Unlink(list.levels[l], k)
    BY <1>3 DEF List!LevelWithout
  <2> HIDE DEF new, s
  <2>a. UnlinkMade(new, list.levels[l], k)
    BY <1>0, <2>2, <2>3, UnlinkLinked
  <2>4. new \in Levels /\ LevelLinked(new) /\ DOMAIN new = DOMAIN list.levels[l] \ {k}
    BY <2>a DEF UnlinkMade
  <2> QED
    BY <2>4 DEF Removed, new, s
<1> QED
  BY <1>2, <1>3

\* Below keeps the levels up to the first that is left empty.
LEMMA BelowIs ==
    ASSUME NEW H \in Nat, NEW f, f = [l \in 1 .. H |-> f[l]]
    PROVE  \E m \in 0 .. H :
             /\ List!Below(f) = [l \in 1 .. m |-> f[l]]
             /\ \A l \in 1 .. m : f[l][NegInf].right # Null
             /\ m # H => f[m + 1][NegInf].right = Null
<1> DEFINE E == {l \in 1 .. H : f[l][NegInf].right = Null}
           Stops(m) == m + 1 \in E \cup {H + 1} /\ \A l \in E : m < l
           m == CHOOSE j \in 0 .. H : Stops(j)
<1>0. Len(f) = H /\ List!Emptied(f) = E
  <2>1. Len(f) = H
    OBVIOUS
  <2> QED
    BY <2>1 DEF List!Emptied
<1>1. List!Below(f) = SubSeq(f, 1, m)
  BY <1>0 DEF List!Below
<1>2. \E j \in 0 .. H : Stops(j)
  <2>1. CASE E = {}
    <3>1. H \in 0 .. H
      OBVIOUS
    <3> HIDE DEF E
    <3>2. H + 1 \in E \cup {H + 1} /\ \A l \in E : H < l
      BY <2>1
    <3>3. Stops(H)
      BY <3>2
    <3> QED
      BY <3>1, <3>3
  <2>2. CASE E # {}
    <3>1. E \subseteq Nat
      OBVIOUS
    <3>2. PICK x \in E : \A y \in E : ~(y < x)
      <4> HIDE DEF E
      <4> QED
        BY <2>2, <3>1, LeastIn
    <3>3. x \in 1 .. H /\ \A y \in E : y \in 1 .. H
      OBVIOUS
    <3> HIDE DEF E
    <3>4. x - 1 \in 0 .. H /\ Stops(x - 1)
      BY <3>2, <3>3
    <3> QED
      BY <3>4
  <2> QED
    BY <2>1, <2>2
<1>3. m \in 0 .. H /\ Stops(m)
  <2> HIDE DEF Stops
  <2> QED
    BY <1>2
<1> HIDE DEF m
<1>4. SubSeq(f, 1, m) = [l \in 1 .. m |-> f[l]]
  <2>1. SubSeq(f, 1, m) = [l \in 1 .. m |-> f[1 + l - 1]]
    BY <1>3
  <2>2. \A l \in 1 .. m : 1 + l - 1 = l
    BY <1>3
  <2> QED
    BY <2>1, <2>2
<1>5. \A l \in 1 .. m : f[l][NegInf].right # Null
  <2> SUFFICES ASSUME NEW l \in 1 .. m, f[l][NegInf].right = Null PROVE FALSE
    OBVIOUS
  <2>1. l \in E
    BY <1>3
  <2> QED
    BY <1>3, <2>1
<1>6. m # H => f[m + 1][NegInf].right = Null
  BY <1>3
<1> QED
  BY <1>1, <1>3, <1>4, <1>5, <1>6

LEMMA DeleteBuilds ==
    ASSUME NEW list, WellBuilt(list), NEW k \in List!KeysOf(list)
    PROVE  /\ WellBuilt(List!Delete(list, k))
           /\ List!KeysOf(List!Delete(list, k)) = List!KeysOf(list) \ {k}
<1> DEFINE H == List!Height(list)
           ks == List!KeysOf(list)
           s == List!Search(list, k)
           new == List!Delete(list, k)
           f == [l \in 1 .. H |-> List!LevelWithout(list, s, k, l)]
<1>1. /\ Form(list) /\ H \in Nat /\ H # 0 /\ k \in Keys /\ k # NegInf /\ NegInf \notin ks
      /\ list.length = Cardinality(ks) /\ IsFiniteSet(ks)
      /\ DOMAIN list.levels[1] = ks \cup {NegInf}
  BY HeightIs, Length, BottomKeys, NodesAre DEF WellBuilt
<1>2. new.levels = List!Below(f) /\ new.length = list.length - 1
  <2>1. s.node = k
    BY <1>1, SearchFinds
  <2> QED
    BY <2>1 DEF List!Delete
<1>3. \A l \in 1 .. H : /\ f[l] \in Levels /\ LevelLinked(f[l])
                        /\ DOMAIN f[l] = DOMAIN list.levels[l] \ {k}
  <2> SUFFICES ASSUME NEW l \in 1 .. H
               PROVE  /\ f[l] \in Levels /\ LevelLinked(f[l])
                      /\ DOMAIN f[l] = DOMAIN list.levels[l] \ {k}
    OBVIOUS
  <2>1. f[l] = List!LevelWithout(list, s, k, l)
    OBVIOUS
  <2> HIDE DEF f
  <2>2. Removed(f[l], list, k, l)
    BY <2>1, RemovedLevel
  <2> QED
    BY <2>2 DEF Removed
<1>4. f = [l \in 1 .. H |-> f[l]]
  OBVIOUS
<1> HIDE DEF f, new, ks, H, s
<1>5. PICK m \in 0 .. H :
        /\ List!Below(f) = [l \in 1 .. m |-> f[l]]
        /\ \A l \in 1 .. m : f[l][NegInf].right # Null
        /\ m # H => f[m + 1][NegInf].right = Null
  BY <1>1, <1>4, BelowIs
<1>6. \A l \in 1 .. m : l \in 1 .. H /\ new.levels[l] = f[l]
  BY <1>1, <1>2, <1>5
<1>7. \A l \in 1 .. m : DOMAIN f[l] # {NegInf}
  BY <1>3, <1>5, <1>6, EmptyLevel
<1>8. \A l \in 2 .. m : DOMAIN f[l] \subseteq DOMAIN f[l - 1]
  <2> SUFFICES ASSUME NEW l \in 2 .. m PROVE DOMAIN f[l] \subseteq DOMAIN f[l - 1]
    OBVIOUS
  <2>1. l \in 2 .. H /\ l \in 1 .. H /\ l - 1 \in 1 .. H
    BY <1>1, <1>5
  <2>2. DOMAIN list.levels[l] \subseteq DOMAIN list.levels[l - 1]
    BY <1>1, <2>1 DEF Form, H
  <2> QED
    BY <1>3, <2>1, <2>2
<1>9. DOMAIN f[1] = (ks \ {k}) \cup {NegInf}
  BY <1>1, <1>3
<1>10. m = 0 => ks \ {k} = {}
  <2> SUFFICES ASSUME m = 0 PROVE ks \ {k} = {}
    OBVIOUS
  <2>1. 1 \in 1 .. H /\ f[1][NegInf].right = Null
    BY <1>1, <1>5
  <2>2. DOMAIN f[1] = {NegInf}
    BY <1>3, <2>1, EmptyLevel
  <2> QED
    BY <1>1, <1>9, <2>2
<1>11. new.length = Cardinality(ks \ {k})
  <2>1. Cardinality(ks \ {k}) = Cardinality(ks) - 1
    BY <1>1, FS_RemoveElement DEF ks
  <2> QED
    BY <1>1, <1>2, <2>1
<1>12. Stacked(new, m, ks \ {k})
  <2>1. new.levels \in [1 .. m -> Levels]
    BY <1>2, <1>3, <1>5, <1>6
  <2>2. \A l \in 1 .. m : LevelLinked(new.levels[l]) /\ DOMAIN new.levels[l] # {NegInf}
    BY <1>3, <1>6, <1>7
  <2>3. \A l \in 2 .. m : DOMAIN new.levels[l] \subseteq DOMAIN new.levels[l - 1]
    <3> SUFFICES ASSUME NEW l \in 2 .. m
                 PROVE  DOMAIN new.levels[l] \subseteq DOMAIN new.levels[l - 1]
      OBVIOUS
    <3>1. l \in 1 .. m /\ l - 1 \in 1 .. m
      BY <1>5
    <3> QED
      BY <1>6, <1>8, <3>1
  <2>4. m # 0 => DOMAIN new.levels[1] = (ks \ {k}) \cup {NegInf} /\ NegInf \notin ks \ {k}
    <3> SUFFICES ASSUME m # 0
                 PROVE  DOMAIN new.levels[1] = (ks \ {k}) \cup {NegInf} /\ NegInf \notin ks \ {k}
      OBVIOUS
    <3>1. 1 \in 1 .. m
      BY <1>5
    <3> QED
      BY <1>1, <1>6, <1>9, <3>1
  <2> QED
    BY <1>10, <1>11, <2>1, <2>2, <2>3, <2>4 DEF Stacked
<1>13. m \in Nat
  BY <1>5
<1>14. WellBuilt(new) /\ List!KeysOf(new) = ks \ {k}
  BY <1>12, <1>13, BuiltFrom
<1> QED
  BY <1>14 DEF new, ks

-----------------------------------------------------------------------------
(* The sorted set.                                                         *)

\* What every operation may assume and has to restore.  Without the third conjunct remove and
\* ZINCRBY could ask delete_key for a key that is not there, on a list without a head.
Inv == TypeOK /\ WellBuilt(score_tree) /\ MembersListed

LEMMA KeyIs ==
    \A m, s : /\ m \in Members /\ s \in Scores => Key(s, m) \in Keys
              /\ Key(s, m).member = m /\ Key(s, m).score = s
  BY DEF Key, Keys

LEMMA TreeKeys ==
    ASSUME NEW list, WellBuilt(list)
    PROVE  List!KeysOf(list) \subseteq Keys /\ list.length \in Nat
  BY BottomKeys, Length DEF WellBuilt

LEMMA InitInv ==
    ASSUME Init
    PROVE  Inv
<1>1. score_hash = [m \in {} |-> 0] /\ score_tree = List!NewList /\ nops = 0 /\ skewed = FALSE
  BY DEF Init
<1>2. DOMAIN score_hash = {}
  BY <1>1
<1>3. WellBuilt(score_tree)
  <2> DEFINE level == [n \in {NegInf} |-> List!Node(Null, 0)]
  <2>1. score_tree.levels = <<level>> /\ score_tree.length = 0
    BY <1>1 DEF List!NewList
  <2>2. List!Node(Null, 0) \in NodeType /\ List!Node(Null, 0).right = Null
    BY NodeIs
  <2>3. level \in [{NegInf} -> NodeType] /\ DOMAIN level = {NegInf} /\ level[NegInf].right = Null
    BY <2>2
  <2>4. level \in Levels
    <3>1. IsFiniteSet({NegInf}) /\ {NegInf} \in SUBSET Nodes /\ NegInf \in {NegInf}
      BY NodesAre, FS_Singleton
    <3> HIDE DEF level
    <3> QED
      BY <2>3, <3>1, LevelIs
  <2> HIDE DEF level
  <2>5. LevelLinked(level)
    BY <2>3, NodesAre, Ordered DEF LevelLinked
  <2>6. score_tree.levels \in Seq(Levels) /\ score_tree.levels[1] = level
    BY <2>1, <2>4
  <2>7. List!Height(score_tree) = 1 /\ List!KeysOf(score_tree) = {}
    BY <1>1, NewListKeys
  <2>8. Form(score_tree)
    BY <2>5, <2>6, <2>7 DEF Form
  <2>9. List!Towers(score_tree)
    <3>1. score_tree.length = List!Cardinality(List!KeysOf(score_tree))
      BY <2>1, <2>7, SameCount, FS_EmptySet
    <3> QED
      BY <1>1, <2>7, <3>1 DEF List!Towers
  <2> QED
    BY <2>8, <2>9 DEF WellBuilt
<1>4. TypeOK
  <2>1. Listed = {} /\ score_tree.length \in Nat
    BY <1>1, <1>3, NewListKeys, TreeKeys DEF Listed
  <2>a. MaxOps \in Nat
    BY SortedSetAssumption DEF SortedSetAssumption
  <2>b. nops \in 0 .. MaxOps
    BY <1>1, <2>a
  <2>c. skewed \in BOOLEAN
    BY <1>1
  <2>2. nops \in 0 .. MaxOps /\ skewed \in BOOLEAN
    BY <2>b, <2>c
  <2>3. DOMAIN score_hash \subseteq Members /\ \A m \in DOMAIN score_hash : score_hash[m] \in Scores
    BY <1>2
  <2>4. Listed \subseteq [score : Scores, member : Members]
    BY <2>1
  <2> QED
    BY <2>1, <2>2, <2>3, <2>4 DEF TypeOK
<1>5. MembersListed
  BY <1>2 DEF MembersListed
<1> QED
  BY <1>3, <1>4, <1>5 DEF Inv

\* What each operation makes of the list.
LEMMA AddLists ==
    ASSUME Inv, NEW m \in Members, NEW s \in Scores, zset_add(m, s)
    PROVE  WellBuilt(score_tree') /\ Listed' = Listed \cup {Key(s, m)}
<1>1. PICK h \in 1 .. MaxHeight : score_tree' = List!Insert(score_tree, Key(s, m), h)
  BY DEF zset_add, InsertMember
<1>2. h \in Nat \ {0} /\ Key(s, m) \in Keys
  BY SortedSetAssumption, KeyIs DEF SortedSetAssumption
<1>3. /\ WellBuilt(List!Insert(score_tree, Key(s, m), h))
      /\ List!KeysOf(List!Insert(score_tree, Key(s, m), h)) = List!KeysOf(score_tree) \cup {Key(s, m)}
  BY <1>2, InsertBuilds DEF Inv
<1> QED
  BY <1>1, <1>3 DEF Listed

LEMMA RemoveLists ==
    ASSUME Inv, NEW m \in DOMAIN score_hash
    PROVE  /\ WellBuilt(List!Delete(score_tree, KeyOfMember(m)))
           /\ List!KeysOf(List!Delete(score_tree, KeyOfMember(m))) = Listed \ {KeyOfMember(m)}
<1>1. WellBuilt(score_tree) /\ KeyOfMember(m) \in List!KeysOf(score_tree)
  BY DEF Inv, MembersListed, Listed
<1> QED
  BY <1>1, DeleteBuilds DEF Listed

LEMMA MoveLists ==
    ASSUME Inv, NEW m \in Members, NEW s \in Scores, update_increase_by_delta(m, s)
    PROVE  WellBuilt(score_tree') /\ Listed' = (Listed \ {KeyOfMember(m)}) \cup {Key(s, m)}
<1> DEFINE list == List!Delete(score_tree, KeyOfMember(m))
<1>0. m \in DOMAIN score_hash
  BY DEF update_increase_by_delta
<1>1. PICK h \in 1 .. MaxHeight : score_tree' = List!Insert(list, Key(s, m), h)
  BY DEF update_increase_by_delta, Moved
<1>2. h \in Nat \ {0} /\ Key(s, m) \in Keys
  BY SortedSetAssumption, KeyIs DEF SortedSetAssumption
<1>3. WellBuilt(list) /\ List!KeysOf(list) = Listed \ {KeyOfMember(m)}
  BY <1>0, RemoveLists
<1> HIDE DEF list
<1>4. /\ WellBuilt(List!Insert(list, Key(s, m), h))
      /\ List!KeysOf(List!Insert(list, Key(s, m), h)) = List!KeysOf(list) \cup {Key(s, m)}
  BY <1>2, <1>3, InsertBuilds
<1> QED
  BY <1>1, <1>3, <1>4 DEF Listed

\* What each operation makes of the hash.
LEMMA SetScoreIs ==
    \A m, s : /\ DOMAIN SetScore(m, s) = DOMAIN score_hash \cup {m}
              /\ SetScore(m, s)[m] = s
              /\ \A x : x \in DOMAIN score_hash /\ x # m => SetScore(m, s)[x] = score_hash[x]
  BY DEF SetScore

LEMMA KeysApart ==
    ASSUME NEW m, NEW x, m # x, NEW s, NEW t
    PROVE  Key(s, m) # Key(t, x)
<1>1. Key(s, m).member = m /\ Key(t, x).member = x
  BY KeyIs
<1> QED
  BY <1>1

\* An invariant state after a step: the hash is typed, the list is in order and has the
\* members' keys.
LEMMA InvNext ==
    ASSUME Inv, Operation,
           DOMAIN score_hash' \subseteq Members,
           \A m \in DOMAIN score_hash' : score_hash'[m] \in Scores,
           WellBuilt(score_tree'), skewed' \in BOOLEAN,
           \A m \in DOMAIN score_hash' : Key(score_hash'[m], m) \in Listed'
    PROVE  Inv'
<1>1. List!KeysOf(score_tree') \subseteq Keys /\ score_tree'.length \in Nat
  BY TreeKeys
<1>2. Listed' \subseteq [score : Scores, member : Members]
  BY <1>1 DEF Listed, Keys
<1>3. nops' \in 0 .. MaxOps
  <2>1. nops \in 0 .. MaxOps /\ MaxOps \in Nat
    BY SortedSetAssumption DEF Inv, TypeOK, SortedSetAssumption
  <2> QED
    BY <2>1 DEF Operation
<1>4. TypeOK'
  BY <1>1, <1>2, <1>3 DEF TypeOK
<1>5. MembersListed'
  BY DEF MembersListed, KeyOfMember
<1> QED
  BY <1>4, <1>5 DEF Inv

LEMMA StepInv ==
    ASSUME Inv, [Next]_vars
    PROVE  Inv'
<1>1. /\ DOMAIN score_hash \subseteq Members
      /\ \A m \in DOMAIN score_hash : score_hash[m] \in Scores /\ Key(score_hash[m], m) \in Listed
      /\ skewed \in BOOLEAN /\ WellBuilt(score_tree)
  BY DEF Inv, TypeOK, MembersListed, KeyOfMember
<1>2. ASSUME NEW m \in Members, NEW s \in Scores, zset_add(m, s)
      PROVE  Inv'
  <2>1. score_hash' = SetScore(m, s) /\ skewed' = skewed /\ Operation
    BY <1>2 DEF zset_add
  <2>2. WellBuilt(score_tree') /\ Listed' = Listed \cup {Key(s, m)}
    BY <1>2, AddLists
  <2>3. \A x \in DOMAIN score_hash' : /\ x \in Members /\ score_hash'[x] \in Scores
                                      /\ Key(score_hash'[x], x) \in Listed'
    <3> SUFFICES ASSUME NEW x \in DOMAIN score_hash'
                 PROVE  /\ x \in Members /\ score_hash'[x] \in Scores
                        /\ Key(score_hash'[x], x) \in Listed'
      OBVIOUS
    <3>1. CASE x = m
      BY <2>1, <2>2, <3>1, SetScoreIs
    <3>2. CASE x # m
      <4>a. DOMAIN score_hash' = DOMAIN score_hash \cup {m}
        BY <2>1, SetScoreIs
      <4>b. x \in DOMAIN score_hash
        BY <3>2, <4>a
      <4>1. x \in DOMAIN score_hash /\ score_hash'[x] = score_hash[x]
        BY <2>1, <3>2, <4>b, SetScoreIs
      <4> QED
        BY <1>1, <2>2, <4>1
    <3> QED
      BY <3>1, <3>2
  <2> QED
    BY <1>1, <2>1, <2>2, <2>3, InvNext
<1>3. ASSUME NEW m \in Members, remove(m)
      PROVE  Inv'
  <2>1. /\ score_hash' = [x \in DOMAIN score_hash \ {m} |-> score_hash[x]] /\ Operation
        /\ m \in DOMAIN score_hash
        /\ score_tree' = List!Delete(score_tree, KeyOfMember(m))
        /\ skewed' = (skewed \/ Skews(score_tree, KeyOfMember(m)))
    BY <1>3 DEF remove
  <2>2. WellBuilt(score_tree') /\ Listed' = Listed \ {Key(score_hash[m], m)}
    BY <2>1, RemoveLists DEF Listed, KeyOfMember
  <2>3. \A x \in DOMAIN score_hash' : /\ x \in Members /\ score_hash'[x] \in Scores
                                      /\ Key(score_hash'[x], x) \in Listed'
    <3> SUFFICES ASSUME NEW x \in DOMAIN score_hash'
                 PROVE  /\ x \in Members /\ score_hash'[x] \in Scores
                        /\ Key(score_hash'[x], x) \in Listed'
      OBVIOUS
    <3>1. x \in DOMAIN score_hash /\ x # m /\ score_hash'[x] = score_hash[x]
      BY <2>1
    <3>2. Key(score_hash[x], x) # Key(score_hash[m], m)
      BY <3>1, KeysApart
    <3> QED
      BY <1>1, <2>2, <3>1, <3>2
  <2>4. skewed' \in BOOLEAN
    BY <1>1, <2>1
  <2> QED
    BY <2>1, <2>2, <2>3, <2>4, InvNext
<1>4. ASSUME NEW m \in Members, NEW s \in Scores, update_increase_by_delta(m, s)
      PROVE  Inv'
  <2>1. /\ score_hash' = SetScore(m, s) /\ Operation /\ m \in DOMAIN score_hash
        /\ skewed' = (skewed \/ Skews(score_tree, KeyOfMember(m)))
    BY <1>4 DEF update_increase_by_delta
  <2>2. WellBuilt(score_tree') /\ Listed' = (Listed \ {Key(score_hash[m], m)}) \cup {Key(s, m)}
    BY <1>4, MoveLists DEF KeyOfMember
  <2>3. \A x \in DOMAIN score_hash' : /\ x \in Members /\ score_hash'[x] \in Scores
                                      /\ Key(score_hash'[x], x) \in Listed'
    <3> SUFFICES ASSUME NEW x \in DOMAIN score_hash'
                 PROVE  /\ x \in Members /\ score_hash'[x] \in Scores
                        /\ Key(score_hash'[x], x) \in Listed'
      OBVIOUS
    <3>1. CASE x = m
      BY <2>1, <2>2, <3>1, SetScoreIs
    <3>2. CASE x # m
      <4>a. DOMAIN score_hash' = DOMAIN score_hash \cup {m}
        BY <2>1, SetScoreIs
      <4>b. x \in DOMAIN score_hash
        BY <3>2, <4>a
      <4>1. x \in DOMAIN score_hash /\ score_hash'[x] = score_hash[x]
        BY <2>1, <3>2, <4>b, SetScoreIs
      <4>2. Key(score_hash[x], x) # Key(score_hash[m], m)
        BY <3>2, KeysApart
      <4> QED
        BY <1>1, <2>2, <4>1, <4>2
    <3> QED
      BY <3>1, <3>2
  <2>4. skewed' \in BOOLEAN
    BY <1>1, <2>1
  <2> QED
    BY <2>1, <2>2, <2>3, <2>4, InvNext
<1>5. ASSUME UNCHANGED vars
      PROVE  Inv'
  BY <1>5 DEF vars, Inv, TypeOK, MembersListed, KeyOfMember, Listed
<1> QED
  BY <1>2, <1>3, <1>4, <1>5 DEF Next

LEMMA Invariant == Spec => []Inv
<1>1. Init => Inv
  BY InitInv
<1>2. Inv /\ [Next]_vars => Inv'
  BY StepInv
<1> QED
  BY <1>1, <1>2, PTL DEF Spec

\* The variables keep their types; the list holds scores of members only (TypeOK).
THEOREM SortedSetTyped == Spec => []TypeOK
  BY Invariant, PTL DEF Inv

\* Whatever heights are drawn, inserting, moving and removing leave the levels linked in
\* order, the towers whole, no level empty and the length right (WellFormed).
THEOREM ListStaysWellFormed == Spec => []WellFormed
<1>1. Inv => WellFormed
  <2> SUFFICES ASSUME Inv PROVE WellFormed
    OBVIOUS
  <2>1. Form(score_tree) /\ List!Towers(score_tree)
    BY DEF Inv, WellBuilt
  <2>2. List!Linked(score_tree)
    BY <2>1 DEF Form, LevelLinked, List!Linked
  <2> QED
    BY <2>1, <2>2 DEF WellFormed
<1> QED
  BY <1>1, Invariant, PTL

\* Every member's key under its present score is in the list (MembersListed).
THEOREM MembersStayListed == Spec => []MembersListed
  BY Invariant, PTL DEF Inv

-----------------------------------------------------------------------------
(* How hash and list come to disagree.                                     *)

LEMMA AgreeIs ==
    ASSUME Agree
    PROVE  \A n : n \in Listed <=> \E x \in DOMAIN score_hash : n = Key(score_hash[x], x)
  BY DEF Agree, KeyOfMember

LEMMA AddDisagrees ==
    ASSUME Inv, Agree, NEW m \in Members, NEW s \in Scores, zset_add(m, s)
    PROVE  \/ Agree'
           \/ \E x \in DOMAIN score_hash :
                /\ score_hash'[x] # score_hash[x]
                /\ Listed' = Listed \cup {Key(score_hash'[x], x)}
<1>1. score_hash' = SetScore(m, s)
  BY DEF zset_add
<1>2. Listed' = Listed \cup {Key(s, m)}
  BY AddLists
<1>3. CASE m \in DOMAIN score_hash /\ score_hash[m] # s
  <2>1. score_hash'[m] = s
    BY <1>1, SetScoreIs
  <2> QED
    BY <1>2, <1>3, <2>1
<1>4. CASE m \notin DOMAIN score_hash \/ score_hash[m] = s
  <2>1. DOMAIN score_hash' = DOMAIN score_hash \cup {m} /\ score_hash'[m] = s
    BY <1>1, SetScoreIs
  <2>2. \A x \in DOMAIN score_hash : score_hash'[x] = score_hash[x]
    BY <1>1, <1>4, SetScoreIs
  <2>3. Listed' = {Key(score_hash'[x], x) : x \in DOMAIN score_hash'}
    BY <1>2, <2>1, <2>2, AgreeIs
  <2> QED
    BY <2>3 DEF Agree, KeyOfMember
<1> QED
  BY <1>3, <1>4

LEMMA RemoveAgrees ==
    ASSUME Inv, Agree, NEW m \in Members, remove(m)
    PROVE  Agree'
<1>1. /\ score_hash' = [x \in DOMAIN score_hash \ {m} |-> score_hash[x]]
      /\ m \in DOMAIN score_hash
      /\ score_tree' = List!Delete(score_tree, KeyOfMember(m))
  BY DEF remove
<1>2. Listed' = Listed \ {Key(score_hash[m], m)}
  BY <1>1, RemoveLists DEF Listed, KeyOfMember
<1>3. \A x \in DOMAIN score_hash : x # m => Key(score_hash[x], x) # Key(score_hash[m], m)
  BY KeysApart
<1>4. Listed' = {Key(score_hash'[x], x) : x \in DOMAIN score_hash'}
  BY <1>1, <1>2, <1>3, AgreeIs
<1> QED
  BY <1>4 DEF Agree, KeyOfMember

LEMMA MoveAgrees ==
    ASSUME Inv, Agree, NEW m \in Members, NEW s \in Scores, update_increase_by_delta(m, s)
    PROVE  Agree'
<1>1. score_hash' = SetScore(m, s) /\ m \in DOMAIN score_hash
  BY DEF update_increase_by_delta
<1>2. Listed' = (Listed \ {Key(score_hash[m], m)}) \cup {Key(s, m)}
  BY MoveLists DEF KeyOfMember
<1>3. DOMAIN score_hash' = DOMAIN score_hash /\ score_hash'[m] = s
  <2>1. DOMAIN score_hash' = DOMAIN score_hash \cup {m} /\ score_hash'[m] = s
    BY <1>1, SetScoreIs
  <2>2. DOMAIN score_hash \cup {m} = DOMAIN score_hash
    BY <1>1
  <2> QED
    BY <2>1, <2>2
<1>4. \A x \in DOMAIN score_hash :
        x # m => Key(score_hash[x], x) # Key(score_hash[m], m) /\ score_hash'[x] = score_hash[x]
  <2>1. \A x \in DOMAIN score_hash : x # m => Key(score_hash[x], x) # Key(score_hash[m], m)
    BY KeysApart
  <2>2. \A x \in DOMAIN score_hash : x # m => score_hash'[x] = score_hash[x]
    BY <1>1, SetScoreIs
  <2> QED
    BY <2>1, <2>2
<1>5. Listed' = {Key(score_hash'[x], x) : x \in DOMAIN score_hash'}
  BY <1>1, <1>2, <1>3, <1>4, AgreeIs
<1> QED
  BY <1>5 DEF Agree, KeyOfMember

\* Hash and list part only where ZADD gives a member another score (OnlyRescoringDisagrees).
THEOREM RescoringAloneDisagrees == Spec => OnlyRescoringDisagrees
<1> DEFINE A == Agree => \/ Agree'
                         \/ \E m \in DOMAIN score_hash :
                              /\ score_hash'[m] # score_hash[m]
                              /\ Listed' = Listed \cup {Key(score_hash'[m], m)}
<1>1. Inv /\ [Next]_vars => [A]_vars
  <2> SUFFICES ASSUME Inv, Next, Agree
               PROVE  \/ Agree'
                      \/ \E m \in DOMAIN score_hash :
                           /\ score_hash'[m] # score_hash[m]
                           /\ Listed' = Listed \cup {Key(score_hash'[m], m)}
    OBVIOUS
  <2> QED
    BY AddDisagrees, RemoveAgrees, MoveAgrees DEF Next
<1> QED
  BY <1>1, Invariant, PTL DEF Spec, OnlyRescoringDisagrees

-----------------------------------------------------------------------------
(* Exact gaps.                                                             *)

\* How many of the keys S there are up to node n, and up to what a right pointer points to.
UpTo(S, n)  == Cardinality({m \in S : ~Before(n, m)})
EndOf(S, r) == IF r = Null THEN Cardinality(S) ELSE UpTo(S, r)

ExactLevel(S, level) ==
    \A n \in DOMAIN level : level[n].gap = EndOf(S, level[n].right) - UpTo(S, n)

KeySets == {S \in SUBSET Keys : IsFiniteSet(S)}

LEMMA UpToType ==
    ASSUME NEW S \in KeySets, NEW n
    PROVE  UpTo(S, n) \in Nat /\ EndOf(S, n) \in Nat /\ IsFiniteSet({m \in S : ~Before(n, m)})
<1>1. IsFiniteSet(S) /\ {m \in S : ~Before(n, m)} \in SUBSET S
  BY DEF KeySets
<1>2. IsFiniteSet({m \in S : ~Before(n, m)})
  BY <1>1, FS_Subset
<1> QED
  BY <1>1, <1>2, FS_CardinalityType DEF UpTo, EndOf

LEMMA KeySetIs ==
    ASSUME NEW list, Form(list)
    PROVE  List!KeysOf(list) \in KeySets
  BY BottomKeys DEF KeySets

LEMMA SpotIs ==
    ASSUME NEW list, Form(list), NEW n
    PROVE  Spot(list, n) = UpTo(List!KeysOf(list), n)
  BY SpotType DEF UpTo

\* The keys between a node and its right neighbour, or the end.
LEMMA Between ==
    ASSUME NEW S \in KeySets, NEW n \in Nodes, NEW r \in Nodes \cup {Null}, r # Null => Before(n, r)
    PROVE  Cardinality({m \in S : Before(n, m) /\ (r # Null => ~Before(r, m))})
             = EndOf(S, r) - UpTo(S, n)
<1> DEFINE A == {m \in S : ~Before(n, m)}
           B == IF r = Null THEN S ELSE {m \in S : ~Before(r, m)}
           D == {m \in S : Before(n, m) /\ (r # Null => ~Before(r, m))}
<1>1. S \subseteq Nodes /\ IsFiniteSet(S)
  BY DEF KeySets, Nodes
<1>2. B \ A = D
  OBVIOUS
<1>3. B \cap A = A
  <2>1. ASSUME NEW m \in A, r # Null PROVE ~Before(r, m)
    BY <1>1, <2>1, Ordered
  <2> QED
    BY <2>1
<1>4. IsFiniteSet(A) /\ IsFiniteSet(B) /\ Cardinality(A) = UpTo(S, n) /\ Cardinality(B) = EndOf(S, r)
  BY <1>1, UpToType DEF UpTo, EndOf
<1> HIDE DEF A, B, D
<1>5. Cardinality(B \ A) = Cardinality(B) - Cardinality(B \cap A)
  BY <1>4, FS_Difference
<1> QED
  BY <1>2, <1>3, <1>4, <1>5 DEF D

LEMMA GapsAre ==
    ASSUME NEW list, Form(list)
    PROVE  List!GapsExact(list) <=>
             \A l \in 1 .. List!Height(list) : ExactLevel(List!KeysOf(list), list.levels[l])
<1> DEFINE ks == List!KeysOf(list)
           Gap(r, n) == Cardinality({m \in ks : Before(n, m) /\ (r # Null => ~Before(r, m))})
<1>1. \A l \in 1 .. List!Height(list) : \A n \in DOMAIN list.levels[l] :
         Gap(list.levels[l][n].right, n) = EndOf(ks, list.levels[l][n].right) - UpTo(ks, n)
  <2> SUFFICES ASSUME NEW l \in 1 .. List!Height(list), NEW n \in DOMAIN list.levels[l]
               PROVE  Gap(list.levels[l][n].right, n) = EndOf(ks, list.levels[l][n].right) - UpTo(ks, n)
    OBVIOUS
  <2> DEFINE r == list.levels[l][n].right
  <2>1. list.levels[l] \in Levels /\ LevelLinked(list.levels[l])
    BY HeightIs DEF Form
  <2>2. n \in Nodes /\ r \in Nodes \cup {Null} /\ (r # Null => Before(n, r))
    BY <2>1, LevelFacts DEF LevelLinked
  <2>3. ks \in KeySets
    BY KeySetIs
  <2> HIDE DEF ks, r
  <2>4. Gap(r, n) = EndOf(ks, r) - UpTo(ks, n)
    BY <2>2, <2>3, Between
  <2> QED
    BY <2>4 DEF r
<1>2. List!GapsExact(list) <=>
        \A l \in 1 .. List!Height(list) : \A n \in DOMAIN list.levels[l] :
           list.levels[l][n].gap = Gap(list.levels[l][n].right, n)
  BY SameCount DEF List!GapsExact
<1> HIDE DEF Gap, ks
<1> QED
  BY <1>1, <1>2 DEF ExactLevel, ks

\* One more key counts for the nodes behind it.
LEMMA UpToMore ==
    ASSUME NEW S \in KeySets, NEW k \in Keys, k \notin S, NEW n \in Nodes
    PROVE  /\ S \cup {k} \in KeySets
           /\ UpTo(S \cup {k}, n) = IF Before(n, k) THEN UpTo(S, n) ELSE UpTo(S, n) + 1
           /\ Cardinality(S \cup {k}) = Cardinality(S) + 1
<1> DEFINE A == {m \in S : ~Before(n, m)}
<1>1. IsFiniteSet(S) /\ S \subseteq Keys /\ IsFiniteSet(A) /\ k \notin A /\ UpTo(S, n) = Cardinality(A)
  BY UpToType DEF KeySets, UpTo
<1>2. IsFiniteSet(S \cup {k}) /\ Cardinality(S \cup {k}) = Cardinality(S) + 1
  BY <1>1, FS_AddElement
<1>3. S \cup {k} \in KeySets
  BY <1>1, <1>2 DEF KeySets
<1>4. UpTo(S \cup {k}, n) = Cardinality({m \in S \cup {k} : ~Before(n, m)})
  BY DEF UpTo
<1>5. CASE Before(n, k)
  <2>1. {m \in S \cup {k} : ~Before(n, m)} = A
    BY <1>5
  <2> QED
    BY <1>1, <1>2, <1>3, <1>4, <1>5, <2>1
<1>6. CASE ~Before(n, k)
  <2>1. {m \in S \cup {k} : ~Before(n, m)} = A \cup {k}
    BY <1>6
  <2> HIDE DEF A
  <2>2. Cardinality(A \cup {k}) = Cardinality(A) + 1
    BY <1>1, FS_AddElement
  <2> QED
    BY <1>1, <1>2, <1>3, <1>4, <1>6, <2>1, <2>2
<1> QED
  BY <1>5, <1>6

\* One more key widens the gap of its predecessor only.
LEMMA Shift ==
    ASSUME NEW S \in KeySets, NEW k \in Keys, k \notin S, NEW level \in Levels, LevelLinked(level),
           NEW p, IsPred(level, p, k), NEW n \in DOMAIN level
    PROVE  EndOf(S \cup {k}, level[n].right) - UpTo(S \cup {k}, n)
             = (EndOf(S, level[n].right) - UpTo(S, n)) + IF n = p THEN 1 ELSE 0
<1> DEFINE r == level[n].right
           T == S \cup {k}
<1>1. /\ n \in Nodes /\ p \in Nodes /\ k \in Nodes /\ p \in DOMAIN level /\ Before(p, k)
      /\ r \in Nodes \cup {Null}
      /\ (level[p].right # Null => Before(k, level[p].right))
  BY LevelFacts DEF IsPred, Nodes
<1>2. k \notin DOMAIN level
  BY PredMisses
<1>3. /\ IF r = Null THEN \A m \in DOMAIN level : ~Before(n, m)
         ELSE r \in DOMAIN level /\ Before(n, r) /\ \A m \in DOMAIN level : Before(n, m) => ~Before(m, r)
      /\ IF level[p].right = Null THEN \A m \in DOMAIN level : ~Before(p, m)
         ELSE /\ level[p].right \in DOMAIN level
              /\ \A m \in DOMAIN level : Before(p, m) => ~Before(m, level[p].right)
  BY <1>1 DEF LevelLinked
<1>4. /\ UpTo(S, n) \in Nat /\ Cardinality(S) \in Nat /\ Cardinality(T) = Cardinality(S) + 1
      /\ UpTo(T, n) = IF Before(n, k) THEN UpTo(S, n) ELSE UpTo(S, n) + 1
      /\ r # Null => UpTo(S, r) \in Nat /\ UpTo(T, r) = IF Before(r, k) THEN UpTo(S, r) ELSE UpTo(S, r) + 1
  BY <1>1, UpToMore, UpToType, FS_CardinalityType DEF KeySets
<1>5. CASE n = p
  <2>1. Before(n, k) /\ (r # Null => ~Before(r, k))
    BY <1>1, <1>5, NeverBoth
  <2> QED
    BY <1>4, <1>5, <2>1 DEF EndOf
<1>6. CASE Before(n, p)
  <2>1. n # p /\ Before(n, k)
    BY <1>1, <1>6, Ordered
  <2>2. r # Null /\ Before(r, k)
    BY <1>1, <1>3, <1>6, Ordered
  <2> QED
    BY <1>4, <2>1, <2>2 DEF EndOf
<1>7. CASE Before(p, n)
  <2>1. n # p /\ ~Before(n, k)
    <3>1. n # p
      BY <1>1, <1>7, NeverBoth
    <3>2. /\ level[p].right # Null /\ level[p].right \in Nodes /\ ~Before(n, level[p].right)
          /\ Before(k, level[p].right)
      BY <1>1, <1>3, <1>7, LevelFacts
    <3>3. ~Before(n, k)
      BY <1>1, <3>2, Ordered
    <3> QED
      BY <3>1, <3>3
  <2>2. r # Null => ~Before(r, k)
    BY <1>1, <1>3, <2>1, Ordered
  <2> QED
    BY <1>4, <2>1, <2>2 DEF EndOf
<1> QED
  BY <1>1, <1>5, <1>6, <1>7, Ordered

LEMMA ExactStretch ==
    ASSUME NEW S \in KeySets, NEW k \in Keys, k \notin S, NEW level \in Levels, LevelLinked(level),
           NEW p, IsPred(level, p, k), NEW new, NEW T \in KeySets, NEW U \in KeySets, NEW by \in Int,
           \/ T = S /\ U = S \cup {k} /\ by = 1
           \/ T = S \cup {k} /\ U = S /\ by = -1,
           ExactLevel(T, level), DOMAIN new = DOMAIN level, new[p].gap = level[p].gap + by,
           \A n \in DOMAIN level : new[n].right = level[n].right /\ (n # p => new[n] = level[n])
    PROVE  ExactLevel(U, new)
<1> SUFFICES ASSUME NEW n \in DOMAIN level
             PROVE  new[n].gap = EndOf(U, level[n].right) - UpTo(U, n)
  BY DEF ExactLevel
<1> DEFINE r == level[n].right
           a == EndOf(S, r) - UpTo(S, n)
           b == EndOf(S \cup {k}, r) - UpTo(S \cup {k}, n)
<1>1. b = a + IF n = p THEN 1 ELSE 0
  BY Shift
<1>2. a \in Int /\ b \in Int
  <2>1. S \cup {k} \in KeySets
    OBVIOUS
  <2>2. /\ EndOf(S, r) \in Nat /\ UpTo(S, n) \in Nat
        /\ EndOf(S \cup {k}, r) \in Nat /\ UpTo(S \cup {k}, n) \in Nat
    BY <2>1, UpToType
  <2> QED
    BY <2>2
<1>3. level[n].gap = EndOf(T, r) - UpTo(T, n)
  BY DEF ExactLevel
<1>4. new[n].gap = level[n].gap + IF n = p THEN by ELSE 0
  <2>1. level[n].gap \in Int
    BY LevelFacts
  <2> QED
    BY <2>1
<1> HIDE DEF r
<1>5. CASE T = S /\ U = S \cup {k} /\ by = 1
  <2>1. level[n].gap = a
    BY <1>3, <1>5
  <2>2. new[n].gap = b
    <3> HIDE DEF a, b
    <3> QED
      BY <1>1, <1>2, <1>4, <1>5, <2>1
  <2> QED
    BY <1>5, <2>2 DEF r
<1>6. CASE T = S \cup {k} /\ U = S /\ by = -1
  <2>1. level[n].gap = b
    BY <1>3, <1>6
  <2>2. new[n].gap = a
    <3> HIDE DEF a, b
    <3> QED
      BY <1>1, <1>2, <1>4, <1>6, <2>1
  <2> QED
    BY <1>6, <2>2 DEF r
<1> QED
  BY <1>5, <1>6

LEMMA ExactLink ==
    ASSUME NEW S \in KeySets, NEW k \in Keys, k \notin S, NEW level \in Levels, LevelLinked(level),
           NEW p, IsPred(level, p, k), ExactLevel(S, level),
           NEW a \in Int, NEW b \in Int, NEW new, LinkMade(new, level, p, k, a, b),
           a = UpTo(S \cup {k}, k) - UpTo(S, p), b = level[p].gap + 1 - a
    PROVE  ExactLevel(S \cup {k}, new)
<1> DEFINE T == S \cup {k}
           r == level[p].right
<1>1. /\ p \in DOMAIN level /\ p \in Nodes /\ k \in Nodes /\ Before(p, k) /\ k \notin DOMAIN level
      /\ level[p].gap \in Int
  BY LevelFacts, PredMisses DEF IsPred, Nodes
<1>2. T \in KeySets
  BY <1>1, UpToMore
<1>3. UpTo(T, p) = UpTo(S, p)
  BY <1>1, UpToMore
<1>4. /\ EndOf(T, r) \in Nat /\ UpTo(T, p) \in Nat /\ UpTo(T, k) \in Nat
      /\ EndOf(S, r) \in Nat /\ UpTo(S, p) \in Nat
  BY <1>2, UpToType
<1>5. EndOf(T, r) - UpTo(T, p) = (EndOf(S, r) - UpTo(S, p)) + 1
  <2>1. EndOf(T, r) - UpTo(T, p) = (EndOf(S, r) - UpTo(S, p)) + IF p = p THEN 1 ELSE 0
    BY <1>1, Shift
  <2> QED
    BY <2>1
<1>6. level[p].gap = EndOf(S, r) - UpTo(S, p)
  BY <1>1 DEF ExactLevel
<1>7. /\ DOMAIN new = DOMAIN level \cup {k}
      /\ new[p].right = k /\ new[p].gap = a /\ new[k].right = r /\ new[k].gap = b
      /\ \A n \in DOMAIN level : n # p => new[n] = level[n]
  BY DEF LinkMade
<1> HIDE DEF T, r
<1>8. new[p].gap = UpTo(T, k) - UpTo(T, p)
  BY <1>3, <1>7 DEF T
<1>9. new[k].gap = EndOf(T, r) - UpTo(T, k)
  <2>1. a = UpTo(T, k) - UpTo(S, p) /\ b = level[p].gap + 1 - a
    BY DEF T
  <2> QED
    BY <1>3, <1>4, <1>5, <1>6, <1>7, <2>1
<1>10. EndOf(T, k) = UpTo(T, k)
  <2>1. k # Null
    BY <1>1, NodesAre
  <2> QED
    BY <2>1 DEF EndOf
<1> SUFFICES ASSUME NEW n \in DOMAIN new
             PROVE  new[n].gap = EndOf(T, new[n].right) - UpTo(T, n)
  BY DEF ExactLevel, T
<1>11. CASE n = p
  BY <1>7, <1>8, <1>10, <1>11
<1>12. CASE n = k
  BY <1>7, <1>9, <1>12
<1>13. CASE n # p /\ n # k
  <2>1. n \in DOMAIN level /\ new[n] = level[n]
    BY <1>7, <1>13
  <2>2. level[n].gap = EndOf(S, level[n].right) - UpTo(S, n)
    BY <2>1 DEF ExactLevel
  <2>3. EndOf(T, level[n].right) - UpTo(T, n)
          = (EndOf(S, level[n].right) - UpTo(S, n)) + IF n = p THEN 1 ELSE 0
    BY <2>1, Shift DEF T
  <2>4. EndOf(S, level[n].right) \in Nat /\ UpTo(S, n) \in Nat
    BY UpToType
  <2> QED
    BY <1>13, <2>1, <2>2, <2>3, <2>4
<1> QED
  BY <1>11, <1>12, <1>13

\* Of k's tower, a level on which its predecessor is one place before it.
LEMMA ExactUnlink ==
    ASSUME NEW S \in KeySets, NEW k \in Keys, k \notin S, NEW level \in Levels, LevelLinked(level),
           k \in DOMAIN level, ExactLevel(S \cup {k}, level), NEW new, UnlinkMade(new, level, k),
           \A n \in DOMAIN level : level[n].right = k => level[n].gap = 1
    PROVE  ExactLevel(S, new)
<1> DEFINE T == S \cup {k}
           r == level[k].right
<1>1. /\ new \in Levels /\ LevelLinked(new) /\ DOMAIN new = DOMAIN level \ {k}
  BY DEF UnlinkMade
<1>2. PICK p \in DOMAIN level \ {k} :
        /\ Before(p, k) /\ level[p].right = k
        /\ new[p].right = level[k].right /\ new[p].gap = level[k].gap
        /\ \A n \in DOMAIN level \ {k} : n # p => new[n] = level[n] /\ level[n].right # k
  BY DEF UnlinkMade
<1>3. IsPred(new, p, k)
  <2>1. r # Null => Before(k, r)
    BY DEF LevelLinked
  <2> QED
    BY <1>1, <1>2, <2>1 DEF IsPred
<1>4. T \in KeySets /\ k \in Nodes /\ p \in Nodes
  BY <1>1, <1>2, UpToMore, LevelFacts DEF Nodes
<1> HIDE DEF T
<1> SUFFICES ASSUME NEW n \in DOMAIN new
             PROVE  new[n].gap = EndOf(S, new[n].right) - UpTo(S, n)
  BY DEF ExactLevel
<1>5. EndOf(T, new[n].right) - UpTo(T, n) = (EndOf(S, new[n].right) - UpTo(S, n)) + IF n = p THEN 1 ELSE 0
  BY <1>1, <1>3, Shift DEF T
<1>6. /\ EndOf(S, new[n].right) \in Nat /\ UpTo(S, n) \in Nat
      /\ EndOf(T, new[n].right) \in Nat /\ UpTo(T, n) \in Nat /\ UpTo(T, k) \in Nat
  BY <1>4, UpToType
<1>7. CASE n # p
  <2>1. n \in DOMAIN level /\ new[n] = level[n]
    BY <1>1, <1>2, <1>7
  <2>2. level[n].gap = EndOf(T, level[n].right) - UpTo(T, n)
    BY <2>1 DEF ExactLevel, T
  <2> QED
    BY <1>5, <1>6, <1>7, <2>1, <2>2
<1>8. CASE n = p
  <2>1. level[p].gap = EndOf(T, k) - UpTo(T, p) /\ level[k].gap = EndOf(T, r) - UpTo(T, k)
    BY <1>2 DEF ExactLevel, T
  <2>a. k # Null
    BY <1>4, NodesAre
  <2>2. EndOf(T, k) = UpTo(T, k) /\ level[p].gap = 1
    BY <1>2, <2>a DEF EndOf
  <2>3. new[n].right = r /\ new[n].gap = level[k].gap
    BY <1>2, <1>8
  <2> HIDE DEF r
  <2> QED
    BY <1>5, <1>6, <1>8, <2>1, <2>2, <2>3
<1> QED
  BY <1>7, <1>8

\* On the bottom level each node is one place before the next, and the last is the end.
LEMMA BottomGap ==
    ASSUME NEW S \in KeySets, NEW level \in Levels, LevelLinked(level),
           DOMAIN level = S \cup {NegInf}, NEW n \in DOMAIN level
    PROVE  EndOf(S, level[n].right) - UpTo(S, n) = IF level[n].right = Null THEN 0 ELSE 1
<1> DEFINE r == level[n].right
           A == {m \in S : ~Before(n, m)}
<1>1. n \in Nodes /\ S \subseteq Nodes /\ NegInf \notin S /\ S \subseteq Keys
  BY LevelFacts, NodesAre DEF KeySets
<1>2. IF r = Null THEN \A m \in DOMAIN level : ~Before(n, m)
      ELSE r \in DOMAIN level /\ Before(n, r) /\ \A m \in DOMAIN level : Before(n, m) => ~Before(m, r)
  BY DEF LevelLinked
<1>3. IsFiniteSet(A) /\ UpTo(S, n) = Cardinality(A) /\ Cardinality(A) \in Nat
  BY UpToType DEF UpTo
<1>4. CASE r = Null
  <2>1. A = S
    BY <1>2, <1>4
  <2> QED
    BY <1>3, <1>4, <2>1 DEF EndOf
<1>5. CASE r # Null
  <2>0. r \in DOMAIN level /\ Before(n, r) /\ r \in Nodes
    BY <1>2, <1>5, LevelFacts
  <2>1. r # NegInf
    <3>1. ~Before(n, NegInf)
      BY <1>1, NodesAre, Ordered DEF Nodes
    <3> QED
      BY <2>0, <3>1
  <2>2. r \in S /\ r \notin A
    BY <2>0, <2>1
  <2>3. {m \in S : ~Before(r, m)} = A \cup {r}
    <3> SUFFICES ASSUME NEW m \in S
                 PROVE  ~Before(r, m) <=> (~Before(n, m) \/ m = r)
      BY <2>2
    <3>1. m \in DOMAIN level /\ m \in Nodes
      BY <1>1
    <3>2. Before(n, m) => ~Before(m, r)
      BY <1>2, <1>5, <3>1
    <3> QED
      BY <1>1, <2>0, <3>1, <3>2, Ordered
  <2> HIDE DEF A
  <2>4. Cardinality(A \cup {r}) = Cardinality(A) + 1
    BY <1>3, <2>2, FS_AddElement
  <2>5. EndOf(S, r) = Cardinality(A) + 1
    BY <1>5, <2>3, <2>4 DEF EndOf, UpTo
  <2> QED
    BY <1>3, <1>5, <2>5
<1> QED
  BY <1>4, <1>5

\* A key to come has the place after its predecessor's on the bottom.
LEMMA BottomPlace ==
    ASSUME NEW S \in KeySets, NEW level \in Levels, LevelLinked(level), DOMAIN level = S \cup {NegInf},
           NEW k \in Keys, k \notin S, NEW p, IsPred(level, p, k)
    PROVE  UpTo(S \cup {k}, k) = UpTo(S, p) + 1 /\ UpTo(S \cup {k}, k) = UpTo(S, k) + 1
<1>1. p \in DOMAIN level /\ p \in Nodes /\ k \in Nodes /\ Before(p, k) /\ S \subseteq Nodes
  BY LevelFacts DEF IsPred, Nodes, KeySets
<1>2. {m \in S : ~Before(k, m)} = {m \in S : ~Before(p, m)}
  <2> SUFFICES ASSUME NEW m \in S PROVE Before(k, m) <=> Before(p, m)
    OBVIOUS
  <2>1. m \in DOMAIN level /\ m \in Nodes /\ m # k
    BY <1>1
  <2>2. Before(k, m) => Before(p, m)
    BY <1>1, <2>1, Ordered
  <2>3. ASSUME Before(p, m) PROVE Before(k, m)
    <3>1. /\ level[p].right # Null /\ level[p].right \in Nodes /\ ~Before(m, level[p].right)
          /\ Before(k, level[p].right)
      BY <1>1, <2>1, <2>3, LevelFacts DEF LevelLinked, IsPred
    <3> QED
      BY <1>1, <2>1, <3>1, Ordered
  <2> QED
    BY <2>2, <2>3
<1>3. UpTo(S, k) = UpTo(S, p)
  BY <1>2 DEF UpTo
<1>4. UpTo(S \cup {k}, k) = UpTo(S, k) + 1
  BY <1>1, UpToMore, Ordered
<1> QED
  BY <1>3, <1>4

LEMMA UpToHead ==
    ASSUME NEW S \in KeySets
    PROVE  UpTo(S, NegInf) = 0
<1>1. {m \in S : ~Before(NegInf, m)} = {}
  BY Ordered DEF KeySets
<1> QED
  BY <1>1, FS_EmptySet DEF UpTo

LEMMA PairExact ==
    ASSUME NEW S \in KeySets, NEW k \in Keys, k \notin S, NEW new, NEW a \in Int, NEW b \in Int,
           PairMade(new, k, a, b), a = UpTo(S \cup {k}, k), b = Cardinality(S \cup {k}) - UpTo(S \cup {k}, k)
    PROVE  ExactLevel(S \cup {k}, new)
<1> DEFINE T == S \cup {k}
<1>1. T \in KeySets /\ k # Null /\ k # NegInf
  <2>1. k \in Nodes /\ k # NegInf
    BY NodesAre DEF Nodes
  <2> QED
    BY <2>1, UpToMore, NodesAre
<1>2. UpTo(T, NegInf) = 0 /\ UpTo(T, k) \in Nat
  BY <1>1, UpToHead, UpToType
<1>3. EndOf(T, k) = UpTo(T, k) /\ EndOf(T, Null) = Cardinality(T)
  BY <1>1 DEF EndOf
<1>4. /\ DOMAIN new = {NegInf, k} /\ new[NegInf].right = k /\ new[NegInf].gap = a
      /\ new[k].right = Null /\ new[k].gap = b
  BY DEF PairMade
<1> HIDE DEF T
<1>5. a = UpTo(T, k) /\ b = Cardinality(T) - UpTo(T, k)
  BY DEF T
<1> QED
  BY <1>2, <1>3, <1>4, <1>5 DEF ExactLevel, T

\* Every level insert makes has exact gaps, if all had.
LEMMA InsertedExact ==
    ASSUME NEW list, WellBuilt(list), List!GapsExact(list), List!Height(list) # 0,
           NEW k \in Keys, k \notin List!KeysOf(list), NEW h \in Nat \ {0}, NEW l \in Nat \ {0}
    PROVE  ExactLevel(List!KeysOf(list) \cup {k}, List!LevelWith(list, List!Search(list, k), k, h, l))
<1> DEFINE H == List!Height(list)
           S == List!KeysOf(list)
           T == S \cup {k}
           s == List!Search(list, k)
           new == List!LevelWith(list, s, k, h, l)
           p == List!PredAt(list, s, l)
<1>0. /\ Form(list) /\ H \in Nat /\ 1 \in 1 .. H /\ S \in KeySets /\ k \in Nodes
      /\ list.length = Cardinality(S) /\ Cardinality(S) \in Nat
  <2>1. Form(list) /\ H \in Nat /\ list.length = Cardinality(S) /\ list.length \in Nat
    BY HeightIs, Length DEF WellBuilt
  <2> QED
    BY <2>1, KeySetIs DEF Nodes
<1>1. /\ s.level = 1 /\ IsPred(list.levels[1], s.node, k) /\ s.index = Spot(list, s.node)
      /\ \A i \in 2 .. H : /\ IsPred(list.levels[i], List!PredAt(list, s, i).node, k)
                           /\ List!PredAt(list, s, i).index = Spot(list, List!PredAt(list, s, i).node)
  <2>1. s.level = 1 /\ IsPred(list.levels[1], s.node, k) /\ s.index = Spot(list, s.node)
    BY <1>0, SearchFinds
  <2>2. \A i \in s.level + 1 .. H :
           /\ IsPred(list.levels[i], List!PredAt(list, s, i).node, k)
           /\ List!PredAt(list, s, i).index = Spot(list, List!PredAt(list, s, i).node)
    BY <1>0, SearchFinds
  <2> QED
    BY <2>1, <2>2
<1>2. /\ \A i \in 1 .. H : /\ list.levels[i] \in Levels /\ LevelLinked(list.levels[i])
                           /\ ExactLevel(S, list.levels[i])
      /\ DOMAIN list.levels[1] = S \cup {NegInf}
  BY <1>0, HeightIs, GapsAre, BottomKeys DEF Form
<1>3. /\ s.index = UpTo(S, s.node) /\ s.index \in Nat
      /\ \A i \in 2 .. H : List!PredAt(list, s, i).index = UpTo(S, List!PredAt(list, s, i).node)
  BY <1>0, <1>1, SpotIs, SpotType
<1> HIDE DEF S, s, H
<1>4. UpTo(T, k) = s.index + 1 /\ UpTo(T, k) \in Int /\ Cardinality(T) = Cardinality(S) + 1
  <2>1. k \notin S
    BY DEF S
  <2>2. UpTo(T, k) = UpTo(S, s.node) + 1
    BY <1>0, <1>1, <1>2, <2>1, BottomPlace
  <2>3. Cardinality(T) = Cardinality(S) + 1
    BY <1>0, <2>1, UpToMore
  <2> QED
    BY <1>3, <2>2, <2>3
<1> HIDE DEF T
<1>5. CASE l > H
  <2>1. new = List!PairLevel(k, s.index + 1, list.length - s.index)
    BY <1>5 DEF List!LevelWith, H
  <2> HIDE DEF new
  <2>2. s.index + 1 \in Int /\ list.length - s.index \in Int
    BY <1>0, <1>3
  <2>3. PairMade(new, k, s.index + 1, list.length - s.index)
    BY <2>1, <2>2, PairLevelLinked
  <2>4. s.index + 1 = UpTo(T, k) /\ list.length - s.index = Cardinality(T) - UpTo(T, k)
    BY <1>0, <1>3, <1>4
  <2>5. ExactLevel(S \cup {k}, new)
    BY <1>0, <2>2, <2>3, <2>4, PairExact DEF T, S
  <2> QED
    BY <2>5 DEF new, S, s
<1>6. CASE l = 1
  <2> DEFINE g == IF list.levels[1][s.node].right = Null THEN 0 ELSE 1
  <2>1. new = List!LinkAfter(list.levels[1], s.node, k, 1, g)
    BY <1>0, <1>6 DEF List!LevelWith, H
  <2>2. g \in Int
    OBVIOUS
  <2>3. s.node \in DOMAIN list.levels[1]
    BY <1>1 DEF IsPred
  <2>4. list.levels[1][s.node].gap = g
    <3>1. EndOf(S, list.levels[1][s.node].right) - UpTo(S, s.node) = g
      BY <1>0, <1>2, <2>3, BottomGap
    <3> QED
      BY <1>0, <1>2, <2>3, <3>1 DEF ExactLevel
  <2> HIDE DEF new, g
  <2>5. LinkMade(new, list.levels[1], s.node, k, 1, g)
    BY <1>0, <1>1, <1>2, <2>1, <2>2, LinkAfterLinked
  <2>6. 1 = UpTo(T, k) - UpTo(S, s.node) /\ g = list.levels[1][s.node].gap + 1 - 1
    BY <1>3, <1>4, <2>2, <2>4
  <2>7. ExactLevel(S \cup {k}, new)
    BY <1>0, <1>1, <1>2, <2>2, <2>5, <2>6, ExactLink DEF T, S
  <2> QED
    BY <2>7 DEF new, S, s
<1>7. CASE l # 1 /\ ~(l > H)
  <2>0. l \in 2 .. H /\ l \in 1 .. H
    BY <1>0, <1>7
  <2>1. /\ IsPred(list.levels[l], p.node, k) /\ p.index = UpTo(S, p.node) /\ p.index \in Nat
        /\ p.node \in DOMAIN list.levels[l] /\ list.levels[l][p.node].gap \in Int
    <3>1. IsPred(list.levels[l], p.node, k) /\ p.index = UpTo(S, p.node)
      BY <1>1, <1>3, <2>0
    <3> HIDE DEF p
    <3>2. p.node \in DOMAIN list.levels[l]
      BY <3>1 DEF IsPred
    <3>3. list.levels[l][p.node].gap \in Int
      BY <1>2, <2>0, <3>2, LevelFacts
    <3> QED
      BY <1>0, <3>1, <3>2, <3>3, UpToType
  <2>2. list.levels[l] \in Levels /\ LevelLinked(list.levels[l]) /\ ExactLevel(S, list.levels[l])
    BY <1>2, <2>0
  <2>3. CASE l > h
    <3>1. new = List!Stretch(list.levels[l], p.node, 1)
      BY <1>7, <2>3 DEF List!LevelWith, H
    <3> HIDE DEF new, p
    <3>2. /\ DOMAIN new = DOMAIN list.levels[l] /\ new[p.node].gap = list.levels[l][p.node].gap + 1
          /\ \A n \in DOMAIN list.levels[l] : /\ new[n].right = list.levels[l][n].right
                                              /\ n # p.node => new[n] = list.levels[l][n]
      <4>1. StretchMade(new, list.levels[l], p.node, 1)
        BY <2>1, <2>2, <3>1, StretchLinked
      <4> QED
        BY <4>1 DEF StretchMade
    <3>3. S \in KeySets /\ T \in KeySets /\ T = S \cup {k} /\ k \notin S
      BY <1>0, UpToMore DEF T, S
    <3>4. ExactLevel(T, new)
      BY <2>1, <2>2, <3>2, <3>3, ExactStretch
    <3> QED
      BY <3>4 DEF new, T, S, s
  <2>4. CASE ~(l > h)
    <3> DEFINE a == List!NewPredGap(s, p)
               b == list.levels[l][p.node].gap + 1 - a
    <3>1. new = List!LinkAfter(list.levels[l], p.node, k, a, b)
      BY <1>7, <2>4 DEF List!LevelWith, H
    <3>2. a = s.index + 1 - p.index /\ a \in Int
      BY <1>3, <2>1 DEF List!NewPredGap
    <3> HIDE DEF a
    <3>3. b \in Int
      BY <2>1, <3>2
    <3>4. a = UpTo(T, k) - UpTo(S, p.node)
      BY <1>3, <1>4, <2>1, <3>2
    <3> HIDE DEF new, p
    <3>5. LinkMade(new, list.levels[l], p.node, k, a, b)
      BY <2>1, <2>2, <3>1, <3>2, <3>3, LinkAfterLinked
    <3>6. ExactLevel(S \cup {k}, new)
      BY <1>0, <2>1, <2>2, <3>2, <3>3, <3>4, <3>5, ExactLink DEF T, S
    <3> QED
      BY <3>6 DEF new, S, s
  <2> QED
    BY <2>3, <2>4
<1> QED
  BY <1>0, <1>5, <1>6, <1>7

\* insert keeps the gaps exact.
LEMMA InsertExact ==
    ASSUME NEW list, WellBuilt(list), List!GapsExact(list), NEW k \in Keys, NEW h \in Nat \ {0}
    PROVE  List!GapsExact(List!Insert(list, k, h))
<1> DEFINE H == List!Height(list)
           S == List!KeysOf(list)
           s == List!Search(list, k)
           new == List!Insert(list, k, h)
<1>1. Form(list) /\ H \in Nat /\ S \in KeySets
  BY HeightIs, KeySetIs DEF WellBuilt
<1>2. Form(new) /\ List!KeysOf(new) = S \cup {k}
  BY InsertBuilds DEF WellBuilt
<1>3. CASE H = 0 \/ list.levels[H][NegInf].right = Null
  <2>1. S = {}
    BY <1>3, EmptyList
  <2>2. new.levels = <<List!PairLevel(k, 1, 0)>>
    BY <1>3 DEF List!Insert
  <2>3. PairMade(List!PairLevel(k, 1, 0), k, 1, 0)
    BY PairLevelLinked
  <2>4. UpTo({k}, k) = 1 /\ Cardinality({k}) = 1
    <3>1. k \in Nodes
      BY DEF Nodes
    <3>2. {m \in {k} : ~Before(k, m)} = {k}
      BY <3>1, Ordered
    <3> QED
      BY <3>2, FS_Singleton DEF UpTo
  <2>5. ExactLevel({} \cup {k}, List!PairLevel(k, 1, 0))
    <3>1. {} \in KeySets /\ {} \cup {k} = {k}
      BY <1>1, <2>1
    <3>2. 1 = UpTo({} \cup {k}, k) /\ 0 = Cardinality({} \cup {k}) - UpTo({} \cup {k}, k)
      BY <2>4, <3>1
    <3> QED
      BY <2>3, <3>1, <3>2, PairExact
  <2>6. List!Height(new) = 1 /\ \A l \in 1 .. 1 : new.levels[l] = List!PairLevel(k, 1, 0)
    BY <2>2 DEF List!Height
  <2> HIDE DEF new
  <2> QED
    BY <1>2, <2>1, <2>5, <2>6, GapsAre DEF new
<1>4. CASE ~(H = 0 \/ list.levels[H][NegInf].right = Null) /\ k \in S
  <2>1. s.node = k
    BY <1>1, <1>4, SearchFinds
  <2>2. new = list
    BY <1>4, <2>1 DEF List!Insert
  <2> QED
    BY <2>2
<1>5. CASE ~(H = 0 \/ list.levels[H][NegInf].right = Null) /\ k \notin S
  <2> DEFINE high == IF h > H THEN h ELSE H
             f == [l \in 1 .. high |-> List!LevelWith(list, s, k, h, l)]
  <2>1. s.node # k
    BY <1>1, <1>5, SearchFinds
  <2>2. new.levels = f
    BY <1>5, <2>1 DEF List!Insert
  <2>3. high \in Nat
    BY <1>1
  <2>4. List!Height(new) = high
    <3> HIDE DEF new, high, s
    <3>1. Len(f) = high
      BY <2>3
    <3> QED
      BY <2>2, <3>1 DEF List!Height
  <2>5. \A l \in 1 .. high : ExactLevel(S \cup {k}, new.levels[l])
    <3> SUFFICES ASSUME NEW l \in 1 .. high PROVE ExactLevel(S \cup {k}, new.levels[l])
      OBVIOUS
    <3>1. new.levels[l] = List!LevelWith(list, s, k, h, l) /\ l \in Nat \ {0}
      BY <2>2, <2>3
    <3> HIDE DEF new
    <3> QED
      BY <1>5, <3>1, InsertedExact
  <2> HIDE DEF new, high, s
  <2> QED
    BY <1>2, <2>4, <2>5, GapsAre DEF new
<1> QED
  BY <1>3, <1>4, <1>5

\* Every level delete_key leaves has exact gaps, if all had and k's predecessors above the bottom
\* were one place before it.
LEMMA RemovedExact ==
    ASSUME NEW list, WellBuilt(list), List!GapsExact(list), NEW k \in List!KeysOf(list),
           ~Skews(list, k), NEW l \in 1 .. List!Height(list), DOMAIN list.levels[l] # {NegInf, k}
    PROVE  ExactLevel(List!KeysOf(list) \ {k}, List!LevelWithout(list, List!Search(list, k), k, l))
<1> DEFINE H == List!Height(list)
           T == List!KeysOf(list)
           S == T \ {k}
           s == List!Search(list, k)
           new == List!LevelWithout(list, s, k, l)
           p == List!PredAt(list, s, l)
<1>0. /\ Form(list) /\ H \in Nat /\ H # 0 /\ k \in Keys /\ k # NegInf /\ T \in KeySets
      /\ list.levels[l] \in Levels /\ LevelLinked(list.levels[l]) /\ ExactLevel(T, list.levels[l])
      /\ l = 1 => DOMAIN list.levels[l] = T \cup {NegInf}
  BY HeightIs, BottomKeys, NodesAre, KeySetIs, GapsAre DEF WellBuilt, Form
<1>a. S \in KeySets /\ T = S \cup {k} /\ k \notin S
  <2>1. S \in KeySets
    BY <1>0, FS_Subset DEF KeySets
  <2> QED
    BY <2>1
<1>1. s.level \in 1 .. H /\ k \in DOMAIN list.levels[s.level]
  BY <1>0, SearchFinds
<1> HIDE DEF S, T
<1>2. CASE l > s.level
  <2>0. l \in s.level + 1 .. H
    BY <1>0, <1>1, <1>2
  <2>1. IsPred(list.levels[l], p.node, k) /\ k \notin DOMAIN list.levels[l]
    BY <1>0, <2>0, SearchFinds
  <2>2. new = List!Stretch(list.levels[l], p.node, -1)
    BY <1>2 DEF List!LevelWithout
  <2>3. p.node \in DOMAIN list.levels[l]
    BY <2>1 DEF IsPred
  <2> HIDE DEF new, p, s
  <2>4. StretchMade(new, list.levels[l], p.node, -1)
    BY <1>0, <2>2, <2>3, StretchLinked
  <2>5. ExactLevel(S, new)
    BY <1>0, <1>a, <2>1, <2>4, ExactStretch DEF StretchMade
  <2> QED
    BY <2>5 DEF new, S, T, s
<1>3. CASE ~(l > s.level)
  <2>1. s.level \in l .. H
    BY <1>0, <1>1, <1>3
  <2>2. k \in DOMAIN list.levels[l]
    BY <1>0, <1>1, <2>1, TowersReachDown
  <2>3. new = List!Unlink(list.levels[l], k)
    BY <1>3 DEF List!LevelWithout
  <2> HIDE DEF new, s
  <2>4. UnlinkMade(new, list.levels[l], k)
    BY <1>0, <2>2, <2>3, UnlinkLinked
  <2>5. \A n \in DOMAIN list.levels[l] : list.levels[l][n].right = k => list.levels[l][n].gap = 1
    <3> SUFFICES ASSUME NEW n \in DOMAIN list.levels[l], list.levels[l][n].right = k
                 PROVE  list.levels[l][n].gap = 1
      OBVIOUS
    <3>1. CASE l = 1
      <4>1. k # Null
        BY <1>0, NodesAre DEF Nodes
      <4>2. EndOf(T, list.levels[l][n].right) - UpTo(T, n) = 1
        BY <1>0, <3>1, <4>1, BottomGap
      <4> QED
        BY <1>0, <4>2 DEF ExactLevel
    <3>2. CASE l # 1
      <4>1. l \in 2 .. List!Height(list)
        BY <1>0, <3>2
      <4> QED
        BY <4>1 DEF Skews
    <3> QED
      BY <3>1, <3>2
  <2>6. ExactLevel(S, new)
    BY <1>0, <1>a, <2>2, <2>4, <2>5, ExactUnlink
  <2> QED
    BY <2>6 DEF new, S, T, s
<1> QED
  BY <1>2, <1>3

LEMMA DeleteExact ==
    ASSUME NEW list, WellBuilt(list), List!GapsExact(list), NEW k \in List!KeysOf(list), ~Skews(list, k)
    PROVE  List!GapsExact(List!Delete(list, k))
<1> DEFINE H == List!Height(list)
           s == List!Search(list, k)
           new == List!Delete(list, k)
           f == [l \in 1 .. H |-> List!LevelWithout(list, s, k, l)]
<1>1. Form(list) /\ H \in Nat /\ H # 0 /\ k \in Keys
  BY HeightIs, BottomKeys DEF WellBuilt
<1>2. Form(new) /\ List!KeysOf(new) = List!KeysOf(list) \ {k}
  BY DeleteBuilds DEF WellBuilt
<1>3. new.levels = List!Below(f)
  <2>1. s.node = k
    BY <1>1, SearchFinds
  <2> QED
    BY <2>1 DEF List!Delete
<1>4. \A l \in 1 .. H : /\ Removed(f[l], list, k, l)
                        /\ \/ DOMAIN list.levels[l] = {NegInf, k}
                           \/ ExactLevel(List!KeysOf(list) \ {k}, f[l])
  BY RemovedLevel, RemovedExact
<1>5. f = [l \in 1 .. H |-> f[l]]
  OBVIOUS
<1> HIDE DEF f, new, H, s
<1>6. PICK m \in 0 .. H : /\ List!Below(f) = [l \in 1 .. m |-> f[l]]
                          /\ \A l \in 1 .. m : f[l][NegInf].right # Null
  BY <1>1, <1>5, BelowIs
<1>7. m \in Nat /\ \A l \in 1 .. m : l \in 1 .. H /\ new.levels[l] = f[l]
  BY <1>1, <1>3, <1>6
<1>9. \A l \in 1 .. m : ExactLevel(List!KeysOf(list) \ {k}, f[l])
  <2> SUFFICES ASSUME NEW l \in 1 .. m, DOMAIN list.levels[l] = {NegInf, k} PROVE FALSE
    BY <1>4, <1>7
  <2>1. f[l] \in Levels /\ LevelLinked(f[l]) /\ DOMAIN f[l] = {NegInf, k} \ {k}
    BY <1>4, <1>7 DEF Removed
  <2>2. k # NegInf
    BY <1>1, NodesAre
  <2>3. DOMAIN f[l] = {NegInf}
    BY <2>1, <2>2
  <2> QED
    BY <1>6, <2>1, <2>3, EmptyLevel
<1>8. List!Height(new) = m
  <2>1. Len([l \in 1 .. m |-> f[l]]) = m
    BY <1>7
  <2> QED
    BY <1>3, <1>6, <2>1 DEF List!Height
<1> QED
  BY <1>2, <1>7, <1>8, <1>9, GapsAre DEF new

LEMMA InitExact ==
    ASSUME Init
    PROVE  List!GapsExact(score_tree)
<1>1. score_tree = List!NewList /\ Form(score_tree)
  BY InitInv DEF Init, Inv, WellBuilt
<1>2. List!KeysOf(score_tree) = {} /\ List!Height(score_tree) = 1
  BY <1>1, NewListKeys
<1>3. ExactLevel({}, score_tree.levels[1])
  <2> DEFINE level == score_tree.levels[1]
  <2>1. level = [n \in {NegInf} |-> List!Node(Null, 0)]
    BY <1>1 DEF List!NewList
  <2>2. DOMAIN level = {NegInf} /\ level[NegInf].right = Null /\ level[NegInf].gap = 0
    BY <2>1, NodeIs
  <2>3. UpTo({}, NegInf) = 0 /\ EndOf({}, Null) = 0
    <3>1. {m \in {} : ~Before(NegInf, m)} = {}
      OBVIOUS
    <3> QED
      BY <3>1, FS_EmptySet DEF UpTo, EndOf
  <2> HIDE DEF level
  <2> QED
    BY <2>2, <2>3 DEF ExactLevel, level
<1> QED
  BY <1>1, <1>2, <1>3, GapsAre

GInv == Inv /\ GapsExactUntilSkewed

LEMMA StepGInv ==
    ASSUME GInv, [Next]_vars
    PROVE  GInv'
<1>1. Inv /\ Inv' /\ (skewed \/ List!GapsExact(score_tree))
  BY StepInv DEF GInv, GapsExactUntilSkewed
<1> SUFFICES ASSUME ~skewed' PROVE List!GapsExact(score_tree')
  BY <1>1 DEF GInv, GapsExactUntilSkewed
<1>2. ASSUME NEW m \in Members, NEW s \in Scores, zset_add(m, s)
      PROVE  List!GapsExact(score_tree')
  <2>1. PICK h \in 1 .. MaxHeight : score_tree' = List!Insert(score_tree, Key(s, m), h)
    BY <1>2 DEF zset_add, InsertMember
  <2>2. skewed' = skewed
    BY <1>2 DEF zset_add
  <2>3. h \in Nat \ {0} /\ Key(s, m) \in Keys
    BY SortedSetAssumption, KeyIs DEF SortedSetAssumption
  <2> QED
    BY <1>1, <2>1, <2>2, <2>3, InsertExact DEF Inv
<1>3. ASSUME NEW m \in Members, m \in DOMAIN score_hash, skewed' = (skewed \/ Skews(score_tree, KeyOfMember(m)))
      PROVE  /\ WellBuilt(List!Delete(score_tree, KeyOfMember(m)))
             /\ List!GapsExact(List!Delete(score_tree, KeyOfMember(m)))
  <2>1. ~skewed /\ ~Skews(score_tree, KeyOfMember(m))
    BY <1>3
  <2>2. WellBuilt(score_tree) /\ KeyOfMember(m) \in List!KeysOf(score_tree)
    BY <1>1, <1>3 DEF Inv, MembersListed, Listed
  <2> QED
    BY <1>1, <2>1, <2>2, DeleteBuilds, DeleteExact
<1>4. ASSUME NEW m \in Members, remove(m)
      PROVE  List!GapsExact(score_tree')
  BY <1>3, <1>4 DEF remove
<1>5. ASSUME NEW m \in Members, NEW s \in Scores, update_increase_by_delta(m, s)
      PROVE  List!GapsExact(score_tree')
  <2>1. PICK h \in 1 .. MaxHeight :
          score_tree' = List!Insert(List!Delete(score_tree, KeyOfMember(m)), Key(s, m), h)
    BY <1>5 DEF update_increase_by_delta, Moved
  <2>2. m \in DOMAIN score_hash /\ skewed' = (skewed \/ Skews(score_tree, KeyOfMember(m)))
    BY <1>5 DEF update_increase_by_delta
  <2>3. h \in Nat \ {0} /\ Key(s, m) \in Keys
    BY SortedSetAssumption, KeyIs DEF SortedSetAssumption
  <2>4. /\ WellBuilt(List!Delete(score_tree, KeyOfMember(m)))
        /\ List!GapsExact(List!Delete(score_tree, KeyOfMember(m)))
    BY <1>3, <2>2
  <2> QED
    BY <2>1, <2>3, <2>4, InsertExact
<1>6. ASSUME UNCHANGED vars
      PROVE  List!GapsExact(score_tree')
  BY <1>1, <1>6 DEF vars
<1> QED
  BY <1>2, <1>4, <1>5, <1>6 DEF Next

LEMMA GapInvariant == Spec => []GInv
<1>1. Init => GInv
  BY InitInv, InitExact DEF GInv, GapsExactUntilSkewed
<1>2. GInv /\ [Next]_vars => GInv'
  BY StepGInv
<1> QED
  BY <1>1, <1>2, PTL DEF Spec

\* The gaps count exactly until delete_key takes over a gap of another length; no insertion,
\* and no other removal, loses count (GapsExactUntilSkewed).
THEOREM GapsStayExact == Spec => []GapsExactUntilSkewed
  BY GapInvariant, PTL DEF GInv

-----------------------------------------------------------------------------
(* search_index and range_search.                                          *)

GapOf(list, at) == list.levels[at.level][at.node].gap
SkipsRight(list, at) == RightOf(list, at) # Null /\ at.index >= GapOf(list, at)
SkipRight(list, at) == List!At(at.level, RightOf(list, at), at.index - GapOf(list, at))

\* What search_index finds from a position, given what it finds from the others.
IndexStep(list, f, at) ==
    IF SkipsRight(list, at) THEN f[SkipRight(list, at)]
    ELSE IF at.index = 0 THEN at.node
    ELSE IF at.level = 1 THEN Crash
    ELSE f[ToDown(at)]

LEMMA IndexOnward ==
    ASSUME NEW list, Form(list), NEW at \in List!Positions(list)
    PROVE  /\ SkipsRight(list, at) =>
                SkipRight(list, at) \in List!Positions(list) /\ Rank(list)[SkipRight(list, at)] < Rank(list)[at]
           /\ at.level # 1 =>
                ToDown(at) \in List!Positions(list) /\ Rank(list)[ToDown(at)] < Rank(list)[at]
<1>1. at.index \in Int /\ GapOf(list, at) \in Int
  <2> DEFINE level == list.levels[at.level]
  <2>1. level \in Levels /\ at.node \in DOMAIN level /\ at.index \in Int
    BY PositionFacts
  <2> HIDE DEF level
  <2>2. level[at.node].gap \in Int
    BY <2>1, LevelFacts
  <2> QED
    BY <2>1, <2>2 DEF level, GapOf
<1>2. at.index - GapOf(list, at) \in Int
  BY <1>1
<1>3. ASSUME SkipsRight(list, at)
      PROVE  SkipRight(list, at) \in List!Positions(list) /\ Rank(list)[SkipRight(list, at)] < Rank(list)[at]
  BY <1>2, <1>3, RankRight DEF SkipsRight, SkipRight, RightOf
<1>4. ASSUME at.level # 1
      PROVE  ToDown(at) \in List!Positions(list) /\ Rank(list)[ToDown(at)] < Rank(list)[at]
  BY <1>1, <1>4, RankDown DEF ToDown
<1> QED
  BY <1>3, <1>4

Solves(f, list) == \A at \in List!Positions(list) : f[at] = IndexStep(list, f, at)

LEMMA IndexWalks ==
    ASSUME NEW list, Form(list), List!Height(list) # 0, NEW i \in Int, 0 < i, i <= list.length,
           list.length \in Nat
    PROVE  \E f : Solves(f, list) /\ List!SearchIndex(list, i) = f[List!At(List!Height(list), NegInf, i)]
<1> DEFINE S == List!Positions(list)
           V == Nodes \cup {Crash}
           F == [g \in [S -> V] |-> [at \in S |-> IndexStep(list, g, at)]]
           Sol(f) == f = [at \in S |-> IndexStep(list, f, at)]
<1>1. ASSUME NEW g \in [S -> V], NEW at \in S
      PROVE  IndexStep(list, g, at) \in V
  <2>1. at.node \in V
    BY PositionFacts
  <2> QED
    BY <2>1, IndexOnward DEF IndexStep
<1>2. F \in [[S -> V] -> [S -> V]]
  BY <1>1
<1>3. Contracts(F, S, V, Rank(list))
  <2> SUFFICES ASSUME NEW g \in [S -> V], NEW h \in [S -> V], NEW x \in S,
                      \A y \in S : Rank(list)[y] < Rank(list)[x] => g[y] = h[y]
               PROVE  IndexStep(list, g, x) = IndexStep(list, h, x)
    BY DEF Contracts
  <2> QED
    BY IndexOnward DEF IndexStep
<1>4. \E f : Sol(f)
  <2>1. Rank(list) \in [S -> Nat] /\ \E b \in Nat : \A at \in S : Rank(list)[at] < b
    BY RankType
  <2>2. PICK b \in Nat : \A at \in S : Rank(list)[at] < b
    BY <2>1
  <2>3. V # {}
    OBVIOUS
  <2> HIDE DEF F, S, V
  <2>4. PICK f \in [S -> V] : f = F[f]
    <3>1. Descends(F, S, V)
      BY <1>2, <1>3, <2>1, <2>2, <2>3 DEF Descends
    <3> QED
      BY <3>1, RecursionHasSolution
  <2>5. F[f] = [at \in S |-> IndexStep(list, f, at)]
    BY DEF F
  <2> QED
    BY <2>4, <2>5
<1> DEFINE from == CHOOSE f : Sol(f)
<1>5. Sol(from)
  <2> HIDE DEF F, S, V
  <2> QED
    BY <1>4, Zenon
<1>6. List!SearchIndex(list, i) = from[List!At(List!Height(list), NegInf, i)]
  <2>1. ~(i <= 0 \/ i > list.length)
    OBVIOUS
  <2> QED
    BY <2>1 DEF List!SearchIndex, IndexStep, SkipsRight, SkipRight, GapOf, RightOf, ToDown
<1> HIDE DEF from
<1>7. Solves(from, list)
  BY <1>5 DEF Solves
<1> QED
  BY <1>6, <1>7

\* Where the walk ends, with a count that does not reach beyond the last key.
LEMMA IndexReaches ==
    ASSUME NEW list, WellBuilt(list), List!GapsExact(list), List!Height(list) # 0,
           NEW f, Solves(f, list),
           NEW at \in List!Positions(list), 0 <= at.index, at.index + Spot(list, at.node) <= list.length
    PROVE  f[at] \in List!KeysOf(list) \cup {NegInf} /\ Spot(list, f[at]) = at.index + Spot(list, at.node)
<1> DEFINE S == List!Positions(list)
           ks == List!KeysOf(list)
           Fit(x) == 0 <= x.index /\ x.index + Spot(list, x.node) <= list.length
           Ends(x) == f[x] \in ks \cup {NegInf} /\ Spot(list, f[x]) = x.index + Spot(list, x.node)
           Off == {x \in S : Fit(x) /\ ~Ends(x)}
<1> SUFFICES ASSUME Off # {} PROVE FALSE
  OBVIOUS
<1>0. /\ Form(list) /\ list.length \in Nat /\ list.length = Cardinality(ks)
      /\ Rank(list) \in [S -> Nat] /\ ks \in KeySets
  BY Length, RankType, KeySetIs DEF WellBuilt
<1>1. PICK x \in Off : \A y \in Off : ~(Rank(list)[y] < Rank(list)[x])
  <2>1. Off \subseteq S
    OBVIOUS
  <2> HIDE DEF Off, S
  <2> QED
    BY <1>0, <2>1, LeastRank
<1>2. x \in S /\ Fit(x) /\ ~Ends(x) /\ f[x] = IndexStep(list, f, x)
  BY <1>1 DEF Solves
<1>3. \A y \in S : Rank(list)[y] < Rank(list)[x] /\ Fit(y) => Ends(y)
  BY <1>1
<1> HIDE DEF Off
<1> DEFINE level == list.levels[x.level]
           r == RightOf(list, x)
           gap == GapOf(list, x)
<1>4. /\ x.level \in 1 .. List!Height(list) /\ level \in Levels /\ LevelLinked(level)
      /\ x.node \in DOMAIN level /\ x.node \in Nodes /\ x.index \in Int
      /\ gap = level[x.node].gap /\ r = level[x.node].right
  BY <1>0, <1>2, PositionFacts DEF GapOf, RightOf
<1>5. gap = EndOf(ks, r) - UpTo(ks, x.node) /\ Spot(list, x.node) = UpTo(ks, x.node)
  <2>1. ExactLevel(ks, level)
    BY <1>0, <1>4, GapsAre
  <2>2. Spot(list, x.node) = UpTo(ks, x.node)
    BY <1>0, SpotIs
  <2> HIDE DEF level, gap, r
  <2> QED
    BY <1>4, <2>1, <2>2 DEF ExactLevel
<1>6. Spot(list, x.node) \in Nat /\ (r # Null => Spot(list, r) = EndOf(ks, r)) /\ EndOf(ks, r) \in Nat
  BY <1>0, SpotType, SpotIs, UpToType DEF EndOf
<1> HIDE DEF level, r, gap
<1>7. CASE SkipsRight(list, x)
  <2> DEFINE to == SkipRight(list, x)
  <2>1. to \in S /\ Rank(list)[to] < Rank(list)[x] /\ f[x] = f[to]
    BY <1>0, <1>2, <1>7, IndexOnward DEF IndexStep
  <2>2. to.node = r /\ to.index = x.index - gap
    BY AtFields DEF SkipRight, r, gap
  <2>3. r # Null /\ gap <= x.index
    BY <1>4, <1>5, <1>6, <1>7 DEF SkipsRight, r, gap
  <2> HIDE DEF to
  <2>4. 0 <= to.index /\ to.index + Spot(list, to.node) = x.index + Spot(list, x.node)
    BY <1>4, <1>5, <1>6, <2>2, <2>3
  <2>5. Ends(to)
    BY <1>2, <1>3, <2>1, <2>4
  <2> QED
    BY <1>2, <2>1, <2>4, <2>5
<1>8. CASE ~SkipsRight(list, x) /\ x.index = 0
  <2>1. f[x] = x.node
    BY <1>2, <1>8 DEF IndexStep
  <2>2. x.node \in ks \cup {NegInf}
    <3>1. DOMAIN level \subseteq DOMAIN list.levels[1]
      BY <1>0, <1>4, LevelsNest DEF level
    <3>2. DOMAIN list.levels[1] = ks \cup {NegInf}
      BY <1>0, BottomKeys
    <3> QED
      BY <1>4, <3>1, <3>2
  <2> QED
    BY <1>2, <1>6, <1>8, <2>1, <2>2
<1>9. CASE ~SkipsRight(list, x) /\ x.index # 0 /\ x.level = 1
  <2>1. gap = IF r = Null THEN 0 ELSE 1
    <3>1. DOMAIN level = ks \cup {NegInf}
      BY <1>0, <1>9, BottomKeys DEF level
    <3>2. EndOf(ks, level[x.node].right) - UpTo(ks, x.node) = IF level[x.node].right = Null THEN 0 ELSE 1
      BY <1>0, <1>4, <3>1, BottomGap
    <3> QED
      BY <1>4, <1>5, <3>2
  <2>2. r = Null \/ x.index < gap
    BY <1>4, <1>5, <1>6, <1>9 DEF SkipsRight, r, gap
  <2>3. r = Null
    BY <1>2, <1>4, <1>9, <2>1, <2>2
  <2>4. EndOf(ks, r) = list.length
    BY <1>0, <2>3 DEF EndOf
  <2> QED
    BY <1>0, <1>2, <1>4, <1>5, <1>6, <1>9, <2>1, <2>3, <2>4
<1>10. CASE ~SkipsRight(list, x) /\ x.index # 0 /\ x.level # 1
  <2> DEFINE to == ToDown(x)
  <2>1. to \in S /\ Rank(list)[to] < Rank(list)[x] /\ f[x] = f[to]
    BY <1>0, <1>2, <1>10, IndexOnward DEF IndexStep
  <2>2. to.node = x.node /\ to.index = x.index
    BY AtFields DEF ToDown
  <2> HIDE DEF to
  <2>3. Ends(to)
    BY <1>2, <1>3, <2>1, <2>2
  <2> QED
    BY <1>2, <2>1, <2>2, <2>3
<1> QED
  BY <1>7, <1>8, <1>9, <1>10

\* A key's place is its own.
LEMMA SpotBelow ==
    ASSUME NEW list, Form(list), NEW a \in Nodes, NEW b \in List!KeysOf(list), Before(a, b)
    PROVE  Spot(list, a) < Spot(list, b)
<1> DEFINE D == {m \in List!KeysOf(list) : Before(a, m) /\ ~Before(b, m)}
<1>1. b \in Nodes /\ ~Before(b, a) /\ ~Before(b, b)
  BY BottomKeys, Ordered DEF Nodes
<1>2. Cardinality(D) = Spot(list, b) - Spot(list, a)
  BY <1>1, SpotsApart
<1>3. IsFiniteSet(D)
  BY BottomKeys, FS_Subset
<1>4. b \in D
  BY <1>1
<1> HIDE DEF D
<1>5. Cardinality(D) \in Nat /\ Cardinality(D) # 0
  BY <1>3, <1>4, FS_CardinalityType, FS_EmptySet
<1>6. Spot(list, b) \in Nat /\ Spot(list, a) \in Nat
  BY SpotType
<1> QED
  BY <1>2, <1>5, <1>6

LEMMA SpotOwn ==
    ASSUME NEW list, Form(list), NEW a \in List!KeysOf(list) \cup {NegInf},
           NEW b \in List!KeysOf(list) \cup {NegInf}, Spot(list, a) = Spot(list, b)
    PROVE  a = b
<1>1. a \in Nodes /\ b \in Nodes
  BY BottomKeys DEF Nodes
<1>2. Spot(list, a) \in Nat /\ Spot(list, b) \in Nat
  BY SpotType
<1>3. CASE Before(a, b)
  <2>1. b # NegInf
    BY <1>1, <1>3, Ordered DEF Nodes
  <2> QED
    BY <1>1, <1>2, <1>3, <2>1, SpotBelow
<1>4. CASE Before(b, a)
  <2>1. a # NegInf
    BY <1>1, <1>4, Ordered DEF Nodes
  <2> QED
    BY <1>1, <1>2, <1>4, <2>1, SpotBelow
<1> QED
  BY <1>1, <1>3, <1>4, Ordered

\* search_index gives the node with i keys up to it.
LEMMA IndexFinds ==
    ASSUME NEW list, WellBuilt(list), List!GapsExact(list), NEW i \in Int, 0 < i, i <= list.length
    PROVE  List!SearchIndex(list, i) \in List!KeysOf(list) /\ Spot(list, List!SearchIndex(list, i)) = i
<1> DEFINE H == List!Height(list)
           top == List!At(H, NegInf, i)
<1>1. Form(list) /\ list.length \in Nat /\ H # 0 /\ list.length = Cardinality(List!KeysOf(list))
  <2>1. Form(list) /\ list.length \in Nat /\ list.length = Cardinality(List!KeysOf(list))
    BY Length DEF WellBuilt
  <2>2. H # 0
    BY <2>1, BottomKeys, FS_EmptySet
  <2> QED
    BY <2>1, <2>2
<1>2. PICK f : Solves(f, list) /\ List!SearchIndex(list, i) = f[top]
  BY <1>1, IndexWalks
<1>3. top \in List!Positions(list) /\ top.node = NegInf /\ top.index = i
  <2>1. H \in 1 .. H /\ NegInf \in DOMAIN list.levels[H]
    <3>1. H \in 1 .. H
      BY <1>1, HeightIs
    <3> QED
      BY <1>1, <3>1, HeightIs, LevelFacts
  <2>2. top \in List!Positions(list)
    BY <1>1, <2>1, PositionsAre
  <2> QED
    BY <2>2, AtFields
<1>4. Spot(list, NegInf) = 0
  BY <1>1, HeadSpot
<1> HIDE DEF top, H
<1>5. f[top] \in List!KeysOf(list) \cup {NegInf} /\ Spot(list, f[top]) = i + 0
  BY <1>1, <1>2, <1>3, <1>4, IndexReaches DEF H
<1> QED
  BY <1>2, <1>4, <1>5

\* What range_search collects from a bottom node on.
Onward(list, hi, f) ==
    \A n \in List!KeysOf(list) \cup {Null} :
       f[n] = IF n = Null \/ Before(hi, n) THEN <<>> ELSE <<n>> \o f[list.levels[1][n].right]

\* On the bottom level a key is followed by the one in the next place, or is the last.
LEMMA NextPlace ==
    ASSUME NEW list, Form(list), NEW n \in List!KeysOf(list)
    PROVE  /\ list.levels[1][n].right \in List!KeysOf(list) \cup {Null}
           /\ list.levels[1][n].right = Null => Spot(list, n) = Cardinality(List!KeysOf(list))
           /\ list.levels[1][n].right # Null =>
                Spot(list, list.levels[1][n].right) = Spot(list, n) + 1
<1> DEFINE ks == List!KeysOf(list)
           level == list.levels[1]
           r == level[n].right
<1>1. List!Height(list) # 0 /\ ks \in KeySets
  BY BottomKeys, KeySetIs
<1>2. 1 \in 1 .. List!Height(list)
  BY <1>1, HeightIs
<1>3. level \in Levels /\ LevelLinked(level) /\ DOMAIN level = ks \cup {NegInf}
  BY <1>1, <1>2, HeightIs, BottomKeys DEF Form
<1>4. n \in Nodes /\ n \in DOMAIN level /\ ks \subseteq Keys
  BY <1>1, <1>3 DEF KeySets, Nodes
<1>5. r # Null => r \in ks
  <2> SUFFICES ASSUME r # Null PROVE r \in ks
    OBVIOUS
  <2>1. r \in DOMAIN level /\ Before(n, r)
    BY <1>3, <1>4 DEF LevelLinked
  <2>2. r # NegInf
    BY <1>4, <2>1, NodesAre, Ordered DEF Nodes
  <2> QED
    BY <1>3, <2>1, <2>2
<1>6. EndOf(ks, r) - UpTo(ks, n) = IF r = Null THEN 0 ELSE 1
  BY <1>1, <1>3, <1>4, BottomGap
<1>7. /\ UpTo(ks, n) = Spot(list, n) /\ UpTo(ks, n) \in Nat /\ EndOf(ks, r) \in Nat
      /\ UpTo(ks, r) = Spot(list, r)
  BY <1>1, SpotIs, UpToType
<1> HIDE DEF r, ks
<1>8. r \in ks \cup {Null}
  BY <1>5
<1>9. r = Null => Spot(list, n) = Cardinality(ks)
  <2> SUFFICES ASSUME r = Null PROVE Spot(list, n) = Cardinality(ks)
    OBVIOUS
  <2>1. EndOf(ks, r) = Cardinality(ks)
    BY DEF EndOf
  <2> QED
    BY <1>6, <1>7, <2>1
<1>10. r # Null => Spot(list, r) = Spot(list, n) + 1
  <2> SUFFICES ASSUME r # Null PROVE Spot(list, r) = Spot(list, n) + 1
    OBVIOUS
  <2>1. EndOf(ks, r) = UpTo(ks, r)
    BY DEF EndOf
  <2> QED
    BY <1>6, <1>7, <2>1
<1> QED
  BY <1>8, <1>9, <1>10 DEF r, ks

LEMMA SpotMost ==
    ASSUME NEW list, Form(list), NEW n
    PROVE  /\ Spot(list, n) \in Nat /\ Cardinality(List!KeysOf(list)) \in Nat
           /\ Spot(list, n) <= Cardinality(List!KeysOf(list))
           /\ Spot(list, n) = Cardinality(List!KeysOf(list)) => \A m \in List!KeysOf(list) : ~Before(n, m)
<1> DEFINE A == {m \in List!KeysOf(list) : ~Before(n, m)}
<1>1. A \subseteq List!KeysOf(list) /\ Spot(list, n) = Cardinality(A) /\ Spot(list, n) \in Nat
  BY SpotType
<1>2. IsFiniteSet(List!KeysOf(list)) /\ Cardinality(List!KeysOf(list)) \in Nat
  BY BottomKeys, FS_CardinalityType
<1>3. /\ Cardinality(A) <= Cardinality(List!KeysOf(list))
      /\ Cardinality(A) = Cardinality(List!KeysOf(list)) => A = List!KeysOf(list)
  <2> HIDE DEF A
  <2> QED
    BY <1>1, <1>2, FS_Subset
<1> QED
  BY <1>1, <1>2, <1>3

\* The places left from n on, n's among them.
Left(list, n) == IF n = Null THEN 0 ELSE Cardinality(List!KeysOf(list)) + 1 - Spot(list, n)

LEMMA LeftDown ==
    ASSUME NEW list, Form(list)
    PROVE  /\ Left(list, Null) = 0
           /\ \A n \in List!KeysOf(list) :
                /\ Left(list, n) \in Nat /\ Left(list, n) <= Cardinality(List!KeysOf(list)) + 1
                /\ Left(list, list.levels[1][n].right) \in Nat
                /\ Left(list, n) = Left(list, list.levels[1][n].right) + 1
<1>1. Left(list, Null) = 0
  BY DEF Left
<1>2. ASSUME NEW n \in List!KeysOf(list)
      PROVE  /\ Left(list, n) \in Nat /\ Left(list, n) <= Cardinality(List!KeysOf(list)) + 1
             /\ Left(list, list.levels[1][n].right) \in Nat
             /\ Left(list, n) = Left(list, list.levels[1][n].right) + 1
  <2> DEFINE c == Cardinality(List!KeysOf(list))
             r == list.levels[1][n].right
  <2>1. c \in Nat /\ Spot(list, n) \in Nat /\ Spot(list, n) <= c /\ Spot(list, r) \in Nat /\ Spot(list, r) <= c
    BY SpotMost
  <2>2. /\ r = Null => Spot(list, n) = c
        /\ r # Null => Spot(list, r) = Spot(list, n) + 1
    BY NextPlace
  <2>3. n # Null
    BY BottomKeys, NodesAre DEF Nodes
  <2>4. Left(list, n) = c + 1 - Spot(list, n)
    BY <2>3 DEF Left
  <2>5. Left(list, r) = IF r = Null THEN 0 ELSE c + 1 - Spot(list, r)
    BY DEF Left
  <2> HIDE DEF c, r
  <2>6. /\ Left(list, n) \in Nat /\ Left(list, n) <= c + 1
        /\ Left(list, r) \in Nat /\ Left(list, n) = Left(list, r) + 1
    BY <2>1, <2>2, <2>4, <2>5
  <2> QED
    BY <2>6 DEF c, r
<1> QED
  BY <1>1, <1>2

LEMMA RangeWalks ==
    ASSUME NEW list, Form(list), List!Height(list) # 0, NEW lo, NEW hi, List!Search(list, lo).node = lo
    PROVE  \E f : Onward(list, hi, f) /\ List!RangeSearch(list, lo, hi) = f[lo]
<1>0. ~(List!Height(list) = 0 \/ List!Search(list, lo).node # lo)
  OBVIOUS
<1> DEFINE ks == List!KeysOf(list)
           S == ks \cup {Null}
           V == Seq(ks)
           Body(g, n) == IF n = Null \/ Before(hi, n) THEN <<>> ELSE <<n>> \o g[list.levels[1][n].right]
           F == [g \in [S -> V] |-> [n \in S |-> Body(g, n)]]
           Sol(f) == f = [n \in S |-> Body(f, n)]
           rank == [n \in S |-> Left(list, n)]
<1>1. ASSUME NEW n \in S, n # Null
      PROVE  n \in ks /\ list.levels[1][n].right \in S
  BY <1>1, NextPlace
<1>2. ASSUME NEW g \in [S -> V], NEW n \in S
      PROVE  Body(g, n) \in V
  <2>1. CASE n = Null \/ Before(hi, n)
    BY <2>1
  <2>2. CASE ~(n = Null \/ Before(hi, n))
    <3> DEFINE rest == g[list.levels[1][n].right]
    <3>1. n \in ks /\ rest \in V
      BY <1>1, <2>2
    <3>2. Body(g, n) = <<n>> \o rest
      BY <2>2
    <3> HIDE DEF rest, ks, Body
    <3>3. <<n>> \in V /\ <<n>> \o rest \in V
      BY <3>1
    <3> QED
      BY <3>2, <3>3
  <2> QED
    BY <2>1, <2>2
<1>3. F \in [[S -> V] -> [S -> V]]
  <2> HIDE DEF S, V, Body
  <2> QED
    BY <1>2
<1>4. /\ rank \in [S -> Nat] /\ Cardinality(ks) + 2 \in Nat
      /\ \A n \in S : rank[n] < Cardinality(ks) + 2
      /\ \A n \in S : n # Null => rank[list.levels[1][n].right] < rank[n]
  <2>1. Cardinality(ks) \in Nat
    BY SpotMost
  <2>2. \A n \in S : rank[n] \in Nat /\ rank[n] < Cardinality(ks) + 2
    BY <2>1, LeftDown
  <2>3. \A n \in S : n # Null => rank[list.levels[1][n].right] < rank[n]
    BY <1>1, LeftDown
  <2>4. rank = [n \in S |-> rank[n]]
    OBVIOUS
  <2> HIDE DEF rank, S, ks
  <2> QED
    BY <2>1, <2>2, <2>3, <2>4
<1> HIDE DEF rank
<1>5. Contracts(F, S, V, rank)
  <2> SUFFICES ASSUME NEW g \in [S -> V], NEW h \in [S -> V], NEW x \in S,
                      \A y \in S : rank[y] < rank[x] => g[y] = h[y]
               PROVE  F[g][x] = F[h][x]
    BY DEF Contracts
  <2>1. F[g][x] = Body(g, x) /\ F[h][x] = Body(h, x)
    <3> HIDE DEF S, V, Body
    <3> QED
      OBVIOUS
  <2>2. CASE x = Null
    BY <2>1, <2>2
  <2>3. CASE x # Null
    <3>1. g[list.levels[1][x].right] = h[list.levels[1][x].right]
      BY <1>1, <1>4, <2>3
    <3> QED
      BY <2>1, <3>1
  <2> HIDE DEF F, S, V, Body
  <2> QED
    BY <2>2, <2>3, Zenon
<1>6. \E f \in [S -> V] : Sol(f)
  <2> HIDE DEF F, S
  <2>1. V # {}
    <3>1. <<>> \in V
      OBVIOUS
    <3> QED
      BY <3>1
  <2> HIDE DEF V
  <2>2. PICK f \in [S -> V] : f = F[f]
    <3>1. Descends(F, S, V)
      BY <1>3, <1>4, <1>5, <2>1 DEF Descends
    <3> QED
      BY <3>1, RecursionHasSolution
  <2> HIDE DEF Body
  <2>3. F[f] = [n \in S |-> Body(f, n)]
    BY DEF F
  <2> QED
    BY <2>2, <2>3
<1> DEFINE from == CHOOSE f : Sol(f)
<1>7. Sol(from)
  <2> HIDE DEF F, S, V
  <2> QED
    BY <1>6, Zenon
<1>8. List!RangeSearch(list, lo, hi) = from[lo]
  BY <1>0 DEF List!RangeSearch
<1> HIDE DEF from
<1>9. Onward(list, hi, from)
  BY <1>7 DEF Onward
<1> QED
  BY <1>8, <1>9

\* Up to a node that no key follows, it collects all that are left.
LEMMA RangeLength ==
    ASSUME NEW list, Form(list), NEW hi, \A m \in List!KeysOf(list) : ~Before(hi, m),
           NEW f, Onward(list, hi, f)
    PROVE  \A n \in List!KeysOf(list) \cup {Null} :
              f[n] \in Seq(List!KeysOf(list)) /\ Len(f[n]) = Left(list, n)
<1> DEFINE ks == List!KeysOf(list)
           S == ks \cup {Null}
           rank == [n \in S |-> Left(list, n)]
           Right(n) == list.levels[1][n].right
           Counted(n) == f[n] \in Seq(ks) /\ Len(f[n]) = Left(list, n)
           Bad == {n \in S : ~Counted(n)}
<1>1. rank \in [S -> Nat]
  BY LeftDown
<1>2. ASSUME NEW n \in S, n # Null
      PROVE  n \in ks /\ Right(n) \in S /\ rank[Right(n)] < rank[n]
             /\ Left(list, n) = Left(list, Right(n)) + 1 /\ Left(list, Right(n)) \in Nat
  <2>1. n \in ks /\ Right(n) \in S
    BY <1>2, NextPlace
  <2>2. /\ Left(list, n) = Left(list, Right(n)) + 1
        /\ Left(list, n) \in Nat /\ Left(list, Right(n)) \in Nat
    BY <2>1, LeftDown
  <2>3. rank[n] = Left(list, n) /\ rank[Right(n)] = Left(list, Right(n))
    BY <2>1
  <2> HIDE DEF rank, Right, ks
  <2>4. rank[Right(n)] < rank[n]
    BY <2>2, <2>3
  <2> QED
    BY <2>1, <2>2, <2>4
<1>3. Bad = {}
  <2> SUFFICES ASSUME Bad # {} PROVE FALSE
    OBVIOUS
  <2>1. PICK n \in Bad : \A y \in Bad : ~(rank[y] < rank[n])
    <3>1. Bad \subseteq S
      OBVIOUS
    <3> HIDE DEF Bad, S, rank
    <3> QED
      BY <1>1, <3>1, LeastRank
  <2>2. n \in S /\ ~Counted(n)
    OBVIOUS
  <2>3. \A y \in S : rank[y] < rank[n] => Counted(y)
    BY <2>1
  <2> HIDE DEF Bad, rank
  <2>4. CASE n = Null
    <3>1. f[n] = <<>>
      BY <2>2, <2>4 DEF Onward
    <3>2. Left(list, n) = 0
      BY <2>4, LeftDown
    <3>3. <<>> \in Seq(ks) /\ Len(<<>>) = 0
      OBVIOUS
    <3>4. f[n] \in Seq(ks) /\ Len(f[n]) = Left(list, n)
      <4> HIDE DEF ks
      <4> QED
        BY <3>1, <3>2, <3>3
    <3> HIDE DEF ks, S
    <3> QED
      BY <2>2, <3>4, Zenon
  <2>5. CASE n # Null
    <3>1. /\ n \in ks /\ Counted(Right(n))
          /\ Left(list, n) = Left(list, Right(n)) + 1 /\ Left(list, Right(n)) \in Nat
      BY <1>2, <2>2, <2>3, <2>5
    <3>2. f[n] = <<n>> \o f[Right(n)]
      BY <2>2, <2>5, <3>1 DEF Onward
    <3> DEFINE rest == f[Right(n)]
    <3>3. rest \in Seq(ks) /\ Len(rest) = Left(list, Right(n))
      BY <3>1
    <3> HIDE DEF rest, Right, ks
    <3>4. <<n>> \o rest \in Seq(ks) /\ Len(<<n>> \o rest) = Len(rest) + 1
      BY <3>1, <3>3
    <3>5. f[n] \in Seq(ks) /\ Len(f[n]) = Left(list, n)
      BY <3>1, <3>2, <3>3, <3>4 DEF rest
    <3> QED
      BY <2>2, <3>5
  <2> QED
    BY <2>4, <2>5
<1> QED
  BY <1>3

\* The keys not before k are as many as the places left.
LEMMA NotBefore ==
    ASSUME NEW list, Form(list), NEW k \in List!KeysOf(list)
    PROVE  /\ Cardinality({n \in List!KeysOf(list) : ~Before(n, k)}) = Left(list, k)
           /\ 0 < Spot(list, k)
<1> DEFINE ks == List!KeysOf(list)
           A == {m \in ks : ~Before(k, m)}
           C == {n \in ks : ~Before(n, k)}
<1>1. IsFiniteSet(ks) /\ \A n \in ks : n \in Nodes
  BY BottomKeys DEF Nodes
<1>2. A \cup C = ks /\ A \cap C = {k}
  BY <1>1, Ordered
<1>3. IsFiniteSet(A) /\ IsFiniteSet(C) /\ Cardinality(A) = Spot(list, k)
  <2>1. Cardinality(A) = Spot(list, k)
    BY SpotType
  <2>2. A \subseteq ks /\ C \subseteq ks
    OBVIOUS
  <2> QED
    BY <1>1, <2>1, <2>2, FS_Subset
<1>4. k # Null
  BY BottomKeys, NodesAre DEF Nodes
<1>5. Left(list, k) = Cardinality(ks) + 1 - Spot(list, k)
  BY <1>4 DEF Left
<1>6. k \in A
  BY <1>2
<1> HIDE DEF ks, A, C
<1>7. Cardinality(ks) = Cardinality(A) + Cardinality(C) - 1
  <2>1. Cardinality(A \cup C) = Cardinality(A) + Cardinality(C) - Cardinality(A \cap C)
    BY <1>3, FS_Union
  <2> QED
    BY <1>2, <2>1, FS_Singleton
<1>8. Cardinality(ks) \in Nat /\ Cardinality(A) \in Nat /\ Cardinality(C) \in Nat
  BY <1>1, <1>3, FS_CardinalityType
<1>9. Cardinality(A) # 0
  BY <1>3, <1>6, FS_EmptySet
<1>10. Cardinality(C) = Left(list, k) /\ 0 < Spot(list, k)
  BY <1>3, <1>5, <1>7, <1>8, <1>9
<1> QED
  BY <1>10 DEF C, ks

\* ZRANK and ZRANGE over exact gaps.
LEMMA RanksFollow ==
    ASSUME GInv, ~skewed, NEW m \in DOMAIN score_hash
    PROVE  /\ get_rank(m) = List!Place(Listed, KeyOfMember(m))
           /\ Len(get_range_by_rank(get_rank(m), score_tree.length))
                = Cardinality({n \in Listed : ~Before(n, KeyOfMember(m))})
<1> DEFINE list == score_tree
           k == KeyOfMember(m)
           ks == List!KeysOf(list)
           r == get_rank(m)
           e == List!SearchIndex(list, list.length)
<1>1. WellBuilt(list) /\ List!GapsExact(list) /\ k \in ks
  BY DEF GInv, Inv, GapsExactUntilSkewed, MembersListed, Listed
<1>2. Form(list) /\ list.length \in Nat /\ list.length = Cardinality(ks) /\ k \in Keys
  <2>1. Form(list) /\ list.length \in Nat /\ list.length = Cardinality(ks)
    BY <1>1, Length DEF WellBuilt
  <2> QED
    BY <1>1, <2>1, BottomKeys
<1>3. List!Height(list) # 0
  BY <1>1, <1>2, BottomKeys
<1>4. List!Search(list, k).node = k /\ List!Search(list, k).index = Spot(list, k)
  <2> HIDE DEF k, list
  <2> QED
    BY <1>1, <1>2, <1>3, SearchFinds DEF ks
<1>5. r = Spot(list, k) /\ Spot(list, k) = List!Place(Listed, k)
  BY <1>4 DEF get_rank, Spot, Listed
<1> HIDE DEF list, k, r
<1>6. r \in Nat /\ 0 < r /\ r <= list.length
  BY <1>1, <1>2, <1>5, SpotMost, NotBefore
<1>7. List!SearchIndex(list, r) = k
  <2>1. List!SearchIndex(list, r) \in ks /\ Spot(list, List!SearchIndex(list, r)) = r
    BY <1>1, <1>6, IndexFinds
  <2> QED
    BY <1>1, <1>2, <1>5, <2>1, SpotOwn
<1>8. e \in ks /\ Spot(list, e) = Cardinality(ks)
  BY <1>1, <1>2, <1>6, IndexFinds
<1>9. \A n \in ks : ~Before(e, n)
  BY <1>2, <1>8, SpotMost
<1>10. k # Null /\ e # Null
  BY <1>1, <1>2, <1>8, BottomKeys, NodesAre DEF Nodes
<1>11. get_range_by_rank(r, list.length) = List!RangeSearch(list, k, e)
  BY <1>7, <1>10 DEF get_range_by_rank, list
<1> HIDE DEF e
<1>12. PICK f : Onward(list, e, f) /\ List!RangeSearch(list, k, e) = f[k]
  BY <1>2, <1>3, <1>4, RangeWalks
<1>13. Len(f[k]) = Left(list, k)
  BY <1>1, <1>2, <1>9, <1>12, RangeLength
<1>14. Cardinality({n \in ks : ~Before(n, k)}) = Left(list, k)
  BY <1>1, <1>2, NotBefore
<1> QED
  BY <1>5, <1>11, <1>12, <1>13, <1>14 DEF list, k, r, Listed

\* search_index over exact gaps.
LEMMA IndexesFollow ==
    ASSUME NEW list, WellBuilt(list), List!GapsExact(list)
    PROVE  List!RanksExact(list)
<1> DEFINE ks == List!KeysOf(list)
<1> SUFFICES ASSUME NEW k \in ks PROVE List!SearchIndex(list, Spot(list, k)) = k
  BY DEF List!RanksExact, Spot
<1>1. Form(list) /\ list.length \in Nat /\ list.length = Cardinality(ks)
  BY Length DEF WellBuilt
<1> DEFINE r == Spot(list, k)
<1>2. r \in Nat /\ 0 < r /\ r <= list.length
  BY <1>1, SpotMost, NotBefore
<1> HIDE DEF r
<1>3. List!SearchIndex(list, r) \in ks /\ Spot(list, List!SearchIndex(list, r)) = r
  BY <1>2, IndexFinds
<1>4. List!SearchIndex(list, r) = k
  BY <1>1, <1>3, SpotOwn DEF r
<1> QED
  BY <1>4 DEF r

\* Until then search_index finds the key of each rank, ZRANK is a member's position, counted from 1,
\* and ZRANGE from it to the last returns as many keys as there are from it on
\* (RanksExactUntilSkewed).
THEOREM RanksStayExact == Spec => []RanksExactUntilSkewed
<1>1. ASSUME GInv, ~skewed PROVE List!RanksExact(score_tree)
  BY <1>1, IndexesFollow DEF GInv, Inv, GapsExactUntilSkewed
<1>2. GInv => RanksExactUntilSkewed
  BY <1>1, RanksFollow DEF RanksExactUntilSkewed
<1> QED
  BY <1>2, GapInvariant, PTL
=============================================================================
