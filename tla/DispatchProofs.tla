--------------------------- MODULE DispatchProofs ---------------------------
(***************************************************************************)
(* Theorems about Dispatch for every value of its constants: any commands, *)
(* numbers of any width, and whatever the trees of hashes do.              *)
(***************************************************************************)
EXTENDS Dispatch, TLAPS, SequenceTheorems, WellFoundedInduction

-----------------------------------------------------------------------------
(* Recursion.                                                              *)

LEMMA Upwards ==
    ASSUME NEW n \in Nat, NEW G, 0 \in G, \A i \in 1 .. n : i - 1 \in G => i \in G
    PROVE  \A i \in 0 .. n : i \in G
<1> DEFINE T == {i \in 0 .. n : i \notin G}
<1>1. ASSUME T # {} PROVE FALSE
  <2>1. T \subseteq Nat
    OBVIOUS
  <2> HIDE DEF T
  <2>2. PICK x \in T : \A y \in T : ~(<<y, x>> \in OpToRel(<, Nat))
    BY <1>1, <2>1, NatLessThanWellFounded, WFMin
  <2>3. \A y \in T : x <= y
    <3>1. \A y \in T : y \in Nat /\ x \in Nat /\ ~(y < x)
      BY <2>1, <2>2 DEF OpToRel
    <3> QED
      BY <3>1
  <2> USE DEF T
  <2>4. x \in 1 .. n /\ x - 1 \in 0 .. n
    OBVIOUS
  <2>5. x - 1 \notin T
    BY <2>3, <2>4
  <2> QED
    BY <2>4, <2>5
<1> QED
  BY <1>1

Solved(n, S, base, step, b) ==
    \E f \in [0 .. n -> S] : f[0] = base /\ \A i \in 1 .. b : f[i] = step[i, f[i - 1]]

\* A function on 0 .. n may be defined by its value at 0 and each value by the one before.
LEMMA Recursion ==
    ASSUME NEW n \in Nat, NEW S, NEW base \in S, NEW step \in [(1 .. n) \X S -> S]
    PROVE  Solved(n, S, base, step, n)
<1> DEFINE G == {b \in 0 .. n : Solved(n, S, base, step, b)}
<1>1. 0 \in G
  <2>1. [i \in 0 .. n |-> base] \in [0 .. n -> S] /\ [i \in 0 .. n |-> base][0] = base
    OBVIOUS
  <2>2. 1 .. 0 = {}
    OBVIOUS
  <2>3. Solved(n, S, base, step, 0)
    BY <2>1, <2>2 DEF Solved
  <2> QED
    BY <2>3
<1>2. ASSUME NEW b \in 1 .. n, b - 1 \in G PROVE b \in G
  <2>1. b - 1 \in 0 .. n /\ b \in 0 .. n /\ b # 0
    OBVIOUS
  <2>2. PICK f \in [0 .. n -> S] : f[0] = base /\ \A i \in 1 .. b - 1 : f[i] = step[i, f[i - 1]]
    BY <1>2 DEF Solved
  <2> DEFINE g == [f EXCEPT ![b] = step[b, f[b - 1]]]
  <2>3. step[b, f[b - 1]] \in S
    <3>1. f[b - 1] \in S
      BY <2>1
    <3>2. <<b, f[b - 1]>> \in (1 .. n) \X S
      BY <3>1
    <3> QED
      BY <3>2
  <2>4. g \in [0 .. n -> S] /\ g[b] = step[b, f[b - 1]]
        /\ \A i \in 0 .. n : i # b => g[i] = f[i]
    BY <2>1, <2>3
  <2> HIDE DEF g
  <2>5. ASSUME NEW i \in 1 .. b PROVE g[i] = step[i, g[i - 1]]
    <3>1. i - 1 \in 0 .. n /\ i - 1 # b /\ i \in 0 .. n
      OBVIOUS
    <3>2. g[i - 1] = f[i - 1]
      BY <2>4, <3>1
    <3>3. CASE i = b
      BY <2>4, <3>2, <3>3
    <3>4. CASE i # b
      <4>1. i \in 1 .. b - 1
        BY <3>4
      <4>2. g[i] = f[i]
        BY <2>4, <3>1, <3>4
      <4> QED
        BY <2>2, <3>2, <4>1, <4>2
    <3> QED
      BY <3>3, <3>4
  <2>6. g[0] = base
    <3>1. 0 \in 0 .. n /\ 0 # b
      BY <2>1
    <3>2. g[0] = f[0]
      BY <2>4, <3>1
    <3>3. f[0] = base
      BY <2>2
    <3> QED
      BY <3>2, <3>3
  <2>7. Solved(n, S, base, step, b)
    BY <2>4, <2>5, <2>6 DEF Solved
  <2> QED
    BY <2>1, <2>7
<1>3. n \in G
  <2> HIDE DEF G
  <2> QED
    BY <1>1, <1>2, Upwards
<1> QED
  BY <1>3

-----------------------------------------------------------------------------
(* Least and greatest numbers.                                             *)

LEMMA Least ==
    ASSUME NEW T, T \subseteq Nat, T # {}
    PROVE  \E x \in T : \A y \in T : x <= y
<1>1. PICK x \in T : \A y \in T : ~(<<y, x>> \in OpToRel(<, Nat))
  BY NatLessThanWellFounded, WFMin
<1>2. \A y \in T : y \in Nat /\ x \in Nat /\ ~(y < x)
  BY <1>1 DEF OpToRel
<1>3. \A y \in T : x <= y
  BY <1>2
<1> QED
  BY <1>3

LEMMA MinIs == ASSUME NEW T, T \subseteq Nat, T # {} PROVE Min(T) \in T /\ \A y \in T : Min(T) <= y
  BY Least DEF Min

LEMMA MaxIs ==
    ASSUME NEW n \in Nat, NEW T, T \subseteq 0 .. n, T # {}
    PROVE  Max(T) \in T /\ \A y \in T : Max(T) >= y
<1> DEFINE R == {k \in Nat : n - k \in T}
<1>1. R # {}
  <2>1. PICK x : x \in T
    OBVIOUS
  <2>2. n - x \in Nat /\ n - (n - x) = x
    BY <2>1
  <2> QED
    BY <2>1, <2>2
<1>2. R \subseteq Nat
  OBVIOUS
<1>3. PICK k \in R : \A y \in R : k <= y
  <2> HIDE DEF R
  <2> QED
    BY <1>1, <1>2, Least
<1>4. n - k \in T /\ k \in Nat
  OBVIOUS
<1>5. ASSUME NEW y \in T PROVE n - k >= y
  <2>1. y \in 0 .. n
    OBVIOUS
  <2>2. n - y \in Nat /\ n - (n - y) = y
    BY <2>1
  <2>3. n - y \in R
    BY <2>2
  <2>4. k <= n - y
    BY <1>3, <2>3
  <2> QED
    BY <1>4, <2>1, <2>4
<1>6. \E x \in T : \A y \in T : x >= y
  BY <1>4, <1>5
<1> QED
  BY <1>6 DEF Max

LEMMA MaxOnly ==
    ASSUME NEW n \in Nat, NEW T, T \subseteq 0 .. n, NEW x \in T, \A y \in T : x >= y
    PROVE  Max(T) = x
<1>1. Max(T) \in T /\ Max(T) >= x
  BY MaxIs
<1>2. Max(T) \in 0 .. n /\ x \in 0 .. n
  BY <1>1
<1>3. x >= Max(T)
  BY <1>1
<1> QED
  BY <1>1, <1>2, <1>3

-----------------------------------------------------------------------------
(* The memtable.                                                           *)

IsMap(m) == m = [k \in DOMAIN m |-> m[k]]

LEMMA PutMap == ASSUME NEW f, NEW k, NEW v PROVE IsMap(Put(f, k, v))
  BY DEF Put, IsMap

\* To put what is there changes nothing.
LEMMA PutSame == ASSUME NEW m, IsMap(m), NEW k \in DOMAIN m PROVE Put(m, k, m[k]) = m
<1>1. Put(m, k, m[k]) = [j \in DOMAIN m |-> m[j]]
  BY DEF Put
<1> QED
  BY <1>1 DEF IsMap

-----------------------------------------------------------------------------
(* ZADD.                                                                   *)

\* Those of the first i pairs that give member m a score.
PairsOf(args, i, m) == {j \in 1 .. i : args[2 * j + 1] = m}

\* The sorted set after the first i pairs.
After(old, args, i) ==
    [m \in DOMAIN old \cup {args[2 * j + 1] : j \in 1 .. i} |->
        IF PairsOf(args, i, m) = {} THEN old[m] ELSE Num(args[2 * Max(PairsOf(args, i, m))])]

\* z is that set, though it need not be a function.
Holds(z, old, args, i) ==
    DOMAIN z = DOMAIN After(old, args, i) /\ \A m \in DOMAIN z : z[m] = After(old, args, i)[m]

LEMMA AfterNone == ASSUME NEW old, NEW args PROVE Holds(old, old, args, 0)
<1>1. 1 .. 0 = {}
  OBVIOUS
<1>2. \A m : PairsOf(args, 0, m) = {}
  BY <1>1 DEF PairsOf
<1> QED
  BY <1>1, <1>2 DEF After, Holds

\* One more pair.
LEMMA AfterMore ==
    ASSUME NEW old, NEW args, NEW i \in Nat \ {0}, NEW z, Holds(z, old, args, i - 1)
    PROVE  After(old, args, i) = zset_add(z, Num(args[2 * i]), args[2 * i + 1])
<1> DEFINE a == args[2 * i + 1]
           v == Num(args[2 * i])
           s == After(old, args, i)
<1>1. 1 .. i = (1 .. i - 1) \cup {i} /\ i - 1 \in Nat
  OBVIOUS
<1>2. DOMAIN s = DOMAIN old \cup {args[2 * j + 1] : j \in 1 .. i}
  BY DEF After
<1>3. DOMAIN z = DOMAIN old \cup {args[2 * j + 1] : j \in 1 .. i - 1}
  BY DEF After, Holds
<1>4. DOMAIN s = DOMAIN z \cup {a}
  BY <1>1, <1>2, <1>3
<1>5. s[a] = v
  <2> DEFINE T == PairsOf(args, i, a)
  <2>1. i \in T /\ T \subseteq 0 .. i /\ \A y \in T : i >= y
    BY DEF PairsOf
  <2>2. T # {} /\ Max(T) = i
    <3> HIDE DEF T
    <3> QED
      BY <2>1, MaxOnly
  <2>3. a \in DOMAIN s
    BY <1>4
  <2> QED
    BY <2>2, <2>3 DEF After
<1>6. ASSUME NEW m \in DOMAIN s, m # a PROVE s[m] = z[m]
  <2>1. PairsOf(args, i, m) = PairsOf(args, i - 1, m)
    BY <1>1, <1>6 DEF PairsOf
  <2>2. m \in DOMAIN z
    BY <1>4, <1>6
  <2>3. z[m] = After(old, args, i - 1)[m] /\ m \in DOMAIN After(old, args, i - 1)
    BY <2>2 DEF Holds
  <2> QED
    BY <1>6, <2>1, <2>3 DEF After
<1>7. s = [m \in DOMAIN s |-> s[m]]
  BY DEF After
<1> HIDE DEF s, a, v
<1>8. s = [m \in DOMAIN z \cup {a} |-> IF m = a THEN v ELSE z[m]]
  BY <1>4, <1>5, <1>6, <1>7
<1> QED
  BY <1>8 DEF zset_add, Put, s, a, v

LEMMA FoldedPairs ==
    ASSUME NEW old, NEW args, NEW n \in Nat, NEW p, \A i \in 1 .. n : p[i] = <<args[2 * i], args[2 * i + 1]>>,
           NEW g, g = CHOOSE f : f = [i \in 0 .. n |-> IF i = 0 THEN old ELSE zset_add(f[i - 1], Num(p[i][1]), p[i][2])]
    PROVE  Holds(g[n], old, args, n)
<1> DEFINE E(f) == [i \in 0 .. n |-> IF i = 0 THEN old ELSE zset_add(f[i - 1], Num(p[i][1]), p[i][2])]
           w == [i \in 0 .. n |-> IF i = 0 THEN old ELSE After(old, args, i)]
<1>1. \A i \in 1 .. n : /\ i \in Nat \ {0} /\ i - 1 \in 0 .. n
                        /\ p[i][1] = args[2 * i] /\ p[i][2] = args[2 * i + 1]
  OBVIOUS
<1>2. ASSUME NEW i \in 1 .. n, NEW z, Holds(z, old, args, i - 1)
      PROVE  zset_add(z, Num(p[i][1]), p[i][2]) = After(old, args, i)
  BY <1>1, <1>2, AfterMore
<1>3. \A i \in 0 .. n : Holds(w[i], old, args, i)
  <2> SUFFICES ASSUME NEW i \in 0 .. n PROVE Holds(w[i], old, args, i)
    OBVIOUS
  <2>1. CASE i = 0
    BY <2>1, AfterNone
  <2>2. CASE i # 0
    BY <2>2 DEF Holds
  <2> QED
    BY <2>1, <2>2
<1>4. \A i \in 1 .. n : w[i] = zset_add(w[i - 1], Num(p[i][1]), p[i][2])
  <2> SUFFICES ASSUME NEW i \in 1 .. n PROVE w[i] = zset_add(w[i - 1], Num(p[i][1]), p[i][2])
    OBVIOUS
  <2>1. w[i] = After(old, args, i)
    OBVIOUS
  <2>2. Holds(w[i - 1], old, args, i - 1)
    BY <1>1, <1>3
  <2>3. PICK z : z = w[i - 1]
    OBVIOUS
  <2> HIDE DEF w
  <2>4. Holds(z, old, args, i - 1)
    BY <2>2, <2>3
  <2>5. zset_add(z, Num(p[i][1]), p[i][2]) = After(old, args, i)
    BY <1>2, <2>4
  <2> QED
    BY <2>1, <2>3, <2>5
<1>5. w = E(w)
  <2>1. w[0] = old /\ w = [i \in 0 .. n |-> w[i]]
    OBVIOUS
  <2> HIDE DEF w
  <2>2. \A i \in 0 .. n : w[i] = IF i = 0 THEN old ELSE zset_add(w[i - 1], Num(p[i][1]), p[i][2])
    <3>1. \A i \in 0 .. n : i # 0 => i \in 1 .. n
      OBVIOUS
    <3> QED
      BY <1>4, <2>1, <3>1, Zenon
  <2>3. [i \in 0 .. n |-> w[i]] = E(w)
    BY <2>2, Zenon
  <2> QED
    BY <2>1, <2>3, Zenon
<1>6. g = E(g)
  BY <1>5
<1> DEFINE G == {i \in 0 .. n : Holds(g[i], old, args, i)}
<1> HIDE DEF w
<1>7. g[0] = old /\ \A i \in 1 .. n : g[i] = zset_add(g[i - 1], Num(p[i][1]), p[i][2])
  <2>1. PICK h : h = E(g)
    OBVIOUS
  <2>2. h[0] = old /\ \A i \in 1 .. n : h[i] = zset_add(g[i - 1], Num(p[i][1]), p[i][2])
    BY <2>1
  <2> HIDE DEF E
  <2>3. h = g
    BY <1>6, <2>1
  <2> QED
    BY <2>2, <2>3
<1>8. 0 \in G
  BY <1>7, AfterNone
<1>9. \A i \in 1 .. n : i - 1 \in G => i \in G
  <2> SUFFICES ASSUME NEW i \in 1 .. n, i - 1 \in G PROVE i \in G
    OBVIOUS
  <2>1. g[i] = After(old, args, i)
    BY <1>2, <1>7
  <2>2. Holds(g[i], old, args, i)
    BY <2>1 DEF Holds
  <2> QED
    BY <2>2
<1>10. n \in 0 .. n
  OBVIOUS
<1>11. n \in G
  <2> HIDE DEF G
  <2>1. \A i \in 0 .. n : i \in G
    BY <1>8, <1>9, Upwards
  <2> QED
    BY <1>10, <2>1
<1> QED
  BY <1>11

LEMMA Halves == \A i \in Nat : i % 2 = 0 => \E k \in Nat : i = 2 * k
<1> SUFFICES ASSUME NEW i \in Nat, i % 2 = 0 PROVE \E k \in Nat : i = 2 * k
  OBVIOUS
<1>1. i \div 2 \in Nat /\ i = 2 * (i \div 2)
  OBVIOUS
<1> QED
  BY <1>1

LEMMA OddHalf ==
    ASSUME NEW L \in Nat, L >= 3, L % 2 = 1
    PROVE  \E N \in Nat : L = 2 * N + 1 /\ (L - 1) \div 2 = N
<1>1. L \div 2 \in Nat /\ L = 2 * (L \div 2) + 1 /\ (L - 1) \div 2 = L \div 2
  OBVIOUS
<1> QED
  BY <1>1

\* The loop stops at the first score that is no number.
LEMMA AddedKeeps ==
    ASSUME NEW args, NEW L \in Nat, L = Len(args), L >= 3, L % 2 = 1, NEW o
    PROVE  KeepsParsed(Val(o), Added(o, args), args)
<1>1. PICK N \in Nat : L = 2 * N + 1 /\ (L - 1) \div 2 = N
  BY OddHalf
<1> DEFINE p   == Pairs(args)
           bad == {i \in DOMAIN p : ~IsNum(p[i][1])}
           old == Val(o)
           n   == IF bad = {} THEN Len(p) ELSE Min(bad) - 1
           g   == CHOOSE f : f = [i \in 0 .. n |-> IF i = 0 THEN old ELSE zset_add(f[i - 1], Num(p[i][1]), p[i][2])]
<1>2. Added(o, args) = g[n]
  BY DEF Added
<1> HIDE DEF p, n
<1>3. /\ DOMAIN p = 1 .. N /\ p \in Seq({p[i] : i \in 1 .. N}) /\ Len(p) = N
      /\ \A i \in 1 .. N : p[i] = <<args[2 * i], args[2 * i + 1]>>
  <2>1. p = [i \in 1 .. N |-> <<args[2 * i], args[2 * i + 1]>>]
    BY <1>1 DEF p, Pairs
  <2>2. DOMAIN p = 1 .. N /\ \A i \in 1 .. N : p[i] = <<args[2 * i], args[2 * i + 1]>>
    BY <2>1
  <2> DEFINE T == {p[i] : i \in 1 .. N}
  <2>3. p \in [1 .. N -> T]
    BY <2>1
  <2>4. p \in Seq(T)
    <3> HIDE DEF T
    <3> QED
      BY <2>3
  <2>5. Len(p) = N
    BY <2>2, <2>4, LenProperties
  <2> QED
    BY <2>2, <2>4, <2>5
<1>4. n = IF bad = {} THEN Len(p) ELSE Min(bad) - 1
  BY DEF n
<1>5. \A i \in 1 .. N : p[i][1] = args[2 * i]
  BY <1>3
<1>6. /\ n \in 0 .. N /\ \A i \in 1 .. n : IsNum(args[2 * i])
      /\ n < N => ~IsNum(args[2 * (n + 1)])
  <2>1. bad \subseteq Nat /\ bad \subseteq 1 .. N
    BY <1>3
  <2>2. \A i \in 1 .. N : i \notin bad => IsNum(args[2 * i])
    BY <1>3, <1>5
  <2>3. \A i \in bad : ~IsNum(args[2 * i])
    BY <1>3, <1>5
  <2> HIDE DEF bad
  <2>4. CASE bad = {}
    <3>1. n = N
      BY <1>3, <1>4, <2>4
    <3>2. \A i \in 1 .. n : IsNum(args[2 * i])
      BY <2>2, <2>4, <3>1
    <3> QED
      BY <3>1, <3>2
  <2>5. CASE bad # {}
    <3>1. Min(bad) \in bad /\ \A y \in bad : Min(bad) <= y
      BY <2>1, <2>5, MinIs
    <3>2. PICK b \in 1 .. N : b = Min(bad)
      BY <2>1, <3>1
    <3>3. n = b - 1 /\ n \in 0 .. N /\ n + 1 = b
      BY <1>4, <2>5, <3>2
    <3>4. ASSUME NEW i \in 1 .. n PROVE i \in 1 .. N /\ i \notin bad
      <4>1. i \in bad => b <= i
        BY <3>1, <3>2
      <4>2. i \in 1 .. N /\ ~(b <= i)
        BY <3>3
      <4> QED
        BY <4>1, <4>2
    <3>5. \A i \in 1 .. n : IsNum(args[2 * i])
      BY <2>2, <3>4
    <3>6. ~IsNum(args[2 * (n + 1)])
      BY <2>3, <3>1, <3>2, <3>3
    <3> QED
      BY <3>3, <3>5, <3>6
  <2> QED
    BY <2>4, <2>5
<1>7. Holds(Added(o, args), old, args, n)
  <2>1. n \in Nat /\ \A i \in 1 .. n : p[i] = <<args[2 * i], args[2 * i + 1]>>
    BY <1>3, <1>6
  <2>2. Holds(g[n], old, args, n)
    BY <2>1, FoldedPairs
  <2> QED
    BY <1>2, <2>2
<1>8. Parsed(args) = {2 * j : j \in 1 .. n}
  <2>1. ASSUME NEW i \in Parsed(args) PROVE \E j \in 1 .. n : i = 2 * j
    <3>1. i \in 1 .. L /\ i % 2 = 0 /\ \A j \in 1 .. i : j % 2 = 0 => IsNum(args[j])
      BY DEF Parsed
    <3>2. PICK k \in Nat : i = 2 * k
      BY <3>1, Halves
    <3>3. k \in 1 .. N
      BY <1>1, <3>1, <3>2
    <3>4. ASSUME k > n PROVE FALSE
      <4>1. n < N /\ 2 * (n + 1) \in 1 .. i /\ (2 * (n + 1)) % 2 = 0
        BY <1>6, <3>2, <3>3, <3>4
      <4> QED
        BY <1>6, <3>1, <4>1
    <3> QED
      BY <1>6, <3>2, <3>3, <3>4
  <2>2. ASSUME NEW j \in 1 .. n PROVE 2 * j \in Parsed(args)
    <3>1. 2 * j \in 1 .. L /\ (2 * j) % 2 = 0
      BY <1>1, <1>6
    <3>2. ASSUME NEW i \in 1 .. 2 * j, i % 2 = 0 PROVE IsNum(args[i])
      <4>1. PICK k \in Nat : i = 2 * k
        BY <3>2, Halves
      <4>2. k \in 1 .. n
        BY <1>6, <4>1
      <4> QED
        BY <1>6, <4>1, <4>2
    <3> QED
      BY <3>1, <3>2 DEF Parsed
  <2> QED
    BY <2>1, <2>2
<1> DEFINE pairs(m) == {i \in Parsed(args) : args[i + 1] = m}
<1>9. {args[i + 1] : i \in Parsed(args)} = {args[2 * j + 1] : j \in 1 .. n}
  BY <1>8
<1>10. ASSUME NEW m
       PROVE  IF pairs(m) = {} THEN PairsOf(args, n, m) = {}
              ELSE PairsOf(args, n, m) # {} /\ Max(pairs(m)) = 2 * Max(PairsOf(args, n, m))
  <2> DEFINE T == PairsOf(args, n, m)
             U == pairs(m)
  <2>1. T \subseteq 0 .. n /\ n \in Nat
    BY <1>6 DEF PairsOf
  <2>2. U = {2 * j : j \in T}
    BY <1>8 DEF PairsOf
  <2> HIDE DEF T, U
  <2>3. CASE T # {}
    <3>1. PICK x \in T : x = Max(T) /\ \A y \in T : x >= y
      BY <2>1, <2>3, MaxIs
    <3>2. 2 * x \in U /\ 2 * n \in Nat
      BY <2>1, <2>2
    <3>3. U \subseteq 0 .. 2 * n
      BY <2>1, <2>2
    <3>4. \A y \in U : 2 * x >= y
      BY <2>1, <2>2, <3>1
    <3>5. Max(U) = 2 * x
      BY <3>2, <3>3, <3>4, MaxOnly
    <3> QED
      BY <2>3, <3>1, <3>2, <3>5 DEF T, U
  <2>4. CASE T = {}
    BY <2>2, <2>4 DEF T, U
  <2> QED
    BY <2>3, <2>4
<1>11. PICK z : z = Added(o, args)
  OBVIOUS
<1>12. DOMAIN z = DOMAIN old \cup {args[i + 1] : i \in Parsed(args)}
  BY <1>7, <1>9, <1>11 DEF Holds, After
<1>13. ASSUME NEW m \in DOMAIN z
       PROVE  z[m] = IF pairs(m) = {} THEN old[m] ELSE Num(args[Max(pairs(m))])
  <2>1. z[m] = IF PairsOf(args, n, m) = {} THEN old[m] ELSE Num(args[2 * Max(PairsOf(args, n, m))])
    BY <1>7, <1>11 DEF Holds, After
  <2> HIDE DEF pairs, old
  <2> QED
    BY <1>10, <2>1
<1> QED
  BY <1>11, <1>12, <1>13 DEF KeepsParsed

-----------------------------------------------------------------------------
(* Objects of another type.                                                *)

\* The outcome out of a command on an object it cannot use.
Unused(out, name, o) ==
    /\ out.obj = o
    /\ out.status \in Failures \/ (name \in {"ZADD", "ZREM"} /\ out.val = Integer(0))

LEMMA OutIs ==
    ASSUME NEW o, NEW st, NEW v
    PROVE  Out(o, st, v).obj = o /\ Out(o, st, v).status = st /\ Out(o, st, v).val = v
  BY DEF Out

LEMMA OtherTypeUnused ==
    ASSUME NEW name \in Commands \ {"SET"}, NEW o, NEW args, Type(o) # TypeOf(name)
    PROVE  Unused(Effect(name, o, args), name, o)
<1> USE OutIs DEF Unused, Failures
<1>1. ASSUME NEW v PROVE /\ WrapError(o).obj = o /\ WrapError(o).status \in Failures
                         /\ RuntimeError(o).obj = o /\ RuntimeError(o).status \in Failures
                         /\ Throws(o).obj = o /\ Throws(o).status \in Failures
                         /\ Ok(o, v).obj = o /\ Ok(o, v).val = v
  BY DEF WrapError, RuntimeError, Throws, Ok
<1>2. CASE name = "GET"
  BY <1>1, <1>2 DEF Effect, Is, TypeOf
<1>3. CASE name = "INCRBY"
  BY <1>1, <1>3 DEF Effect, Is, TypeOf, Incrby
<1>4. CASE name = "HSET"
  BY <1>1, <1>4 DEF Effect, Is, TypeOf, Hset
<1>5. CASE name = "HGET"
  BY <1>1, <1>5 DEF Effect, Is, TypeOf, Hget
<1>6. CASE name = "HDEL"
  BY <1>1, <1>6 DEF Effect, Is, TypeOf, Hdel
<1>7. CASE name = "HMSET"
  BY <1>1, <1>7 DEF Effect, Is, TypeOf, Hmset
<1>8. CASE name = "HMGET"
  BY <1>1, <1>8 DEF Effect, Is, TypeOf, Hmget
<1>9. CASE name = "ZADD"
  BY <1>1, <1>9 DEF Effect, Is, TypeOf, Zadd
<1>10. CASE name = "ZSCORE"
  BY <1>1, <1>10 DEF Effect, Is, TypeOf, Zscore
<1>11. CASE name = "ZINCRBY"
  BY <1>1, <1>11 DEF Effect, Is, TypeOf, Zincrby
<1>12. CASE name = "ZREM"
  BY <1>1, <1>12 DEF Effect, Is, TypeOf, Zrem
<1>13. CASE name = "LPUSH"
  BY <1>1, <1>13 DEF Effect, Is, TypeOf, Lpush, Pushed
<1>14. CASE name = "RPUSH"
  BY <1>1, <1>14 DEF Effect, Is, TypeOf, Rpush, Pushed
<1>15. CASE name = "LPOP"
  BY <1>1, <1>15 DEF Effect, Is, TypeOf, Lpop
<1>16. CASE name = "RPOP"
  BY <1>1, <1>16 DEF Effect, Is, TypeOf, Rpop
<1>17. CASE name = "LINDEX"
  BY <1>1, <1>17 DEF Effect, Is, TypeOf, Lindex
<1>18. CASE name = "LLEN"
  BY <1>1, <1>18 DEF Effect, Is, TypeOf, Llen
<1>19. CASE name = "LRANGE"
  BY <1>1, <1>19 DEF Effect, Is, TypeOf, Lrange
<1> QED
  BY <1>2, <1>3, <1>4, <1>5, <1>6, <1>7, <1>8, <1>9, <1>10, <1>11, <1>12, <1>13, <1>14, <1>15, <1>16, <1>17, <1>18, <1>19 DEF Commands

-----------------------------------------------------------------------------
(* Commands that fail.                                                     *)

\* What a failed command makes of o: nothing, ZADD excepted.
FailsWith(out, name, o, args) ==
    out.status \in Failures =>
        out.obj = o \/ (name = "ZADD" /\ out.obj = Obj("SORTED_SET", Added(o, args)))

LEMMA FailureLeaves ==
    ASSUME NEW name \in Commands, NEW o, NEW args
    PROVE  FailsWith(Effect(name, o, args), name, o, args)
<1> USE OutIs DEF FailsWith, Failures
<1>1. /\ WrapError(o).obj = o /\ RuntimeError(o).obj = o /\ Throws(o).obj = o
      /\ \A q, v : Ok(q, v).status \notin Failures
  BY DEF WrapError, RuntimeError, Throws, Ok
<1>2. CASE name = "SET"
  BY <1>1, <1>2 DEF Effect
<1>3. CASE name = "GET"
  BY <1>1, <1>3 DEF Effect
<1>4. CASE name = "INCRBY"
  BY <1>1, <1>4 DEF Effect, Incrby
<1>5. CASE name = "HSET"
  BY <1>1, <1>5 DEF Effect, Hset
<1>6. CASE name = "HGET"
  BY <1>1, <1>6 DEF Effect, Hget
<1>7. CASE name = "HDEL"
  BY <1>1, <1>7 DEF Effect, Hdel
<1>8. CASE name = "HMSET"
  BY <1>1, <1>8 DEF Effect, Hmset
<1>9. CASE name = "HMGET"
  BY <1>1, <1>9 DEF Effect, Hmget
<1>10. CASE name = "ZADD"
  <2>1. \A q : RuntimeError(q).obj = q
    BY DEF RuntimeError
  <2> QED
    BY <1>1, <1>10, <2>1 DEF Effect, Zadd
<1>11. CASE name = "ZSCORE"
  BY <1>1, <1>11 DEF Effect, Zscore
<1>12. CASE name = "ZINCRBY"
  BY <1>1, <1>12 DEF Effect, Zincrby
<1>13. CASE name = "ZREM"
  BY <1>1, <1>13 DEF Effect, Zrem
<1>14. CASE name = "LPUSH"
  BY <1>1, <1>14 DEF Effect, Lpush, Pushed
<1>15. CASE name = "RPUSH"
  BY <1>1, <1>15 DEF Effect, Rpush, Pushed
<1>16. CASE name = "LPOP"
  BY <1>1, <1>16 DEF Effect, Lpop
<1>17. CASE name = "RPOP"
  BY <1>1, <1>17 DEF Effect, Rpop
<1>18. CASE name = "LINDEX"
  BY <1>1, <1>18 DEF Effect, Lindex
<1>19. CASE name = "LLEN"
  BY <1>1, <1>19 DEF Effect, Llen
<1>20. CASE name = "LRANGE"
  BY <1>1, <1>20 DEF Effect, Lrange
<1> QED
  BY <1>2, <1>3, <1>4, <1>5, <1>6, <1>7, <1>8, <1>9, <1>10, <1>11, <1>12, <1>13, <1>14, <1>15, <1>16, <1>17, <1>18, <1>19, <1>20 DEF Commands

\* On the object it has just created, a command fails for a number it cannot parse and nothing else.
LEMMA CreatedFails ==
    ASSUME NEW name \in Creating, NEW args, Effect(name, New(TypeOf(name)), args).status \in Failures
    PROVE  name \in {"INCRBY", "ZADD", "ZINCRBY"}
<1> USE OutIs DEF Failures
<1>1. \A q, v : Ok(q, v).status \notin Failures
  BY DEF Ok
<1>2. name # "SET"
  BY <1>1 DEF Effect
<1>3. ASSUME name \in {"HSET", "HMSET"} PROVE FALSE
  <2>1. Is(New(TypeOf(name)), "HASH")
    BY <1>3 DEF New, TypeOf, NewHash, Obj, Is, Type
  <2>2. CASE name = "HSET"
    BY <1>1, <2>1, <2>2 DEF Effect, Hset
  <2>3. CASE name = "HMSET"
    BY <1>1, <2>1, <2>3 DEF Effect, Hmset
  <2> QED
    BY <1>3, <2>2, <2>3
<1>4. ASSUME name \in {"LPUSH", "RPUSH"} PROVE FALSE
  <2>1. Is(New(TypeOf(name)), "LIST")
    BY <1>4 DEF New, TypeOf, NewList, Obj, Is, Type
  <2>2. CASE name = "LPUSH"
    BY <1>1, <2>1, <2>2 DEF Effect, Lpush, Pushed
  <2>3. CASE name = "RPUSH"
    BY <1>1, <2>1, <2>3 DEF Effect, Rpush, Pushed
  <2> QED
    BY <1>4, <2>2, <2>3
<1> QED
  BY <1>2, <1>3, <1>4 DEF Creating

\* ZADD keeps the pairs before the score that stops it.
LEMMA ZaddKeeps ==
    ASSUME NEW o, Is(o, "SORTED_SET"), NEW args, Len(args) \in Nat, ArgsOk("ZADD", Len(args))
    PROVE  LET new == Effect("ZADD", o, args).obj
           IN  Type(new) = "SORTED_SET" /\ KeepsParsed(Val(o), Val(new), args)
<1>1. Effect("ZADD", o, args).obj = Obj("SORTED_SET", Added(o, args))
  BY OutIs DEF Effect, Zadd, Ok, RuntimeError
<1>2. Len(args) >= 3 /\ Len(args) % 2 = 1
  BY DEF ArgsOk
<1>3. KeepsParsed(Val(o), Added(o, args), args)
  BY <1>2, AddedKeeps
<1> QED
  BY <1>1, <1>3 DEF Obj, Type, Val

-----------------------------------------------------------------------------
(* What the parser returns.                                                *)

LEMMA ParserMin ==
    ASSUME NEW T, T \subseteq Nat, T # {} PROVE Resp!Min(T) \in T /\ \A y \in T : Resp!Min(T) <= y
  BY Least DEF Resp!Min

LEMMA ParserMax ==
    ASSUME NEW n \in Nat, NEW T, T \subseteq 0 .. n, T # {} PROVE Resp!Max(T) \in T
<1>1. Resp!Max(T) = Max(T)
  BY DEF Resp!Max, Max
<1> QED
  BY <1>1, MaxIs

ValueOf(d) == CHOOSE v \in 0 .. 9 : Resp!Digits[v + 1] = d

LEMMA DigitNat == ASSUME NEW d, Resp!IsDigit(d) PROVE ValueOf(d) \in Nat
<1>1. \E v \in 0 .. 9 : Resp!Digits[v + 1] = d
  <2>1. Resp!Digits[1] = "0" /\ Resp!Digits[2] = "1" /\ Resp!Digits[3] = "2" /\ Resp!Digits[4] = "3"
        /\ Resp!Digits[5] = "4" /\ Resp!Digits[6] = "5" /\ Resp!Digits[7] = "6" /\ Resp!Digits[8] = "7"
        /\ Resp!Digits[9] = "8" /\ Resp!Digits[10] = "9"
    BY DEF Resp!Digits
  <2>2. d \in {"0", "1", "2", "3", "4", "5", "6", "7", "8", "9"}
    BY DEF Resp!IsDigit
  <2>3. \E u \in 1 .. 10 : Resp!Digits[u] = d
    BY <2>1, <2>2
  <2>4. PICK u \in 1 .. 10 : Resp!Digits[u] = d
    BY <2>3
  <2>5. u - 1 \in 0 .. 9 /\ (u - 1) + 1 = u
    OBVIOUS
  <2> QED
    BY <2>4, <2>5
<1>2. ValueOf(d) \in 0 .. 9
  BY <1>1, Zenon DEF ValueOf
<1> QED
  BY <1>2

\* std::stoi of a line that begins with a digit.
LEMMA StoiNat ==
    ASSUME NEW B, NEW line \in Seq(B), Resp!IsNumber(line)
    PROVE  Resp!stoi(line) \in Nat
<1> DEFINE T == {i \in 1 .. Len(line) : \A j \in 1 .. i : Resp!IsDigit(line[j])}
           n == Resp!Max(T)
           E(f) == [i \in 0 .. n |-> IF i = 0 THEN 0 ELSE 10 * f[i - 1] + ValueOf(line[i])]
           g == CHOOSE f : f = E(f)
<1>1. Resp!stoi(line) = g[n]
  BY DEF Resp!stoi, ValueOf
<1>2. n \in 1 .. Len(line) /\ \A j \in 1 .. n : Resp!IsDigit(line[j])
  <2>1. Len(line) \in Nat /\ Len(line) >= 1 /\ Resp!IsDigit(line[1])
    BY EmptySeq, LenProperties DEF Resp!IsNumber
  <2>2. 1 \in T
    BY <2>1
  <2>3. T \subseteq 0 .. Len(line)
    BY <2>1
  <2>4. n \in T
    <3> HIDE DEF T
    <3> QED
      BY <2>1, <2>2, <2>3, ParserMax
  <2> HIDE DEF n
  <2> QED
    BY <2>4
<1> HIDE DEF n
<1>3. \A i \in 1 .. n : ValueOf(line[i]) \in Nat
  <2> SUFFICES ASSUME NEW i \in 1 .. n PROVE ValueOf(line[i]) \in Nat
    OBVIOUS
  <2>1. Resp!IsDigit(line[i])
    BY <1>2
  <2> QED
    BY <2>1, DigitNat
<1>4. PICK f \in [0 .. n -> Nat] : f[0] = 0 /\ \A i \in 1 .. n : f[i] = 10 * f[i - 1] + ValueOf(line[i])
  <2> DEFINE step == [x \in (1 .. n) \X Nat |-> 10 * x[2] + ValueOf(line[x[1]])]
  <2>1. n \in Nat /\ step \in [(1 .. n) \X Nat -> Nat]
    BY <1>2, <1>3
  <2>2. \A i \in 1 .. n, k \in Nat : step[i, k] = 10 * k + ValueOf(line[i])
    OBVIOUS
  <2> HIDE DEF step
  <2>3. PICK f \in [0 .. n -> Nat] : f[0] = 0 /\ \A i \in 1 .. n : f[i] = step[i, f[i - 1]]
    <3>1. Solved(n, Nat, 0, step, n)
      BY <2>1, Recursion
    <3> QED
      BY <3>1 DEF Solved
  <2>4. \A i \in 1 .. n : f[i - 1] \in Nat
    BY <1>2
  <2> QED
    BY <2>2, <2>3, <2>4
<1>5. f = E(f)
  BY <1>4
<1>6. g = E(g)
  BY <1>5
<1> DEFINE G == {i \in 0 .. n : g[i] \in Nat}
<1> HIDE DEF g
<1>7. g[0] = 0 /\ \A i \in 1 .. n : g[i] = 10 * g[i - 1] + ValueOf(line[i])
  <2>1. PICK h : h = E(g)
    OBVIOUS
  <2>2. h[0] = 0 /\ \A i \in 1 .. n : h[i] = 10 * g[i - 1] + ValueOf(line[i])
    BY <1>2, <2>1
  <2> QED
    BY <1>6, <2>1, <2>2
<1>8. n \in Nat /\ n \in 0 .. n /\ 0 \in G
  BY <1>2, <1>7
<1>9. ASSUME NEW i \in 1 .. n, i - 1 \in G PROVE i \in G
  <2>1. g[i] = 10 * g[i - 1] + ValueOf(line[i]) /\ g[i - 1] \in Nat /\ ValueOf(line[i]) \in Nat
    BY <1>3, <1>7, <1>9
  <2> QED
    BY <2>1
<1>10. n \in G
  <2> HIDE DEF G
  <2> QED
    BY <1>8, <1>9, Upwards
<1> QED
  BY <1>1, <1>10

\* The line behind a byte p that is not its end.
LEMMA LineIs ==
    ASSUME NEW B, NEW buffer \in Seq(B), NEW p \in 1 .. Len(buffer) + 1, buffer[p] # "CR",
           Resp!LineEnds(buffer, p) # {}
    PROVE  /\ Resp!Min(Resp!LineEnds(buffer, p)) \in p + 1 .. Len(buffer) - 1
           /\ Resp!Line(buffer, p + 1) \in Seq(B)
<1> DEFINE T   == Resp!LineEnds(buffer, p)
           end == Resp!Min(T)
<1>1. Len(buffer) \in Nat /\ p \in Nat
  BY LenProperties
<1>2. T \subseteq p + 1 .. Len(buffer) - 1 /\ T \subseteq Nat /\ Resp!LineEnds(buffer, p + 1) = T
  <2>1. \A i \in T : i # p
    BY DEF Resp!LineEnds
  <2>2. \A i \in T : i \in p + 1 .. Len(buffer) - 1
    BY <1>1, <2>1 DEF Resp!LineEnds
  <2>3. \A i \in T : i \in Resp!LineEnds(buffer, p + 1)
    BY <2>2 DEF Resp!LineEnds
  <2>4. \A i \in Resp!LineEnds(buffer, p + 1) : i \in T
    BY <1>1 DEF Resp!LineEnds
  <2> QED
    BY <1>1, <2>2, <2>3, <2>4
<1> HIDE DEF T
<1>3. end \in p + 1 .. Len(buffer) - 1
  <2>1. end \in T
    BY <1>2, ParserMin DEF T
  <2> QED
    BY <1>2, <2>1
<1>4. SubSeq(buffer, p + 1, end - 1) \in Seq(B)
  <2>1. p + 1 \in Int /\ end - 1 \in Int /\ \A i \in p + 1 .. end - 1 : i \in 1 .. Len(buffer)
    BY <1>1, <1>3
  <2>2. \A i \in p + 1 .. end - 1 : buffer[i] \in B
    BY <2>1, ElementOfSeq
  <2> QED
    BY <2>1, <2>2, SubSeqProperties
<1> QED
  BY <1>2, <1>3, <1>4 DEF T, Resp!Line

\* What the loop of the parser may have reached in a buffer of bytes B.
States(B, buffer) ==
    [status : {"SUCCESS", "INCOMPLETE", "ERROR"}, pos : 1 .. Len(buffer) + 1, tokens : Seq(Seq(B))]

\* A round takes no more than there is.
LEMMA ElementKeeps ==
    ASSUME NEW B, NEW buffer \in Seq(B), NEW st \in States(B, buffer)
    PROVE  Resp!Element(buffer, st) \in States(B, buffer)
<1> DEFINE T    == Resp!LineEnds(buffer, st.pos)
           end  == Resp!Min(T)
           line == Resp!Line(buffer, st.pos + 1)
           len  == Resp!stoi(line)
           new  == Resp!At("SUCCESS", end + 2 + len + 2,
                           Append(st.tokens, SubSeq(buffer, end + 2, end + 2 + len - 1)))
           failed(s) == Resp!At(s, st.pos, <<>>)
<1>1. Len(buffer) \in Nat /\ st.pos \in 1 .. Len(buffer) + 1 /\ st.tokens \in Seq(Seq(B))
  BY LenProperties DEF States
<1>2. \/ Resp!Element(buffer, st) = st
      \/ Resp!Element(buffer, st) \in {failed("INCOMPLETE"), failed("ERROR")}
      \/ /\ Resp!Element(buffer, st) = new
         /\ buffer[st.pos] = "$" /\ T # {} /\ Resp!IsNumber(line)
         /\ ~(end + 2 + len + 1 > Len(buffer))
  <2> HIDE DEF T, end, line, len
  <2>1. Resp!Element(buffer, st) =
          IF st.status # "SUCCESS" THEN st
          ELSE IF st.pos > Len(buffer) THEN failed("INCOMPLETE")
          ELSE IF buffer[st.pos] # "$" THEN failed("ERROR")
          ELSE IF T = {} THEN failed("INCOMPLETE")
          ELSE IF ~Resp!IsNumber(line) THEN failed("ERROR")
          ELSE IF end + 2 + len + 1 > Len(buffer) THEN failed("INCOMPLETE")
          ELSE new
    BY DEF Resp!Element, T, end, line, len
  <2> QED
    BY <2>1
<1>3. \A s \in {"INCOMPLETE", "ERROR"} : failed(s) \in States(B, buffer)
  BY <1>1, EmptySeq DEF Resp!At, States
<1>4. ASSUME buffer[st.pos] = "$", T # {}, Resp!IsNumber(line), ~(end + 2 + len + 1 > Len(buffer))
      PROVE  new \in States(B, buffer)
  <2>1. end \in st.pos + 1 .. Len(buffer) - 1 /\ line \in Seq(B)
    BY <1>1, <1>4, LineIs
  <2>2. len \in Nat
    <3> HIDE DEF line
    <3> QED
      BY <1>4, <2>1, StoiNat
  <2> HIDE DEF T, end, line, len
  <2>3. SubSeq(buffer, end + 2, end + 2 + len - 1) \in Seq(B)
    <3>1. /\ end + 2 \in Int /\ end + 2 + len - 1 \in Int
          /\ \A i \in end + 2 .. end + 2 + len - 1 : i \in 1 .. Len(buffer)
      BY <1>1, <1>4, <2>1, <2>2
    <3>2. \A i \in end + 2 .. end + 2 + len - 1 : buffer[i] \in B
      BY <3>1, ElementOfSeq
    <3> QED
      BY <3>1, <3>2, SubSeqProperties
  <2>4. end + 2 + len + 2 \in 1 .. Len(buffer) + 1
    BY <1>1, <1>4, <2>1, <2>2
  <2>5. Append(st.tokens, SubSeq(buffer, end + 2, end + 2 + len - 1)) \in Seq(Seq(B))
    BY <1>1, <2>3, AppendProperties
  <2> QED
    BY <2>4, <2>5 DEF Resp!At, States
<1> QED
  BY <1>2, <1>3, <1>4

\* All rounds.
LEMMA ElementsIn ==
    ASSUME NEW B, NEW buffer \in Seq(B), buffer # <<>>, buffer[1] = "*",
           Resp!LineEnds(buffer, 1) # {}, Resp!IsNumber(Resp!Line(buffer, 2))
    PROVE  Resp!Elements(buffer) \in States(B, buffer)
<1> DEFINE S == States(B, buffer)
           n == Resp!stoi(Resp!Line(buffer, 2))
           end  == Resp!Min(Resp!LineEnds(buffer, 1))
           base == Resp!At("SUCCESS", end + 2, <<>>)
           E(f) == [i \in 0 .. n |->
                       IF i = 0 THEN base
                       ELSE CHOOSE st \in {Resp!Element(buffer, before) : before \in {f[i - 1]}} : TRUE]
           g == CHOOSE f : f = E(f)
<1>1. Resp!Elements(buffer) = g[n]
  BY DEF Resp!Elements
<1>2. /\ Len(buffer) \in Nat /\ 1 \in 1 .. Len(buffer) + 1
      /\ end \in 2 .. Len(buffer) - 1 /\ Resp!Line(buffer, 2) \in Seq(B)
  <2>1. Len(buffer) \in Nat /\ 1 \in 1 .. Len(buffer) + 1
    BY LenProperties
  <2>2. end \in 1 + 1 .. Len(buffer) - 1 /\ Resp!Line(buffer, 1 + 1) \in Seq(B)
    BY <2>1, LineIs
  <2> QED
    BY <2>1, <2>2
<1>3. n \in Nat
  BY <1>2, StoiNat
<1>4. base \in S
  BY <1>2, EmptySeq DEF Resp!At, States
<1> HIDE DEF n, base
<1>5. \A x : (CHOOSE st \in {Resp!Element(buffer, before) : before \in {x}} : TRUE) = Resp!Element(buffer, x)
  OBVIOUS
<1>6. \A x \in S : Resp!Element(buffer, x) \in S
  BY ElementKeeps
<1> HIDE DEF S
<1>7. PICK f \in [0 .. n -> S] : f[0] = base /\ \A i \in 1 .. n : f[i] = Resp!Element(buffer, f[i - 1])
  <2> DEFINE step == [x \in (1 .. n) \X S |-> Resp!Element(buffer, x[2])]
  <2>1. step \in [(1 .. n) \X S -> S]
    BY <1>6
  <2>2. \A i \in 1 .. n, x \in S : step[i, x] = Resp!Element(buffer, x)
    OBVIOUS
  <2> HIDE DEF step
  <2>3. PICK f \in [0 .. n -> S] : f[0] = base /\ \A i \in 1 .. n : f[i] = step[i, f[i - 1]]
    <3>1. Solved(n, S, base, step, n)
      BY <1>3, <1>4, <2>1, Recursion
    <3> QED
      BY <3>1 DEF Solved
  <2>4. \A i \in 1 .. n : f[i - 1] \in S
    BY <1>3
  <2> QED
    BY <2>2, <2>3, <2>4
<1>8. f = E(f)
  <2>1. \A i \in 0 .. n : i = 0 \/ i \in 1 .. n
    BY <1>3
  <2>2. \A i \in 0 .. n : f[i] = IF i = 0 THEN base
            ELSE CHOOSE st \in {Resp!Element(buffer, before) : before \in {f[i - 1]}} : TRUE
    BY <1>5, <1>7, <2>1, Zenon
  <2>3. f = [i \in 0 .. n |-> f[i]]
    OBVIOUS
  <2> QED
    BY <2>2, <2>3, Zenon
<1>9. g = E(g)
  BY <1>8, Zenon
<1> HIDE DEF g
<1>10. g[0] = base /\ \A i \in 1 .. n : g[i] = Resp!Element(buffer, g[i - 1])
  <2>1. 0 \in 0 .. n /\ \A i \in 1 .. n : i \in 0 .. n /\ i # 0
    BY <1>3
  <2>2. PICK h : h = E(g)
    OBVIOUS
  <2>3. h[0] = base /\ \A i \in 1 .. n : h[i] = Resp!Element(buffer, g[i - 1])
    BY <1>5, <2>1, <2>2, Zenon
  <2> HIDE DEF E
  <2> QED
    BY <1>9, <2>2, <2>3
<1> DEFINE G == {i \in 0 .. n : g[i] \in S}
<1>11. n \in 0 .. n /\ 0 \in G
  BY <1>3, <1>4, <1>10
<1>12. ASSUME NEW i \in 1 .. n, i - 1 \in G PROVE i \in G
  BY <1>3, <1>6, <1>10, <1>12
<1>13. n \in G
  <2> HIDE DEF G
  <2> QED
    BY <1>3, <1>11, <1>12, Upwards
<1> QED
  BY <1>1, <1>13 DEF S

\* A command and what it took of the buffer.
LEMMA ParseGives ==
    ASSUME NEW B, NEW buffer \in Seq(B), NEW r, r = Resp!parse(buffer), r.status = "SUCCESS"
    PROVE  r.bytes_read \in Nat /\ r.bytes_read <= Len(buffer) /\ r.cmd.args \in Seq(Seq(B))
<1>1. Len(buffer) \in Nat
  BY LenProperties
<1>2. Resp!Failed("INCOMPLETE").status # "SUCCESS" /\ Resp!Failed("ERROR").status # "SUCCESS"
  BY DEF Resp!Failed
<1>3. /\ buffer # <<>> /\ buffer[1] = "*" /\ Resp!LineEnds(buffer, 1) # {} /\ Resp!IsNumber(Resp!Line(buffer, 2))
      /\ r = CHOOSE q \in {Resp!Outcome(all) : all \in {Resp!Elements(buffer)}} : TRUE
  BY <1>2 DEF Resp!parse
<1>4. r = Resp!Outcome(Resp!Elements(buffer))
  BY <1>3
<1>5. PICK all \in States(B, buffer) : r = Resp!Outcome(all)
  BY <1>3, <1>4, ElementsIn
<1>6. all.status = "SUCCESS" /\ all.tokens # <<>>
  BY <1>2, <1>5 DEF Resp!Outcome, Resp!Failed
<1>7. r.bytes_read = all.pos - 1 /\ r.cmd.args = Tail(all.tokens)
  BY <1>5, <1>6 DEF Resp!Outcome
<1>8. all.pos \in 1 .. Len(buffer) + 1 /\ all.tokens \in Seq(Seq(B))
  BY DEF States
<1> QED
  BY <1>1, <1>6, <1>7, <1>8, HeadTailProperties

-----------------------------------------------------------------------------
(* Steps.                                                                  *)

\* A command of the right form, and what it does.
Executes(cmd) ==
    /\ Name(cmd) \in Commands /\ ArgsOk(Name(cmd), Len(cmd.args))
    /\ reply' = [cmd |-> cmd, status |-> outcome(cmd).status, val |-> outcome(cmd).val]
    /\ memtable' = IF Name(cmd) \in Creating \/ KeyOf(cmd) \in DOMAIN memtable
                   THEN Put(memtable, KeyOf(cmd), outcome(cmd).obj) ELSE memtable

\* Any other.
Refuses(cmd) ==
    /\ reply'.cmd = cmd
    /\ Name(cmd) \notin Commands \/ reply'.status = "INVALID_ARGS"
    /\ reply'.status # "SUCCESS"
    /\ memtable' = memtable

LEMMA ExecuteIs ==
    ASSUME NEW cmd, execute_command_internal(cmd) PROVE Executes(cmd) \/ Refuses(cmd)
  BY DEF execute_command_internal, Executes, Refuses

\* The commands a step may execute.
Due(cmd) ==
    \/ cmd \in session.direct
    \/ \E r : r = Resp!parse(rx_buffer) /\ r.status = "SUCCESS" /\ cmd = r.cmd

LEMMA NextExecutes ==
    ASSUME [Next]_vars
    PROVE  \/ UNCHANGED <<memtable, reply>>
           \/ \E cmd : Due(cmd) /\ (Executes(cmd) \/ Refuses(cmd))
<1>1. CASE \E cmd \in session.direct : running /\ RunCmdDirect(cmd)
  BY <1>1, ExecuteIs DEF RunCmdDirect, Due
<1>2. CASE \/ \E cmd \in session.wire : running /\ Send(cmd)
           \/ running /\ SendInline
           \/ running /\ Receive
  BY <1>2 DEF Send, SendInline, Receive
<1>3. CASE RunCmdWire
  BY <1>3, ExecuteIs DEF RunCmdWire, AnswersCommand, AnswersError, Due
<1>4. CASE UNCHANGED vars
  BY <1>4 DEF vars
<1> QED
  BY <1>1, <1>2, <1>3, <1>4 DEF Next

LEMMA InitMap == Init => IsMap(memtable)
  BY DEF Init, IsMap

LEMMA NextMap == IsMap(memtable) /\ [Next]_vars => IsMap(memtable)'
<1> SUFFICES ASSUME IsMap(memtable), [Next]_vars PROVE IsMap(memtable')
  OBVIOUS
<1> QED
  BY NextExecutes, PutMap DEF Executes, Refuses

LEMMA MapInvariance == Spec => []IsMap(memtable)
  BY InitMap, NextMap, PTL DEF Spec

-----------------------------------------------------------------------------
(* What is on the connection.                                              *)

\* The bytes that clients send: those of words, lengths, and what is between them.
Bytes == STRING \cup {ToString(n) : n \in Nat} \cup {"CR", "LF", "*", "$", "PING"}

LEMMA FlattenIs ==
    ASSUME NEW B, NEW seqs \in Seq(Seq(B)), seqs # <<>> PROVE FlattenSeq(seqs) \in Seq(B)
<1> DEFINE n == Len(seqs)
           S == Seq(B)
           C(x, y) == x \o y
           E(f) == [i \in 1 .. n |-> IF i = 1 THEN seqs[i] ELSE C(f[i - 1], seqs[i])]
           g == CHOOSE f : f = E(f)
<1>1. n \in Nat \ {0} /\ \A i \in 1 .. n : seqs[i] \in S
  BY EmptySeq, ElementOfSeq
<1>2. FlattenSeq(seqs) = g[n]
  BY <1>1 DEF FlattenSeq
<1>3. \A x, y \in S : C(x, y) \in S
  BY ConcatProperties
<1>4. <<>> \in S
  BY EmptySeq
<1> HIDE DEF n, S, C
<1>5. PICK h \in [0 .. n -> S] :
        \A i \in 1 .. n : h[i] = IF i = 1 THEN seqs[i] ELSE C(h[i - 1], seqs[i])
  <2> DEFINE step == [x \in (1 .. n) \X S |-> IF x[1] = 1 THEN seqs[x[1]] ELSE C(x[2], seqs[x[1]])]
  <2>1. n \in Nat /\ step \in [(1 .. n) \X S -> S]
    BY <1>1, <1>3
  <2>2. \A i \in 1 .. n, x \in S : step[i, x] = IF i = 1 THEN seqs[i] ELSE C(x, seqs[i])
    OBVIOUS
  <2> HIDE DEF step
  <2>3. PICK h \in [0 .. n -> S] : h[0] = <<>> /\ \A i \in 1 .. n : h[i] = step[i, h[i - 1]]
    <3>1. Solved(n, S, <<>>, step, n)
      BY <1>4, <2>1, Recursion
    <3> QED
      BY <3>1 DEF Solved
  <2>4. \A i \in 1 .. n : h[i - 1] \in S
    BY <1>1
  <2> QED
    BY <2>2, <2>3, <2>4
<1> DEFINE w == [i \in 1 .. n |-> h[i]]
<1>6. \A i \in 1 .. n : w[i] = IF i = 1 THEN seqs[i] ELSE C(w[i - 1], seqs[i])
  <2>1. \A i \in 1 .. n : i # 1 => i - 1 \in 1 .. n
    BY <1>1
  <2> QED
    BY <1>5, <2>1
<1>7. w = E(w)
  <2>1. w = [i \in 1 .. n |-> w[i]]
    OBVIOUS
  <2> HIDE DEF w
  <2> QED
    BY <1>6, <2>1
<1>8. g = E(g)
  BY <1>7, Zenon
<1> HIDE DEF g
<1>9. \A i \in 1 .. n : g[i] = IF i = 1 THEN seqs[i] ELSE C(g[i - 1], seqs[i])
  <2>1. PICK f : f = E(g)
    OBVIOUS
  <2>2. \A i \in 1 .. n : f[i] = IF i = 1 THEN seqs[i] ELSE C(g[i - 1], seqs[i])
    BY <2>1
  <2> HIDE DEF E
  <2> QED
    BY <1>8, <2>1, <2>2
<1> DEFINE G == {i \in 0 .. n : i = 0 \/ g[i] \in S}
<1>10. n \in Nat /\ n \in 0 .. n /\ n # 0 /\ 0 \in G
  BY <1>1
<1>11. ASSUME NEW i \in 1 .. n, i - 1 \in G PROVE i \in G
  <2>1. CASE i = 1
    <3>1. i \in 0 .. n /\ g[i] = seqs[i] /\ seqs[i] \in S
      BY <1>1, <1>9, <2>1
    <3> QED
      BY <3>1
  <2>2. CASE i # 1
    <3>1. g[i - 1] \in S /\ seqs[i] \in S /\ g[i] = C(g[i - 1], seqs[i])
      BY <1>1, <1>9, <1>11, <2>2
    <3> QED
      BY <1>3, <3>1
  <2> QED
    BY <2>1, <2>2
<1>12. n \in G
  <2> HIDE DEF G
  <2> QED
    BY <1>10, <1>11, Upwards
<1> QED
  BY <1>2, <1>10, <1>12 DEF S

LEMMA Short == ASSUME NEW B, NEW s \in B, NEW t \in B PROVE <<s>> \in Seq(B) /\ <<s, t>> \in Seq(B)
  OBVIOUS

LEMMA Symbols ==
    /\ <<"PING">> \in Seq(Bytes) /\ Resp!CRLF \in Seq(Bytes)
    /\ \A n \in Nat : <<"$", ToString(n)>> \in Seq(Bytes) /\ <<"*", ToString(n)>> \in Seq(Bytes)
<1>1. /\ "CR" \in Bytes /\ "LF" \in Bytes /\ "*" \in Bytes /\ "$" \in Bytes /\ "PING" \in Bytes
      /\ \A n \in Nat : ToString(n) \in Bytes
  BY DEF Bytes
<1> QED
  BY <1>1, Short DEF Resp!CRLF

LEMMA EncodedIs == ASSUME NEW cmd \in Command PROVE Encoded(cmd) \in Seq(Bytes)
<1> DEFINE tokens == <<cmd.name>> \o cmd.args
           parts  == [i \in DOMAIN tokens |-> Element(tokens[i])]
<1>1. \A x, y \in Seq(Bytes) : x \o y \in Seq(Bytes)
  BY ConcatProperties
<1>2. Resp!CRLF \in Seq(Bytes)
  BY Symbols
<1>3. \A n \in Nat : <<"$", ToString(n)>> \in Seq(Bytes) /\ <<"*", ToString(n)>> \in Seq(Bytes)
  BY Symbols
<1>4. ASSUME NEW w \in Seq(STRING) PROVE Element(w) \in Seq(Bytes)
  <2>1. Len(w) \in Nat /\ w \in Seq(Bytes)
    BY LenProperties DEF Bytes
  <2>2. <<"$", ToString(Len(w))>> \o Resp!CRLF \in Seq(Bytes)
    BY <1>1, <1>2, <1>3, <2>1
  <2>3. <<"$", ToString(Len(w))>> \o Resp!CRLF \o w \in Seq(Bytes)
    BY <1>1, <2>1, <2>2
  <2>4. <<"$", ToString(Len(w))>> \o Resp!CRLF \o w \o Resp!CRLF \in Seq(Bytes)
    BY <1>1, <1>2, <2>3
  <2> QED
    BY <2>4 DEF Element
<1>5. /\ tokens \in Seq(Seq(STRING)) /\ Len(tokens) \in Nat /\ Len(tokens) # 0
      /\ DOMAIN tokens = 1 .. Len(tokens)
  <2>1. cmd.args \in Seq(Seq(STRING)) /\ <<cmd.name>> \in Seq(Seq(STRING)) /\ Len(<<cmd.name>>) = 1
    BY DEF Command
  <2> QED
    BY <2>1, ConcatProperties, LenProperties
<1> HIDE DEF tokens
<1>6. parts \in Seq(Seq(Bytes)) /\ parts # <<>>
  <2>1. \A i \in 1 .. Len(tokens) : tokens[i] \in Seq(STRING)
    BY <1>5, ElementOfSeq
  <2>2. parts \in [1 .. Len(tokens) -> Seq(Bytes)]
    BY <1>4, <1>5, <2>1
  <2>3. parts \in Seq(Seq(Bytes))
    BY <1>5, <2>2, SeqDef
  <2>4. 1 \in DOMAIN parts /\ DOMAIN <<>> = {}
    BY <1>5
  <2> QED
    BY <2>3, <2>4
<1>7. FlattenSeq(parts) \in Seq(Bytes)
  BY <1>6, FlattenIs
<1>8. Encoded(cmd) = <<"*", ToString(Len(tokens))>> \o Resp!CRLF \o FlattenSeq(parts)
  BY DEF Encoded, tokens
<1> HIDE DEF parts
<1>9. <<"*", ToString(Len(tokens))>> \o Resp!CRLF \in Seq(Bytes)
  BY <1>1, <1>2, <1>3, <1>5
<1> QED
  BY <1>1, <1>7, <1>8, <1>9

WireOK == in_flight \in Seq(Bytes) /\ rx_buffer \in Seq(Bytes) /\ session \in Session

LEMMA InitWire == Init => WireOK
  BY DispatchAssumption, EmptySeq DEF Init, WireOK

LEMMA NextWire == WireOK /\ [Next]_vars => WireOK'
<1> SUFFICES ASSUME WireOK, [Next]_vars PROVE WireOK'
  OBVIOUS
<1> USE DEF WireOK
<1>1. \A x, y \in Seq(Bytes) : x \o y \in Seq(Bytes)
  BY ConcatProperties
<1>2. ASSUME NEW s \in Seq(Bytes), NEW a \in Nat, NEW b \in Nat, a >= 1, b <= Len(s)
      PROVE  SubSeq(s, a, b) \in Seq(Bytes)
  <2>1. a \in Int /\ b \in Int /\ \A i \in a .. b : i \in 1 .. Len(s)
    BY <1>2, LenProperties
  <2>2. \A i \in a .. b : s[i] \in Bytes
    BY <2>1, ElementOfSeq
  <2> QED
    BY <2>1, <2>2, SubSeqProperties
<1>3. Len(in_flight) \in Nat /\ Len(rx_buffer) \in Nat
  BY LenProperties
<1>4. ASSUME session.calls > 0, session' = [session EXCEPT !.calls = @ - 1] PROVE session' \in Session
  BY <1>4 DEF Session
<1>5. ASSUME NEW cmd \in session.direct, RunCmdDirect(cmd) PROVE WireOK'
  BY <1>4, <1>5 DEF RunCmdDirect
<1>6. ASSUME NEW cmd \in session.wire, Send(cmd) PROVE WireOK'
  <2>1. cmd \in Command
    BY <1>6 DEF Session
  <2> QED
    BY <1>1, <1>4, <1>6, <2>1, EncodedIs DEF Send
<1>7. CASE SendInline
  <2>1. <<"PING">> \in Seq(Bytes) /\ Resp!CRLF \in Seq(Bytes)
    BY Symbols
  <2> QED
    BY <1>1, <1>4, <1>7, <2>1 DEF SendInline
<1>8. CASE Receive
  <2>1. PICK n \in 1 .. Len(in_flight) :
          /\ rx_buffer' = rx_buffer \o SubSeq(in_flight, 1, n)
          /\ in_flight' = SubSeq(in_flight, n + 1, Len(in_flight))
    BY <1>8 DEF Receive
  <2>2. SubSeq(in_flight, 1, n) \in Seq(Bytes) /\ SubSeq(in_flight, n + 1, Len(in_flight)) \in Seq(Bytes)
    <3>1. n \in Nat /\ n <= Len(in_flight) /\ n + 1 \in Nat /\ n + 1 >= 1
      BY <1>3
    <3> QED
      BY <1>2, <1>3, <3>1
  <2> QED
    BY <1>1, <1>8, <2>1, <2>2 DEF Receive
<1>9. CASE RunCmdWire
  <2>1. PICK r : r = Resp!parse(rx_buffer) /\ (AnswersCommand(r) \/ AnswersError(r))
    BY <1>9 DEF RunCmdWire
  <2>2. CASE AnswersCommand(r)
    <3>1. r.bytes_read \in Nat
      BY <2>1, <2>2, ParseGives DEF AnswersCommand
    <3>2. SubSeq(rx_buffer, r.bytes_read + 1, Len(rx_buffer)) \in Seq(Bytes)
      BY <1>2, <1>3, <3>1
    <3> QED
      BY <2>2, <3>2 DEF AnswersCommand
  <2>3. CASE AnswersError(r)
    BY <2>3, EmptySeq DEF AnswersError
  <2> QED
    BY <2>1, <2>2, <2>3
<1>10. CASE UNCHANGED vars
  BY <1>10 DEF vars
<1> QED
  BY <1>5, <1>6, <1>7, <1>8, <1>9, <1>10 DEF Next

LEMMA WireInvariance == Spec => []WireOK
  BY InitWire, NextWire, PTL DEF Spec

\* Commands have arguments that can be counted.
LEMMA DueCounts == ASSUME WireOK, NEW cmd, Due(cmd) PROVE Len(cmd.args) \in Nat
<1>1. CASE cmd \in session.direct
  <2>1. cmd.args \in Seq(Seq(STRING))
    BY <1>1 DEF WireOK, Session, Command
  <2> QED
    BY <2>1, LenProperties
<1>2. CASE \E r : r = Resp!parse(rx_buffer) /\ r.status = "SUCCESS" /\ cmd = r.cmd
  <2>1. cmd.args \in Seq(Seq(Bytes))
    BY <1>2, ParseGives DEF WireOK
  <2> QED
    BY <2>1, LenProperties
<1> QED
  BY <1>1, <1>2 DEF Due

-----------------------------------------------------------------------------
(* The properties                                                          *)

\* The step of TypesKept.
TypesKeptStep ==
    \/ reply'.status = "INVALID_ARGS" \/ TheName \notin Commands
    \/ ~Found \/ Type(memtable[TheKey]) = TypeOf(TheName)
    \/ TheName = "SET"
    \/ /\ memtable' = memtable
       /\ \/ reply'.status \in Failures
          \/ TheName \in {"ZADD", "ZREM"} /\ reply'.val = Integer(0)

LEMMA StepKeepsTypes ==
    ASSUME IsMap(memtable), [Next]_vars
    PROVE  TypesKeptStep \/ UNCHANGED <<memtable, reply>>
<1> SUFFICES ASSUME NEW cmd, Executes(cmd) \/ Refuses(cmd) PROVE TypesKeptStep
  BY NextExecutes
<1>1. CASE Refuses(cmd)
  BY <1>1 DEF Refuses, TypesKeptStep, TheName
<1>2. CASE Executes(cmd)
  <2> DEFINE name == Name(cmd)
             key  == KeyOf(cmd)
             out  == outcome(cmd)
  <2>1. /\ name \in Commands /\ reply'.cmd = cmd /\ reply'.status = out.status /\ reply'.val = out.val
        /\ key \in DOMAIN memtable => memtable' = Put(memtable, key, out.obj)
    BY <1>2 DEF Executes
  <2>2. TheName = name /\ TheKey = key
    BY <2>1 DEF TheName, TheKey
  <2> SUFFICES ASSUME name # "SET", key \in DOMAIN memtable, Type(memtable[key]) # TypeOf(name)
               PROVE  TypesKeptStep
    BY <2>2 DEF TypesKeptStep, Found
  <2>3. out = Effect(name, memtable[key], cmd.args)
    BY DEF outcome, get_or_create
  <2>4. Unused(out, name, memtable[key])
    BY <2>1, <2>3, OtherTypeUnused
  <2> HIDE DEF name, key, out
  <2>5. memtable' = memtable
    BY <2>1, <2>4, PutSame DEF Unused
  <2> QED
    BY <2>1, <2>2, <2>4, <2>5 DEF Unused, TypesKeptStep
<1> QED
  BY <1>1, <1>2

\* The step of RepliesTellChange.
TellStep ==
    /\ reply'.status \in Failures =>
          \/ memtable' = memtable
          \/ /\ DOMAIN memtable' = DOMAIN memtable \cup {TheKey}
             /\ \A k \in DOMAIN memtable \ {TheKey} : memtable'[k] = memtable[k]
             /\ \/ TheName \in {"INCRBY", "ZINCRBY"} /\ ~Found /\ memtable'[TheKey] = New(TypeOf(TheName))
                \/ /\ TheName = "ZADD" /\ Type(memtable'[TheKey]) = "SORTED_SET"
                   /\ KeepsParsed(IF Found THEN Val(memtable[TheKey]) ELSE Val(NewZset),
                                  Val(memtable'[TheKey]), Args)
    /\ TheName = "ZREM" /\ reply'.status = "SUCCESS" /\ reply'.val # Integer(0) =>
          /\ reply'.val = Integer(Len(Args) - 1)
          /\ DOMAIN Val(memtable'[TheKey]) = DOMAIN Val(memtable[TheKey]) \ ToSet(Tail(Args))

\* The map p is m with v at k.
PutSays(m, k, v, p) ==
    /\ DOMAIN p = DOMAIN m \cup {k} /\ p[k] = v
    /\ \A j \in DOMAIN m \ {k} : p[j] = m[j]

LEMMA PutIs == ASSUME NEW m, NEW k, NEW v PROVE PutSays(m, k, v, Put(m, k, v))
  BY DEF Put, PutSays

LEMMA ExecutionTells ==
    ASSUME IsMap(memtable), NEW cmd, Len(cmd.args) \in Nat, Executes(cmd)
    PROVE  TellStep
<1> DEFINE name == Name(cmd)
           key  == KeyOf(cmd)
           out  == outcome(cmd)
           o    == get_or_create(key, TypeOf(name))
<1>1. /\ name \in Commands /\ ArgsOk(name, Len(cmd.args)) /\ reply'.cmd = cmd
      /\ reply'.status = out.status /\ reply'.val = out.val
      /\ memtable' = IF name \in Creating \/ key \in DOMAIN memtable THEN Put(memtable, key, out.obj) ELSE memtable
  BY DEF Executes
<1>2. /\ TheName = name /\ TheKey = key /\ Args = cmd.args
      /\ Found <=> key \in DOMAIN memtable
  BY <1>1 DEF TheName, TheKey, Args, Found
<1>3. name \in Creating \/ key \in DOMAIN memtable => out = Effect(name, o, cmd.args)
  BY DEF outcome, get_or_create
<1>4. name \notin Creating /\ key \notin DOMAIN memtable => out = Missing(name)
  BY DEF outcome
<1>5. /\ key \in DOMAIN memtable => o = memtable[key]
      /\ key \notin DOMAIN memtable => o = New(TypeOf(name))
  BY DEF get_or_create
<1> HIDE DEF name, key, out, o
<1>6. CASE out.status \in Failures
  <2>1. name # "ZREM" \/ reply'.status # "SUCCESS"
    BY <1>1, <1>6 DEF Failures
  <2>2. CASE name \notin Creating /\ key \notin DOMAIN memtable
    BY <1>1, <1>2, <2>1, <2>2 DEF TellStep
  <2>3. CASE name \in Creating \/ key \in DOMAIN memtable
    <3>1. out = Effect(name, o, cmd.args) /\ memtable' = Put(memtable, key, out.obj)
      BY <1>1, <1>3, <2>3
    <3>2. /\ DOMAIN memtable' = DOMAIN memtable \cup {key} /\ memtable'[key] = out.obj
          /\ \A k \in DOMAIN memtable \ {key} : memtable'[k] = memtable[k]
      <4>1. PutSays(memtable, key, out.obj, Put(memtable, key, out.obj))
        BY PutIs
      <4> QED
        BY <3>1, <4>1 DEF PutSays
    <3>3. CASE name = "ZADD" /\ Is(o, "SORTED_SET")
      <4>1. Type(out.obj) = "SORTED_SET" /\ KeepsParsed(Val(o), Val(out.obj), cmd.args)
        BY <1>1, <3>1, <3>3, ZaddKeeps
      <4>2. ~Found => o = NewZset
        BY <1>2, <1>5, <3>3 DEF New, TypeOf
      <4>3. Val(o) = IF Found THEN Val(memtable[key]) ELSE Val(NewZset)
        BY <1>2, <1>5, <4>2
      <4> QED
        BY <1>2, <2>1, <3>2, <3>3, <4>1, <4>3 DEF TellStep
    <3>4. CASE ~(name = "ZADD" /\ Is(o, "SORTED_SET"))
      <4>1. out.obj = o
        <5>1. CASE name = "ZADD"
          BY <3>1, <3>4, <5>1, OutIs DEF Effect, Zadd, Ok, RuntimeError
        <5>2. CASE name # "ZADD"
          BY <1>1, <1>6, <3>1, <5>2, FailureLeaves DEF FailsWith
        <5> QED
          BY <5>1, <5>2
      <4>2. CASE key \in DOMAIN memtable
        <5>1. memtable' = memtable
          BY <1>5, <3>1, <4>1, <4>2, PutSame
        <5> QED
          BY <1>2, <2>1, <5>1 DEF TellStep
      <4>3. CASE key \notin DOMAIN memtable
        <5>1. o = New(TypeOf(name)) /\ name \in Creating
          BY <1>5, <2>3, <4>3
        <5>2. name # "ZADD"
          <6>1. Is(New(TypeOf("ZADD")), "SORTED_SET")
            BY DEF New, TypeOf, NewZset, Obj, Is, Type
          <6> QED
            BY <3>4, <5>1, <6>1
        <5>3. name \in {"INCRBY", "ZINCRBY"}
          BY <1>6, <3>1, <5>1, <5>2, CreatedFails
        <5> QED
          BY <1>2, <2>1, <3>2, <4>1, <4>3, <5>1, <5>3 DEF TellStep
      <4> QED
        BY <4>2, <4>3
    <3> QED
      BY <3>3, <3>4
  <2> QED
    BY <2>2, <2>3
<1>7. CASE out.status \notin Failures
  <2> SUFFICES ASSUME name = "ZREM", out.val # Integer(0)
               PROVE  /\ out.val = Integer(Len(cmd.args) - 1)
                      /\ DOMAIN Val(memtable'[key]) = DOMAIN Val(memtable[key]) \ ToSet(Tail(cmd.args))
    BY <1>1, <1>2, <1>7 DEF TellStep
  <2>1. key \in DOMAIN memtable
    <3> SUFFICES ASSUME key \notin DOMAIN memtable PROVE FALSE
      OBVIOUS
    <3>1. out = Ok(Null, Integer(0))
      BY <1>4 DEF Missing, Creating
    <3> QED
      BY <3>1, OutIs DEF Ok
  <2>2. out = Zrem(o, cmd.args) /\ o = memtable[key] /\ memtable'[key] = out.obj
    <3>1. out = Effect(name, o, cmd.args) /\ o = memtable[key] /\ memtable' = Put(memtable, key, out.obj)
      BY <1>1, <1>3, <1>5, <2>1
    <3>2. PutSays(memtable, key, out.obj, Put(memtable, key, out.obj))
      BY PutIs
    <3> QED
      BY <3>1, <3>2 DEF PutSays, Effect
  <2>3. Is(o, "SORTED_SET")
    BY <2>2, OutIs DEF Zrem, Ok
  <2>4. out = Ok(Obj("SORTED_SET", zset_remove(Val(o), ToSet(Tail(cmd.args)))), Integer(Len(cmd.args) - 1))
    BY <2>2, <2>3 DEF Zrem
  <2>5. out.val = Integer(Len(cmd.args) - 1) /\ Val(out.obj) = zset_remove(Val(o), ToSet(Tail(cmd.args)))
    BY <2>4, OutIs DEF Ok, Obj, Val
  <2> QED
    BY <2>2, <2>5 DEF zset_remove
<1> QED
  BY <1>6, <1>7

LEMMA StepTells ==
    ASSUME IsMap(memtable), \A cmd : Due(cmd) => Len(cmd.args) \in Nat, [Next]_vars
    PROVE  TellStep \/ UNCHANGED <<memtable, reply>>
<1> SUFFICES ASSUME NEW cmd, Due(cmd), Executes(cmd) \/ Refuses(cmd) PROVE TellStep
  BY NextExecutes
<1>1. CASE Refuses(cmd)
  BY <1>1 DEF Refuses, TellStep
<1>2. CASE Executes(cmd)
  BY <1>2, ExecutionTells
<1> QED
  BY <1>1, <1>2

\* TypesKept.  No command but SET changes an object of another type than its own, and only ZADD
\* and ZREM do not say that they failed: for any keys, any width of numbers, any trees under
\* the hashes and whatever the parser takes for commands.
THEOREM TypesAreKept == Spec => TypesKept
<1>1. IsMap(memtable) /\ [Next]_vars => TypesKeptStep \/ UNCHANGED <<memtable, reply>>
  BY StepKeepsTypes
<1>2. IsMap(memtable) /\ [Next]_vars => [TypesKeptStep]_<<memtable, reply>>
  BY <1>1
<1>3. Spec => [][TypesKeptStep]_<<memtable, reply>>
  BY <1>2, MapInvariance, PTL DEF Spec
<1> QED
  BY <1>3 DEF TypesKept, TypesKeptStep

\* RepliesTellChange.  What a reply says of the data holds whatever the objects are, for any
\* number of arguments and any bytes on the connection: a command that fails leaves no change but
\* the empty object and the pairs that ZADD could parse, and ZREM removes what it was given.
THEOREM RepliesTell == Spec => RepliesTellChange
<1>1. IsMap(memtable) /\ WireOK /\ [Next]_vars => TellStep \/ UNCHANGED <<memtable, reply>>
  BY StepTells, DueCounts
<1>2. IsMap(memtable) /\ WireOK /\ [Next]_vars => [TellStep]_<<memtable, reply>>
  BY <1>1
<1>3. Spec => [][TellStep]_<<memtable, reply>>
  BY <1>2, MapInvariance, WireInvariance, PTL DEF Spec
<1> QED
  BY <1>3 DEF RepliesTellChange, TellStep
=============================================================================
