---------------------------- MODULE WalReadable ----------------------------
(***************************************************************************)
(* Theorems about what read_record_at_lsn finds: every acknowledged row    *)
(* under its LSN, and no hole from the oldest segment on, for as long as   *)
(* the directory holds no segment after seg_9.                             *)
(***************************************************************************)
EXTENDS WalDurability

-----------------------------------------------------------------------------
(* What the directory is like.                                             *)

LsnOf(d, f, i) == d[f].frames[i].lsn

\* File f has a frame with LSN l.
HasLsn(d, f, l) == \E i : FrameIn(d, f, i) /\ LsnOf(d, f, i) = l

\* A file with frames has its header, and none of them lies below the file's base.
Based(d) == \A f, i : FrameIn(d, f, i) => HeadedIn(d, f) /\ f.base <= LsnOf(d, f, i)

\* A file leaves no LSN out between its base and any of its frames.
Gapless(d) ==
    \A f, i, l : FrameIn(d, f, i) /\ l \in f.base .. LsnOf(d, f, i) => HasLsn(d, f, l)

\* LSNs do not fall within a file.
InOrder(d) ==
    \A f, i, j : FrameIn(d, f, i) /\ FrameIn(d, f, j) /\ j <= i => LsnOf(d, f, j) <= LsnOf(d, f, i)

\* Headers give each segment id to one file, and LSNs do not fall from a segment to the next.
Ascending(d) ==
    /\ \A f, g : HeadedIn(d, f) /\ HeadedIn(d, g) /\ f.id = g.id => f = g
    /\ \A f, g, i, j : FrameIn(d, f, i) /\ FrameIn(d, g, j) /\ f.id < g.id
                         => LsnOf(d, f, i) <= LsnOf(d, g, j)

Chain(d) == Based(d) /\ Gapless(d) /\ InOrder(d) /\ Ascending(d)

\* From the base of any segment up to any frame there is a frame for every LSN.
NoHole(d) ==
    \A f, g, j, l :
       HeadedIn(d, f) /\ FrameIn(d, g, j) /\ l \in f.base .. LsnOf(d, g, j)
         => \E h : HasLsn(d, h, l)

-----------------------------------------------------------------------------
(* What the catalogue is like.                                             *)

\* The entry's file holds every LSN the entry claims, and it claims some.
Filled(d, e) ==
    /\ e.base_lsn <= e.last_lsn
    /\ \A l \in e.base_lsn .. e.last_lsn : HasLsn(d, e.file, l)

\* From any entry's base_lsn on, each LSN below n is claimed by some entry.
EntriesCover(list, n) ==
    \A e \in list : \A l \in e.base_lsn .. n - 1 : Covers(list, l) # {}

\* Every segment with a header has an entry from its base on.
HeadedListed(d, list) ==
    \A f : HeadedIn(d, f) => \E e \in list : e.file = f /\ e.base_lsn = f.base

\* The back entry reaches the end of the log and names the open file, if one is open.
BackIs(list, n, fd) ==
    /\ \A e \in list : IsBack(list, e) => n - 1 <= e.last_lsn /\ (fd # NoFile => e.file = fd)
    /\ fd # NoFile => \E e \in list : IsBack(list, e)

\* The segment append writes to, or will open.
Place == [id |-> segment_id, base |-> current_base_lsn]

\* The invariant of a WAL object.  Between a failed fsync of a rollover and the next append,
\* and after shutdown, a frame may carry next_lsn itself.
UpInv ==
    /\ active_fd # NoFile => active_fd = Place /\ HeadedIn(disk, Place)
    /\ FramesBelow(disk, next_lsn + 1)
    /\ \A f : HeadedIn(disk, f) /\ f.id = segment_id => f = Place
    /\ active_fd # NoFile \/ ~is_shutdown =>
         \A l \in current_base_lsn .. next_lsn - 1 : HasLsn(disk, Place, l)
    /\ \A e \in segment_list : Filled(disk, e)
    /\ "fsync" \notin Faults => \A e \in segment_list : e.last_lsn < next_lsn
    /\ EntriesCover(segment_list, next_lsn)
    /\ HeadedListed(disk, segment_list)
    /\ BackIs(segment_list, next_lsn, active_fd)

AckedKept == \A k \in acked \ pruned : \E f, i : RowIn(disk, f, i) /\ disk[f].frames[i].row = k

\* LInv holds along with the invariants of the modules this one extends.
BInv == RInv /\ UInv /\ HInv /\ OInv

LInv ==
    /\ Chain(disk)
    /\ up => UpInv
    /\ ~up => NoHole(disk)
    /\ AckedKept

\* No write and no power fails, the worker does not run where an fsync may fail, and nobody
\* calls checkpoint().
Supposed ==
    /\ Faults \subseteq {"fsync"}
    /\ "fsync" \notin Faults \/ ~PruneWorker
    /\ MaxCheckpoints = 0

LEMMA BaseInvariance == Supposed => (Spec => []BInv)
<1> SUFFICES ASSUME Supposed PROVE Spec => []BInv
  OBVIOUS
<1>1. RInv /\ IInv' /\ [Next]_vars => RInv'
  BY NextRInv DEF Supposed
<1>2. UInv /\ HInv /\ IInv' /\ [Next]_vars => UInv'
  BY NextUInv DEF Supposed
<1>3. Spec => []OInv
  BY OpenInvariance DEF Supposed
<1> QED
  BY <1>1, <1>2, <1>3, InitRInv, InitUInv, Invariance, HeadersInvariance, PTL DEF Spec, BInv

-----------------------------------------------------------------------------
(* Frames and LSNs.                                                        *)

LEMMA FrameLsn ==
    ASSUME NEW d, DiskType(d), NEW f, NEW i, FrameIn(d, f, i)
    PROVE  /\ LsnOf(d, f, i) \in Nat
           /\ i \in Nat /\ 1 <= i
           /\ f \in FileName /\ f.id \in Nat /\ f.base \in Nat
<1>1. f \in DOMAIN d /\ i \in DOMAIN d[f].frames /\ d[f].frames \in Seq(Frame)
  BY DEF FrameIn, Live, DiskType, File
<1>2. d[f].frames[i] \in Frame
  BY <1>1
<1>3. f \in FileName
  BY <1>1 DEF DiskType
<1> QED
  BY <1>1, <1>2, <1>3 DEF LsnOf, Frame, FileName

\* With the same frames, a directory has the same LSNs.
LEMMA SameFrames ==
    ASSUME NEW d, NEW e,
           \A f, i : FrameIn(e, f, i) <=> FrameIn(d, f, i),
           \A f, i : FrameIn(d, f, i) => e[f].frames[i] = d[f].frames[i]
    PROVE  /\ \A f, i : FrameIn(e, f, i) => LsnOf(e, f, i) = LsnOf(d, f, i)
           /\ \A f, l : HasLsn(e, f, l) <=> HasLsn(d, f, l)
           /\ \A f : HeadedIn(e, f) <=> HeadedIn(d, f)
           /\ Chain(d) => Chain(e)
           /\ NoHole(d) => NoHole(e)
<1>1. \A f, i : FrameIn(e, f, i) => LsnOf(e, f, i) = LsnOf(d, f, i)
  BY DEF LsnOf
<1>2. \A f, l : HasLsn(e, f, l) <=> HasLsn(d, f, l)
  BY <1>1 DEF HasLsn
<1>3. \A f : HeadedIn(e, f) <=> HeadedIn(d, f)
  BY DEF HeadedIn
<1>4. NoHole(d) => NoHole(e)
  BY <1>1, <1>2, <1>3 DEF NoHole
<1>5. Based(d) => Based(e)
  BY <1>1, <1>3 DEF Based
<1>6. Gapless(d) => Gapless(e)
  BY <1>1, <1>2 DEF Gapless
<1>7. InOrder(d) => InOrder(e)
  BY <1>1 DEF InOrder
<1>8. Ascending(d) => Ascending(e)
  BY <1>1, <1>3 DEF Ascending
<1> QED
  BY <1>1, <1>2, <1>3, <1>4, <1>5, <1>6, <1>7, <1>8 DEF Chain

-----------------------------------------------------------------------------
(* Writes.                                                                 *)

\* The frames of one write carry one LSN after the other.
Climbs(new, n) == \A k \in DOMAIN new : new[k].kind # "TORN" => new[k].lsn = n + k - 1

\* d is the directory after a write of append or shutdown, whole or cut short.
Extends(d, new) ==
    /\ DiskType(d)
    /\ new \in Seq(Frame) /\ Climbs(new, next_lsn)
    /\ Written(d, Place, new)
    /\ \A k \in DOMAIN new : k = 1 => HeadedIn(disk, Place) \/ new[k].kind \in {"HEADER", "TORN"}
    /\ active_fd # NoFile \/ ~is_shutdown \/ new = <<>>

\* Frame i of d was there before, with the same LSN; or it is one of the new ones.
WasThere(d, f, i) == FrameIn(disk, f, i) /\ LsnOf(d, f, i) = LsnOf(disk, f, i)
IsNew(d, f, i) ==
    /\ f = Place
    /\ i > Len(FramesOf(Place))
    /\ LsnOf(d, f, i) = next_lsn + (i - Len(FramesOf(Place))) - 1

LEMMA ExtendsFrames ==
    ASSUME BInv, NEW d, NEW new, Extends(d, new)
    PROVE  /\ Len(FramesOf(Place)) \in Nat
           /\ \A f, i : FrameIn(disk, f, i) => FrameIn(d, f, i) /\ LsnOf(d, f, i) = LsnOf(disk, f, i)
           /\ \A f, i : FrameIn(d, f, i) => WasThere(d, f, i) \/ IsNew(d, f, i)
           /\ \A i : FrameIn(disk, Place, i) => i <= Len(FramesOf(Place))
           /\ \A f : HeadedIn(disk, f) => HeadedIn(d, f)
<1> DEFINE L == Len(FramesOf(Place))
<1>1. DiskType(disk) /\ next_lsn \in Nat
  BY DEF BInv, OInv, CInv, IInv, TypeOK, CatalogueType
<1>2. FramesOf(Place) \in Seq(Frame)
  BY <1>1 DEF FramesOf, DiskType, File
<1>3. L \in Nat
  BY <1>2
<1>4. \A f, i : FrameIn(disk, f, i) => FrameIn(d, f, i) /\ LsnOf(d, f, i) = LsnOf(disk, f, i)
  BY DEF Extends, Written, LsnOf
<1>5. ASSUME NEW f, NEW i, FrameIn(d, f, i)
      PROVE  WasThere(d, f, i) \/ IsNew(d, f, i)
  <2>1. CASE FrameIn(disk, f, i)
    BY <1>4, <2>1 DEF WasThere
  <2>2. CASE ~FrameIn(disk, f, i)
    <3>1. f = Place
      BY <1>5, <2>2 DEF Extends, Written
    <3>2. PICK k \in DOMAIN new : i = L + k /\ d[f].frames[i] = new[k] /\ new[k].kind # "TORN"
      BY <1>5, <2>2 DEF Extends, Written
    <3>3. new[k].lsn = next_lsn + k - 1 /\ k \in Nat /\ k >= 1
      BY <3>2 DEF Extends, Climbs
    <3>4. LsnOf(d, f, i) = next_lsn + k - 1
      BY <3>2, <3>3 DEF LsnOf
    <3> HIDE DEF L
    <3>5. i - L = k /\ i > L
      BY <1>3, <3>2, <3>3
    <3> QED
      BY <3>1, <3>4, <3>5 DEF IsNew, L
  <2> QED
    BY <2>1, <2>2
<1>6. \A i : FrameIn(disk, Place, i) => i <= L
  BY <1>2 DEF FrameIn, Live, FramesOf
<1>7. \A f : HeadedIn(disk, f) => HeadedIn(d, f)
  BY DEF HeadedIn, Extends, Written
<1> QED
  BY <1>3, <1>4, <1>5, <1>6, <1>7

\* Below a new frame lie new frames, down to the first, and the file has its header.
LEMMA ExtendsNew ==
    ASSUME BInv, NEW d, NEW new, Extends(d, new), NEW i, FrameIn(d, Place, i),
           IsNew(d, Place, i)
    PROVE  /\ HeadedIn(d, Place)
           /\ new # <<>>
           /\ \A l \in next_lsn .. LsnOf(d, Place, i) : HasLsn(d, Place, l)
<1> DEFINE L == Len(FramesOf(Place))
<1>1. L \in Nat /\ next_lsn \in Nat /\ DiskType(d) /\ DiskType(disk)
  BY ExtendsFrames DEF BInv, OInv, CInv, IInv, TypeOK, CatalogueType, Extends
<1>2. i \in Nat /\ i >= 1 /\ \A j \in 1 .. i : FrameIn(d, Place, j)
  BY <1>1, FrameBefore
<1>3. i > L /\ LsnOf(d, Place, i) = next_lsn + (i - L) - 1
  BY DEF IsNew
<1>4. \A j : FrameIn(disk, Place, j) => j <= L
  BY ExtendsFrames
<1>5. ASSUME NEW j \in Nat, j > L, j <= i
      PROVE  FrameIn(d, Place, j) /\ LsnOf(d, Place, j) = next_lsn + (j - L) - 1
  <2>1. j \in 1 .. i
    BY <1>1, <1>2, <1>5
  <2>2. FrameIn(d, Place, j)
    BY <1>2, <2>1
  <2>3. ~FrameIn(disk, Place, j)
    BY <1>1, <1>4, <1>5
  <2>4. IsNew(d, Place, j)
    BY <2>2, <2>3, ExtendsFrames DEF WasThere
  <2> QED
    BY <2>2, <2>4 DEF IsNew
<1>6. ASSUME NEW l \in next_lsn .. LsnOf(d, Place, i) PROVE HasLsn(d, Place, l)
  <2> DEFINE j == L + (l - next_lsn) + 1
  <2> HIDE DEF L
  <2>1. l \in Int /\ next_lsn <= l /\ l <= next_lsn + (i - L) - 1
    BY <1>1, <1>3, <1>6
  <2>2. j \in Nat /\ j > L /\ j <= i /\ next_lsn + (j - L) - 1 = l
    BY <1>1, <1>2, <2>1
  <2>3. FrameIn(d, Place, j) /\ LsnOf(d, Place, j) = l
    BY <1>5, <2>2
  <2> QED
    BY <2>3 DEF HasLsn
<1>7. \E k \in DOMAIN new : TRUE
  <2>1. ~FrameIn(disk, Place, i)
    BY <1>1, <1>2, <1>3, <1>4
  <2> QED
    BY <2>1 DEF Extends, Written
<1>8. HeadedIn(d, Place)
  <2>1. CASE HeadedIn(disk, Place)
    BY <2>1, ExtendsFrames
  <2>2. CASE ~HeadedIn(disk, Place)
    <3>1. FrameIn(d, Place, L + 1)
      BY <1>1, <1>2, <1>3, <1>5
    <3>2. ~FrameIn(disk, Place, L + 1)
      BY <1>1, <1>4
    <3>3. PICK k \in DOMAIN new :
            L + 1 = L + k /\ d[Place].frames[L + 1] = new[k] /\ new[k].kind # "TORN"
      BY <3>1, <3>2 DEF Extends, Written
    <3>4. k \in Nat
      BY DEF Extends
    <3>5. k = 1
      BY <1>1, <3>3, <3>4
    <3>6. new[k].kind = "HEADER"
      BY <2>2, <3>3, <3>5 DEF Extends
    <3> QED
      BY <3>1, <3>3, <3>6 DEF HeadedIn
  <2> QED
    BY <2>1, <2>2
<1>9. new # <<>>
  BY <1>7
<1> QED
  BY <1>6, <1>8, <1>9

\* The directory's shape survives any write.
LEMMA ExtendsChain ==
    ASSUME BInv, LInv, up, NEW d, NEW new, Extends(d, new)
    PROVE  Chain(d)
<1> DEFINE L == Len(FramesOf(Place))
           b == current_base_lsn
           n == next_lsn
           P == Place
<1>1. /\ L \in Nat /\ n \in Nat /\ b \in Nat /\ b <= n /\ segment_id \in Nat
      /\ DiskType(d) /\ DiskType(disk)
  BY ExtendsFrames DEF BInv, HInv, OInv, CInv, IInv, TypeOK, CatalogueType, Extends
<1>2. P.base = b /\ P.id = segment_id
  BY DEF Place
<1>3. Chain(disk) /\ UpInv
  BY DEF LInv
<1>4. \A f, i : FrameIn(disk, f, i) => LsnOf(disk, f, i) \in Nat /\ LsnOf(disk, f, i) <= n
  BY <1>1, <1>3, FrameLsn DEF UpInv, FramesBelow, LsnOf
<1>5. /\ \A f, i : FrameIn(d, f, i) => WasThere(d, f, i) \/ IsNew(d, f, i)
      /\ \A f, i : FrameIn(disk, f, i) => FrameIn(d, f, i) /\ LsnOf(d, f, i) = LsnOf(disk, f, i)
      /\ \A i : FrameIn(disk, P, i) => i <= L
      /\ \A f : HeadedIn(disk, f) => HeadedIn(d, f)
  BY ExtendsFrames
<1>6. \A f, i : IsNew(d, f, i) => f = P /\ i > L /\ LsnOf(d, f, i) = n + (i - L) - 1
  BY DEF IsNew
<1>7. \A f, l : HasLsn(disk, f, l) => HasLsn(d, f, l)
  BY <1>5 DEF HasLsn
<1>8. \A f, i : FrameIn(d, f, i) /\ IsNew(d, f, i) =>
         /\ f = P /\ HeadedIn(d, P) /\ new # <<>>
         /\ \A l \in n .. LsnOf(d, f, i) : HasLsn(d, P, l)
  BY <1>6, ExtendsNew
<1>9. new # <<>> => \A l \in b .. n - 1 : HasLsn(disk, P, l)
  BY <1>3 DEF UpInv, Extends
<1>10. \A f, i : FrameIn(d, f, i) => LsnOf(d, f, i) \in Nat /\ i \in Nat
  BY <1>1, FrameLsn
<1>11. \A f : HeadedIn(disk, f) => f.id \in Nat /\ f.id <= segment_id /\ (f.id = segment_id => f = P)
  BY <1>1, <1>3, HeadedNamed DEF UpInv, BInv, OInv
<1>12. \A f : HeadedIn(d, f) => HeadedIn(disk, f) \/ f = P
  BY <1>5, <1>6 DEF HeadedIn, WasThere, Extends, Written
<1> HIDE DEF L, b, n, P
<1>13. Based(d)
  <2> SUFFICES ASSUME NEW f, NEW i, FrameIn(d, f, i)
               PROVE  HeadedIn(d, f) /\ f.base <= LsnOf(d, f, i)
    BY DEF Based
  <2>1. CASE WasThere(d, f, i)
    BY <1>3, <1>5, <2>1 DEF WasThere, Chain, Based
  <2>2. CASE IsNew(d, f, i)
    <3>1. f = P /\ HeadedIn(d, P) /\ i > L /\ LsnOf(d, f, i) = n + (i - L) - 1 /\ i \in Nat
      BY <1>6, <1>8, <1>10, <2>2
    <3>2. n <= LsnOf(d, f, i)
      BY <1>1, <3>1
    <3> QED
      BY <1>1, <1>2, <1>10, <3>1, <3>2
  <2> QED
    BY <1>5, <2>1, <2>2
<1>14. Gapless(d)
  <2> SUFFICES ASSUME NEW f, NEW i, NEW l, FrameIn(d, f, i), l \in f.base .. LsnOf(d, f, i)
               PROVE  HasLsn(d, f, l)
    BY DEF Gapless
  <2>1. CASE WasThere(d, f, i)
    BY <1>3, <1>7, <2>1 DEF WasThere, Chain, Gapless
  <2>2. CASE IsNew(d, f, i)
    <3>1. f = P /\ new # <<>> /\ \A m \in n .. LsnOf(d, f, i) : HasLsn(d, P, m)
      BY <1>8, <2>2
    <3>2. l \in b .. n - 1 \/ l \in n .. LsnOf(d, f, i)
      BY <1>1, <1>2, <1>10, <3>1
    <3> QED
      BY <1>7, <1>9, <3>1, <3>2
  <2> QED
    BY <1>5, <2>1, <2>2
<1>15. InOrder(d)
  <2> SUFFICES ASSUME NEW f, NEW i, NEW j, FrameIn(d, f, i), FrameIn(d, f, j), j <= i
               PROVE  LsnOf(d, f, j) <= LsnOf(d, f, i)
    BY DEF InOrder
  <2>0. i \in Nat /\ j \in Nat
    BY <1>10
  <2>1. CASE WasThere(d, f, i) /\ WasThere(d, f, j)
    BY <1>3, <2>1 DEF WasThere, Chain, InOrder
  <2>2. CASE WasThere(d, f, j) /\ IsNew(d, f, i)
    <3>1. LsnOf(d, f, j) <= n /\ LsnOf(d, f, j) \in Nat
      BY <1>4, <2>2 DEF WasThere
    <3>2. i > L /\ LsnOf(d, f, i) = n + (i - L) - 1
      BY <1>6, <2>2
    <3> QED
      BY <1>1, <2>0, <3>1, <3>2
  <2>3. CASE IsNew(d, f, j) /\ WasThere(d, f, i)
    <3>1. j > L /\ i <= L
      BY <1>5, <1>6, <2>3 DEF WasThere
    <3> QED
      BY <1>1, <2>0, <3>1
  <2>4. CASE IsNew(d, f, i) /\ IsNew(d, f, j)
    <3>1. LsnOf(d, f, i) = n + (i - L) - 1 /\ LsnOf(d, f, j) = n + (j - L) - 1
      BY <1>6, <2>4
    <3> QED
      BY <1>1, <2>0, <3>1
  <2> QED
    BY <1>5, <2>1, <2>2, <2>3, <2>4
<1>16. Ascending(d)
  <2>1. ASSUME NEW f, NEW g, HeadedIn(d, f), HeadedIn(d, g), f.id = g.id
        PROVE  f = g
    BY <1>2, <1>3, <1>11, <1>12, <2>1 DEF Chain, Ascending
  <2>2. ASSUME NEW f, NEW g, NEW i, NEW j, FrameIn(d, f, i), FrameIn(d, g, j), f.id < g.id
        PROVE  LsnOf(d, f, i) <= LsnOf(d, g, j)
    <3>1. CASE WasThere(d, f, i) /\ WasThere(d, g, j)
      BY <1>3, <2>2, <3>1 DEF WasThere, Chain, Ascending
    <3>2. CASE WasThere(d, f, i) /\ IsNew(d, g, j)
      <4>1. LsnOf(d, f, i) <= n /\ LsnOf(d, f, i) \in Nat
        BY <1>4, <3>2 DEF WasThere
      <4>2. j > L /\ LsnOf(d, g, j) = n + (j - L) - 1 /\ j \in Nat
        BY <1>6, <1>10, <2>2, <3>2
      <4> QED
        BY <1>1, <4>1, <4>2
    <3>3. CASE IsNew(d, f, i)
      <4>1. f.id = segment_id
        BY <1>2, <1>6, <3>3
      <4>2. HeadedIn(d, g)
        BY <1>13, <2>2 DEF Based
      <4>3. g.id \in Nat /\ g.id <= segment_id
        BY <1>1, <1>2, <1>11, <1>12, <4>2
      <4> QED
        BY <1>1, <2>2, <4>1, <4>3
    <3> QED
      BY <1>5, <2>2, <3>1, <3>2, <3>3
  <2> QED
    BY <2>1, <2>2 DEF Ascending
<1> QED
  BY <1>13, <1>14, <1>15, <1>16 DEF Chain

\* A write cut short leaves no hole: below next_lsn the catalogue covers the log, and what a
\* write adds goes on from there.
LEMMA ExtendsNoHole ==
    ASSUME BInv, LInv, up, NEW d, NEW new, Extends(d, new)
    PROVE  NoHole(d)
<1> DEFINE b == current_base_lsn
           n == next_lsn
           P == Place
<1>1. /\ n \in Nat /\ b \in Nat /\ b <= n /\ DiskType(d) /\ DiskType(disk)
  BY DEF BInv, HInv, OInv, CInv, IInv, TypeOK, CatalogueType, Extends
<1>2. P.base = b
  BY DEF Place
<1>3. Chain(d) /\ UpInv
  BY ExtendsChain DEF LInv
<1>4. /\ \A f, i : FrameIn(d, f, i) => WasThere(d, f, i) \/ IsNew(d, f, i)
      /\ \A f, i : FrameIn(disk, f, i) => FrameIn(d, f, i) /\ LsnOf(d, f, i) = LsnOf(disk, f, i)
  BY ExtendsFrames
<1>5. \A f, l : HasLsn(disk, f, l) => HasLsn(d, f, l)
  BY <1>4 DEF HasLsn
<1> SUFFICES ASSUME NEW f, NEW g, NEW j, NEW l, HeadedIn(d, f), FrameIn(d, g, j),
                    l \in f.base .. LsnOf(d, g, j)
             PROVE  \E h : HasLsn(d, h, l)
  BY DEF NoHole
<1>6. LsnOf(d, g, j) \in Nat /\ f.base \in Nat
  BY <1>1, FrameLsn, HeadedNamed DEF FileName
<1>7. CASE l < n
  <2>1. CASE HeadedIn(disk, f)
    <3>1. PICK e \in segment_list : e.file = f /\ e.base_lsn = f.base
      BY <1>3, <2>1 DEF UpInv, HeadedListed
    <3>2. l \in e.base_lsn .. n - 1
      BY <1>1, <1>6, <1>7, <3>1
    <3>3. PICK c \in segment_list : c.base_lsn <= l /\ l <= c.last_lsn
      BY <1>3, <3>2 DEF UpInv, EntriesCover, Covers, n
    <3>4. c.base_lsn \in Int /\ c.last_lsn \in Int /\ l \in Int
      BY <1>6 DEF BInv, OInv, CInv, IInv, TypeOK, CatalogueType, ListType, SegmentInfo
    <3>5. HasLsn(disk, c.file, l)
      BY <1>3, <3>3, <3>4 DEF UpInv, Filled
    <3> QED
      BY <1>5, <3>5
  <2>2. CASE ~HeadedIn(disk, f)
    <3>1. f = P /\ new # <<>>
      BY <2>2 DEF HeadedIn, Extends, Written
    <3>2. \A m \in b .. n - 1 : HasLsn(disk, P, m)
      BY <1>3, <3>1 DEF UpInv, Extends
    <3>3. l \in b .. n - 1
      BY <1>1, <1>2, <1>6, <1>7, <3>1
    <3> QED
      BY <1>5, <3>1, <3>2, <3>3
  <2> QED
    BY <2>1, <2>2
<1>8. CASE l >= n
  <2>1. CASE WasThere(d, g, j)
    <3>1. LsnOf(d, g, j) < n + 1
      BY <1>3, <2>1 DEF UpInv, FramesBelow, WasThere, LsnOf
    <3>2. l = LsnOf(d, g, j)
      BY <1>1, <1>6, <1>8, <3>1
    <3> QED
      BY <3>2 DEF HasLsn
  <2>2. CASE IsNew(d, g, j)
    <3>1. g = P
      BY <2>2 DEF IsNew
    <3>2. l \in P.base .. LsnOf(d, P, j)
      BY <1>1, <1>2, <1>6, <1>8, <3>1
    <3> QED
      BY <1>3, <3>1, <3>2 DEF Chain, Gapless
  <2> QED
    BY <1>4, <2>1, <2>2
<1> QED
  BY <1>1, <1>6, <1>7, <1>8

-----------------------------------------------------------------------------
(* append.                                                                 *)

\* The frames of s carry n and the LSNs after it.
RunFrom(s, n) == \A j \in 1 .. Len(s) : s[j].lsn = n + j - 1

\* Two runs of LSNs, the second going on where the first ends, are one run.
LEMMA RunsJoin ==
    ASSUME NEW s \in Seq(Frame), NEW t \in Seq(Frame), NEW n \in Nat, NEW m \in Nat,
           RunFrom(s, n), RunFrom(t, m), m = n + Len(s)
    PROVE  /\ s \o t \in Seq(Frame) /\ Len(s \o t) = Len(s) + Len(t)
           /\ RunFrom(s \o t, n)
<1> DEFINE w == s \o t
<1>1. JoinOf(s, t, w)
  BY JoinFrames
<1> HIDE DEF w
<1>2. /\ w \in Seq(Frame) /\ Len(w) = Len(s) + Len(t)
      /\ Len(s) \in Nat /\ Len(t) \in Nat /\ Len(w) \in Nat
      /\ \A i \in 1 .. Len(s) : w[i] = s[i]
      /\ \A j \in 1 .. Len(t) : w[Len(s) + j] = t[j]
  BY <1>1 DEF JoinOf
<1>3. ASSUME NEW k \in 1 .. Len(w) PROVE w[k].lsn = n + k - 1
  <2>1. CASE k <= Len(s)
    <3>1. k \in 1 .. Len(s)
      BY <1>2, <2>1
    <3>2. w[k] = s[k]
      BY <1>2, <3>1
    <3> QED
      BY <3>1, <3>2 DEF RunFrom
  <2>2. CASE k > Len(s)
    <3>1. k - Len(s) \in 1 .. Len(t) /\ Len(s) + (k - Len(s)) = k
      BY <1>2, <2>2
    <3>2. w[k] = t[k - Len(s)]
      BY <1>2, <3>1
    <3>3. w[k].lsn = m + (k - Len(s)) - 1
      BY <3>1, <3>2 DEF RunFrom
    <3> QED
      BY <1>2, <3>3
  <2> QED
    BY <1>2, <2>1, <2>2
<1>4. RunFrom(w, n)
  BY <1>3 DEF RunFrom
<1> QED
  BY <1>2, <1>4 DEF w

\* A frame that goes on where a run ends, and a run behind it.
LEMMA RunAroundFrame ==
    ASSUME NEW a \in Seq(Frame), NEW r \in Frame, NEW c \in Seq(Frame),
           NEW n \in Nat, NEW m \in Nat, m = n + Len(a),
           RunFrom(a, n), r.lsn = m, RunFrom(c, m + 1)
    PROVE  /\ Len(a \o <<r>> \o c) = Len(a) + 1 + Len(c)
           /\ Climbs(a \o <<r>> \o c, n)
<1> DEFINE b == <<r>>
           p == a \o b
           w == p \o c
<1>1. b \in Seq(Frame) /\ Len(b) = 1 /\ b[1] = r
  OBVIOUS
<1> HIDE DEF b
<1>2. RunFrom(b, m)
  <2>1. \A j \in 1 .. 1 : j = 1
    OBVIOUS
  <2>2. m + 1 - 1 = m
    OBVIOUS
  <2> QED
    BY <1>1, <2>1, <2>2 DEF RunFrom
<1>3. p \in Seq(Frame) /\ Len(p) = Len(a) + 1 /\ RunFrom(p, n)
  BY <1>1, <1>2, RunsJoin
<1> HIDE DEF p
<1>4. m + 1 = n + Len(p) /\ m + 1 \in Nat
  BY <1>3
<1>5. w \in Seq(Frame) /\ Len(w) = Len(p) + Len(c) /\ RunFrom(w, n)
  BY <1>3, <1>4, RunsJoin
<1> HIDE DEF w
<1>6. Len(w) = Len(a) + 1 + Len(c)
  BY <1>3, <1>5
<1>7. Climbs(w, n)
  <2>1. DOMAIN w = 1 .. Len(w)
    BY <1>5
  <2> QED
    BY <1>5, <2>1 DEF Climbs, RunFrom
<1> QED
  BY <1>6, <1>7 DEF w, p, b

\* The header, the row and the seal of one append carry one LSN after the other.
LEMMA AppendClimbs ==
    ASSUME "write" \notin Faults, IInv, NEW o, o = AfterOpen("ok"),
           NEW seal \in {<<>>, <<Fr("SEAL", o.lsn + 1, 0)>>},
           NEW w, w = o.wrote \o <<Row(o.lsn)>> \o seal
    PROVE  /\ Climbs(w, next_lsn)
           /\ next_lsn + Len(w) - 1 = o.lsn + Len(seal)
           /\ o.lsn \in Nat /\ next_lsn <= o.lsn /\ Len(seal) \in {0, 1}
<1> DEFINE n == next_lsn
           r == Row(o.lsn)
<1>1. WriteOutcome = {"ok"} /\ \A fr : Bytes(fr, "ok") = <<fr>>
  BY DEF WriteOutcome, Bytes
<1>2. o.lsn \in Nat /\ n \in Nat /\ o.wrote \in Seq(Frame)
  BY <1>1, AfterOpenType DEF IInv, TypeOK, CatalogueType
<1>3. r \in Frame /\ r.lsn = o.lsn
  BY <1>2, RowType DEF IInv
<1>4. /\ Len(o.wrote) \in {0, 1} /\ o.lsn = n + Len(o.wrote)
      /\ \A j \in 1 .. Len(o.wrote) : o.wrote[j].lsn = n + j - 1
  <2>1. CASE active_fd # NoFile
    <3>1. o.wrote = <<>> /\ o.lsn = n
      BY <2>1 DEF AfterOpen
    <3> QED
      BY <1>2, <3>1
  <2>2. CASE active_fd = NoFile
    <3> DEFINE h == Fr("HEADER", n, 0)
    <3>1. o.wrote = <<h>> /\ o.lsn = n + 1 /\ h.lsn = n
      BY <1>1, <2>2 DEF AfterOpen, Fr
    <3> HIDE DEF h
    <3>2. Len(o.wrote) = 1 /\ o.wrote[1] = h
      BY <3>1
    <3>3. n + 1 - 1 = n
      BY <1>2
    <3>4. \A j \in 1 .. Len(o.wrote) : o.wrote[j].lsn = n + j - 1
      <4>1. \A j \in 1 .. 1 : j = 1
        OBVIOUS
      <4>2. 1 .. Len(o.wrote) = 1 .. 1
        BY <3>2
      <4> QED
        BY <3>1, <3>2, <3>3, <4>1, <4>2
    <3> QED
      BY <3>1, <3>2, <3>4
  <2> QED
    BY <2>1, <2>2
<1>5. /\ seal \in Seq(Frame) /\ Len(seal) \in {0, 1}
      /\ RunFrom(seal, o.lsn + 1)
  <2>1. CASE seal = <<>>
    <3>1. Len(seal) = 0 /\ 1 .. Len(seal) = {}
      BY <2>1
    <3> QED
      BY <2>1, <3>1 DEF RunFrom
  <2>2. CASE seal # <<>>
    <3> DEFINE m == o.lsn + 1
               t == Fr("SEAL", m, 0)
    <3>1. m \in Nat /\ m + 1 - 1 = m
      BY <1>2
    <3>2. seal = <<t>>
      BY <2>2
    <3> HIDE DEF m
    <3>3. t.lsn = m /\ t \in Frame
      BY <3>1, FrameType DEF Fr, Kinds
    <3> HIDE DEF t
    <3>4. Len(seal) = 1 /\ seal[1] = t /\ seal \in Seq(Frame)
      BY <3>2, <3>3
    <3>5. 1 .. Len(seal) = {1}
      BY <3>4
    <3>6. RunFrom(seal, m)
      BY <3>1, <3>3, <3>4, <3>5 DEF RunFrom
    <3> QED
      BY <3>4, <3>6 DEF m
  <2> QED
    BY <2>1, <2>2
<1>6. RunFrom(o.wrote, n)
  BY <1>4 DEF RunFrom
<1> HIDE DEF n, r
<1>7. Len(w) = Len(o.wrote) + 1 + Len(seal) /\ Climbs(w, n)
  <2>1. /\ Len(o.wrote \o <<r>> \o seal) = Len(o.wrote) + 1 + Len(seal)
        /\ Climbs(o.wrote \o <<r>> \o seal, n)
    BY <1>2, <1>3, <1>4, <1>5, <1>6, RunAroundFrame
  <2> QED
    BY <2>1 DEF r
<1>8. n + Len(w) - 1 = o.lsn + Len(seal) /\ n <= o.lsn
  BY <1>2, <1>4, <1>5, <1>7
<1> QED
  BY <1>2, <1>5, <1>7, <1>8 DEF n

\* The entries after append's first block.
Opened == IF active_fd = NoFile THEN PushBack(segment_list, Place, next_lsn) ELSE segment_list

\* What append does, on its three ways out, with m the last LSN it writes.
AppendsTo(w, m) ==
    /\ Extends(disk', w)
    /\ m \in Nat /\ next_lsn <= m
    /\ \A l \in next_lsn .. m : HasLsn(disk', Place, l)
    /\ HeadedIn(disk', Place)
    /\ FramesBelow(disk', m + 1)
    /\ segment_list' = BackLast(Opened, m)
    /\ acked' \subseteq acked \cup {nrows + 1}
    /\ \E i : RowIn(disk', Place, i) /\ disk'[Place].frames[i].row = nrows + 1
    /\ \/ active_fd' = Place /\ next_lsn' = m + 1 /\ UNCHANGED <<segment_id, current_base_lsn>>
       \/ /\ active_fd' = NoFile /\ next_lsn' = m + 1
          /\ segment_id' = segment_id + 1 /\ current_base_lsn' = m + 1
       \/ /\ active_fd' = NoFile /\ next_lsn' = m /\ "fsync" \in Faults
          /\ UNCHANGED <<segment_id, current_base_lsn>>

LEMMA AppendShape ==
    ASSUME Supposed, BInv, BInv', LInv, AppendStep
    PROVE  \E w, m : AppendsTo(w, m)
<1>1. /\ "write" \notin Faults /\ IInv /\ CInv /\ DiskType(disk) /\ DiskType(disk')
      /\ next_lsn \in Nat /\ nrows \in Nat
  BY DEF Supposed, BInv, OInv, CInv, IInv, TypeOK, CatalogueType, CallsType
<1>2. up /\ ~is_shutdown
  BY DEF AppendStep, AppendFails, AppendRow, AppendSeals, AppendSealUnsynced, AppendCall
<1>3. UpInv /\ (active_fd # NoFile => active_fd = Place) /\ Place \in FileName
  BY <1>2 DEF LInv, UpInv, Place, BInv, OInv, CInv, IInv, TypeOK, CatalogueType, FileName
<1> DEFINE o == AfterOpen("ok")
<1>4. PICK seal \in Seq(Frame), fs \in BOOLEAN :
         LET v == o.wrote \o <<Row(o.lsn)>> \o seal
         IN  /\ disk' = StoreFd(o.file, v, fs)
             /\ AppendEnds(o, seal, fs)
             /\ Appended(o, seal, v)
             /\ o.file # Unlinked => \A k \in DOMAIN v :
                  /\ FrameIn(disk', o.file, Len(FramesOf(o.file)) + k)
                  /\ disk'[o.file].frames[Len(FramesOf(o.file)) + k] = v[k]
  BY <1>1, AppendDisk
<1> DEFINE w == o.wrote \o <<Row(o.lsn)>> \o seal
<1>5. o.file = Place /\ Place # Unlinked /\ o.segs = Opened
  <2>1. o.file = Place /\ o.segs = Opened
    BY <1>3 DEF AfterOpen, Opened, Place
  <2>2. Unlinked \notin FileName
    BY DEF Unlinked, FileName
  <2> QED
    BY <1>3, <2>1, <2>2
<1>6. seal \in {<<>>, <<Fr("SEAL", o.lsn + 1, 0)>>}
  BY <1>4 DEF AppendEnds
<1>7. o = AfterOpen("ok")
  OBVIOUS
<1> HIDE DEF o
<1>8. /\ Climbs(w, next_lsn)
      /\ next_lsn + Len(w) - 1 = o.lsn + Len(seal)
      /\ o.lsn \in Nat /\ next_lsn <= o.lsn /\ Len(seal) \in {0, 1}
  BY <1>1, <1>6, <1>7, AppendClimbs
<1>9. /\ disk' = StoreFd(Place, w, fs)
      /\ Appended(o, seal, w)
      /\ \A k \in DOMAIN w :
           /\ FrameIn(disk', Place, Len(FramesOf(Place)) + k)
           /\ disk'[Place].frames[Len(FramesOf(Place)) + k] = w[k]
  BY <1>4, <1>5
<1> DEFINE m == o.lsn + Len(seal)
<1> HIDE DEF w
<1>10. w \in Seq(Frame) /\ ~Has(w, {"TORN"}) /\ (active_fd = NoFile => w[1].kind = "HEADER")
  BY <1>9 DEF Appended
<1>11. m \in Nat /\ next_lsn <= m /\ next_lsn + Len(w) - 1 = m
  BY <1>1, <1>8
<1>12. \A k \in DOMAIN w : w[k].lsn = next_lsn + k - 1
  BY <1>8, <1>10 DEF Climbs, Has
<1>13. Written(disk', Place, w)
  <2> DEFINE d == disk'
  <2>1. d = StoreFd(Place, w, fs)
    BY <1>9
  <2> HIDE DEF d
  <2>2. Written(d, Place, w)
    BY <1>1, <1>3, <1>10, <2>1, StoreWritten
  <2> QED
    BY <2>2 DEF d
<1>14. Extends(disk', w)
  BY <1>1, <1>2, <1>3, <1>8, <1>10, <1>13 DEF Extends, UpInv
<1>15. \A l \in next_lsn .. m : HasLsn(disk', Place, l)
  <2> SUFFICES ASSUME NEW l \in next_lsn .. m PROVE HasLsn(disk', Place, l)
    OBVIOUS
  <2> DEFINE k == l - next_lsn + 1
  <2>1. k \in 1 .. Len(w) /\ next_lsn + k - 1 = l
    BY <1>1, <1>10, <1>11
  <2> HIDE DEF k
  <2>2. k \in DOMAIN w
    BY <1>10, <2>1
  <2>3. w[k].lsn = l
    BY <1>12, <2>1, <2>2
  <2> QED
    BY <1>9, <2>2, <2>3 DEF HasLsn, LsnOf
<1>16. HeadedIn(disk', Place)
  <2>1. CASE active_fd # NoFile
    <3>1. HeadedIn(disk, Place)
      BY <1>3, <2>1 DEF UpInv
    <3> QED
      BY <1>14, <3>1, ExtendsFrames
  <2>2. CASE active_fd = NoFile
    <3>1. 1 \in DOMAIN w
      BY <1>10, <1>11, <1>1
    <3> QED
      BY <1>9, <1>10, <2>2, <3>1 DEF HeadedIn
  <2> QED
    BY <2>1, <2>2
<1>17. FramesBelow(disk', m + 1)
  <2> SUFFICES ASSUME NEW f, NEW i, FrameIn(disk', f, i)
               PROVE  disk'[f].frames[i].lsn < m + 1
    BY DEF FramesBelow
  <2>1. CASE FrameIn(disk, f, i)
    <3>1. disk'[f].frames[i] = disk[f].frames[i]
      BY <1>13, <2>1 DEF Written
    <3>2. disk[f].frames[i].lsn < next_lsn + 1
      BY <1>3, <2>1 DEF UpInv, FramesBelow
    <3>3. disk[f].frames[i].lsn \in Nat
      BY <1>1, <2>1, FrameLsn DEF LsnOf
    <3> QED
      BY <1>1, <1>11, <3>1, <3>2, <3>3
  <2>2. CASE ~FrameIn(disk, f, i)
    <3>1. PICK k \in DOMAIN w : disk'[f].frames[i] = w[k]
      BY <1>13, <2>2 DEF Written
    <3>2. k \in 1 .. Len(w)
      BY <1>10
    <3>3. w[k].lsn = next_lsn + k - 1
      BY <1>12
    <3> QED
      BY <1>1, <1>10, <1>11, <3>1, <3>2, <3>3
  <2> QED
    BY <2>1, <2>2
<1>18. \E i : RowIn(disk', Place, i) /\ disk'[Place].frames[i].row = nrows + 1
  <2>1. PICK k \in DOMAIN w : w[k] = Row(o.lsn)
    BY <1>9 DEF Appended
  <2>2. Row(o.lsn).kind = "ROW" /\ Row(o.lsn).row = nrows + 1
    BY DEF Row, Fr
  <2> QED
    BY <1>9, <2>1, <2>2 DEF RowIn, FrameIn
<1>19. /\ segment_list' = BackLast(Opened, m)
       /\ acked' \subseteq acked \cup {nrows + 1}
       /\ \/ active_fd' = Place /\ next_lsn' = m + 1 /\ UNCHANGED <<segment_id, current_base_lsn>>
          \/ /\ active_fd' = NoFile /\ next_lsn' = m + 1
             /\ segment_id' = segment_id + 1 /\ current_base_lsn' = m + 1
          \/ /\ active_fd' = NoFile /\ next_lsn' = m /\ "fsync" \in Faults
             /\ UNCHANGED <<segment_id, current_base_lsn>>
  <2>0. AppendEnds(o, seal, fs)
    BY <1>4
  <2>1. CASE seal = <<>>
    <3>1. m = o.lsn /\ seal # <<Fr("SEAL", o.lsn + 1, 0)>>
      BY <1>8, <2>1
    <3> QED
      BY <1>5, <2>0, <3>1 DEF AppendEnds
  <2>2. CASE seal = <<Fr("SEAL", o.lsn + 1, 0)>>
    <3>1. m = o.lsn + 1 /\ m + 1 = o.lsn + 2 /\ seal # <<>>
      BY <1>8, <2>2
    <3> QED
      BY <1>5, <2>0, <3>1 DEF AppendEnds
  <2> QED
    BY <1>6, <2>1, <2>2
<1>20. AppendsTo(w, m)
  BY <1>11, <1>14, <1>15, <1>16, <1>17, <1>18, <1>19 DEF AppendsTo
<1> QED
  BY <1>20

\* e is entry x after segment_list.back().last_lsn = m.
Raised(list, x, e, m) ==
    /\ e.file = x.file /\ e.base_lsn = x.base_lsn /\ e.pos = x.pos
    /\ IF IsBack(list, x) THEN e.last_lsn = m ELSE e.last_lsn = x.last_lsn

LEMMA BackLastRaises ==
    ASSUME NEW l, ListType(l), NEW m \in Nat
    PROVE  /\ \A e \in BackLast(l, m) : \E x \in l : Raised(l, x, e, m)
           /\ \A x \in l : \E e \in BackLast(l, m) : Raised(l, x, e, m)
           /\ \A e \in BackLast(l, m), x \in l :
                IsBack(BackLast(l, m), e) /\ Raised(l, x, e, m) => IsBack(l, x)
           /\ \A e \in BackLast(l, m), x \in l :
                IsBack(l, x) /\ Raised(l, x, e, m) => IsBack(BackLast(l, m), e)
<1> DEFINE g(x) == IF IsBack(l, x) THEN [x EXCEPT !.last_lsn = m] ELSE x
           k == BackLast(l, m)
<1>1. k = {g(x) : x \in l}
  BY DEF BackLast
<1>2. \A x \in l : Raised(l, x, g(x), m)
  BY DEF ListType, SegmentInfo, Raised
<1>3. \A e \in k : \E x \in l : Raised(l, x, e, m)
  BY <1>1, <1>2
<1>4. \A x \in l : \E e \in k : Raised(l, x, e, m)
  BY <1>1, <1>2
<1> HIDE DEF g, k
<1>5. ASSUME NEW e \in k, NEW x \in l, IsBack(k, e), Raised(l, x, e, m)
      PROVE  IsBack(l, x)
  BY <1>4, <1>5 DEF IsBack, Raised
<1>6. ASSUME NEW e \in k, NEW x \in l, IsBack(l, x), Raised(l, x, e, m)
      PROVE  IsBack(k, e)
  BY <1>3, <1>6 DEF IsBack, Raised
<1> QED
  BY <1>3, <1>4, <1>5, <1>6 DEF k

\* The entries append starts from: each filled by what append writes, the back that of the
\* segment written to.
LEMMA OpenedEntries ==
    ASSUME BInv, LInv, up, ~is_shutdown, NEW w, NEW m, AppendsTo(w, m)
    PROVE  /\ ListType(Opened)
           /\ \A e \in Opened : /\ e.base_lsn \in Nat /\ e.last_lsn \in Nat
                                /\ e.base_lsn <= next_lsn
                                /\ Filled(disk', e)
           /\ "fsync" \notin Faults => \A e \in Opened : e.last_lsn <= next_lsn
           /\ \E e \in Opened : IsBack(Opened, e)
           /\ \A e \in Opened : IsBack(Opened, e) => e.file = Place /\ next_lsn - 1 <= e.last_lsn
           /\ \A l \in Nat, e \in Opened : e.base_lsn <= l /\ l < next_lsn => Covers(Opened, l) # {}
           /\ HeadedListed(disk', Opened)
<1> DEFINE n == next_lsn
           x == [pos |-> Cardinality(segment_list) + 1, file |-> Place,
                 base_lsn |-> next_lsn, last_lsn |-> next_lsn]
<1>1. /\ n \in Nat /\ ListType(segment_list) /\ Listed(segment_list) /\ UpInv /\ Place \in FileName
      /\ DiskType(disk)
      /\ current_base_lsn \in Nat /\ current_base_lsn <= n
      /\ \A e \in segment_list : e.base_lsn < n
  BY DEF LInv, BInv, UInv, HInv, OInv, CInv, IInv, TypeOK, CatalogueType, Place, FileName
<1>2. \A e \in segment_list : e \in SegmentInfo
  BY <1>1 DEF ListType
<1>3. /\ \A f, i : FrameIn(disk, f, i) => FrameIn(disk', f, i) /\ LsnOf(disk', f, i) = LsnOf(disk, f, i)
      /\ \A f, l : HasLsn(disk, f, l) => HasLsn(disk', f, l)
  <2>1. \A f, i : FrameIn(disk, f, i) => FrameIn(disk', f, i) /\ LsnOf(disk', f, i) = LsnOf(disk, f, i)
    BY ExtendsFrames DEF AppendsTo
  <2> QED
    BY <2>1 DEF HasLsn
<1>4. \A e \in segment_list : Filled(disk', e)
  BY <1>1, <1>3 DEF UpInv, Filled
<1>5. HasLsn(disk', Place, n)
  <2>1. n \in n .. m
    BY <1>1 DEF AppendsTo
  <2> QED
    BY <2>1 DEF AppendsTo
<1>6. \A f : HeadedIn(disk', f) => HeadedIn(disk, f) \/ f = Place
  BY DEF AppendsTo, Extends, Written, HeadedIn
<1>7. CASE active_fd # NoFile
  <2>1. Opened = segment_list /\ active_fd = Place /\ HeadedIn(disk, Place)
    BY <1>1, <1>7 DEF Opened, UpInv
  <2>2. \A e \in segment_list : e.base_lsn \in Nat /\ e.last_lsn \in Nat /\ e.base_lsn <= n
    BY <1>1, <1>2 DEF SegmentInfo
  <2>3. "fsync" \notin Faults => \A e \in segment_list : e.last_lsn <= n
    BY <1>1, <2>2 DEF UpInv
  <2>4. \A l \in Nat, e \in segment_list : e.base_lsn <= l /\ l < n => Covers(segment_list, l) # {}
    BY <1>1, <2>2 DEF UpInv, EntriesCover
  <2>5. HeadedListed(disk', segment_list)
    BY <1>1, <1>6, <2>1 DEF UpInv, HeadedListed
  <2>6. /\ \E e \in segment_list : IsBack(segment_list, e)
        /\ \A e \in segment_list : IsBack(segment_list, e) => e.file = Place /\ n - 1 <= e.last_lsn
    BY <1>1, <1>7, <2>1 DEF UpInv, BackIs
  <2> QED
    BY <1>1, <1>4, <2>1, <2>2, <2>3, <2>4, <2>5, <2>6
<1>8. CASE active_fd = NoFile
  <2>1. Opened = segment_list \cup {x}
    BY <1>8 DEF Opened, PushBack
  <2>2. ListType(Opened)
    BY <1>1, <1>8, PushBackType DEF Opened
  <2>3. Cardinality(segment_list) \in Nat
    BY <1>1, FS_CardinalityType DEF ListType
  <2>4. x.pos = Cardinality(segment_list) + 1 /\ x.file = Place /\ x.base_lsn = n /\ x.last_lsn = n
    OBVIOUS
  <2>5. \A e \in segment_list : e.pos \in Nat /\ e.pos <= Cardinality(segment_list)
    BY <1>1, <1>2 DEF Listed, SegmentInfo
  <2> HIDE DEF x
  <2>6. x \in Opened /\ \A e \in Opened : e.pos <= x.pos /\ (e # x => e.pos < x.pos)
    BY <2>1, <2>3, <2>4, <2>5
  <2>7. IsBack(Opened, x) /\ \A e \in Opened : IsBack(Opened, e) => e = x
    <3>1. \A e \in Opened : e.pos \in Nat
      BY <2>1, <2>3, <2>4, <2>5
    <3>2. \A e \in Opened : e # x => ~(x.pos <= e.pos)
      BY <2>6, <3>1
    <3> QED
      BY <2>6, <3>2 DEF IsBack
  <2>8. Filled(disk', x)
    <3>1. \A l \in n .. n : l = n
      BY <1>1
    <3> QED
      BY <1>1, <1>5, <2>4, <3>1 DEF Filled
  <2>9. \A e \in Opened : e.base_lsn \in Nat /\ e.last_lsn \in Nat /\ e.base_lsn <= n
    BY <1>1, <1>2, <2>1, <2>4 DEF SegmentInfo
  <2>10. \A e \in Opened : Filled(disk', e)
    BY <1>4, <2>1, <2>8
  <2>11. "fsync" \notin Faults => \A e \in Opened : e.last_lsn <= n
    BY <1>1, <2>1, <2>4, <2>9 DEF UpInv
  <2>12. ASSUME NEW l \in Nat, NEW e \in Opened, e.base_lsn <= l, l < n
         PROVE  Covers(Opened, l) # {}
    <3>1. e \in segment_list
      BY <1>1, <2>1, <2>4, <2>12
    <3>2. Covers(segment_list, l) # {}
      BY <1>1, <2>9, <2>12, <3>1 DEF UpInv, EntriesCover
    <3> QED
      BY <2>1, <3>2 DEF Covers
  <2>13. ASSUME NEW f, HeadedIn(disk', f)
         PROVE  \E e \in Opened : e.file = f /\ e.base_lsn = f.base
    <3>1. CASE HeadedIn(disk, f)
      BY <1>1, <2>1, <3>1 DEF UpInv, HeadedListed
    <3>2. CASE ~HeadedIn(disk, f)
      <4>1. f = Place
        BY <1>6, <2>13, <3>2
      <4>2. \A l : ~HasLsn(disk, Place, l)
        BY <1>1, <3>2, <4>1 DEF LInv, Chain, Based, HasLsn
      <4>3. \A l \in current_base_lsn .. n - 1 : FALSE
        BY <1>1, <4>2 DEF UpInv
      <4>4. ~(current_base_lsn <= n - 1)
        BY <1>1, <4>3
      <4>5. current_base_lsn = n
        BY <1>1, <4>4
      <4>6. f.base = n
        BY <4>1, <4>5 DEF Place
      <4> QED
        BY <2>4, <2>6, <4>1, <4>6
    <3> QED
      BY <3>1, <3>2
  <2>14. n - 1 <= x.last_lsn
    BY <1>1, <2>4
  <2>15. HeadedListed(disk', Opened)
    BY <2>13 DEF HeadedListed
  <2>16. /\ \E e \in Opened : IsBack(Opened, e)
         /\ \A e \in Opened : IsBack(Opened, e) => e.file = Place /\ n - 1 <= e.last_lsn
    BY <2>4, <2>6, <2>7, <2>14
  <2> QED
    BY <2>2, <2>9, <2>10, <2>11, <2>12, <2>15, <2>16
<1> QED
  BY <1>7, <1>8

\* ... and the entries it leaves: the back claims all that was written.
LEMMA AppendedEntries ==
    ASSUME BInv, LInv, up, ~is_shutdown, NEW w, NEW m, AppendsTo(w, m),
           NEW n, n \in {m, m + 1}
    PROVE  /\ \A e \in segment_list' : Filled(disk', e)
           /\ "fsync" \notin Faults => \A e \in segment_list' : e.last_lsn <= m
           /\ EntriesCover(segment_list', n)
           /\ HeadedListed(disk', segment_list')
           /\ \A e \in segment_list' : IsBack(segment_list', e) => n - 1 <= e.last_lsn /\ e.file = Place
           /\ \E e \in segment_list' : IsBack(segment_list', e)
<1> DEFINE l1 == Opened
           l2 == segment_list'
           k == next_lsn
<1>1. k \in Nat /\ m \in Nat /\ k <= m /\ n \in Nat /\ n - 1 <= m
  <2>1. k \in Nat /\ m \in Nat /\ k <= m
    BY DEF AppendsTo, BInv, OInv, CInv, IInv, TypeOK, CatalogueType
  <2> QED
    BY <2>1
<1>2. /\ ListType(l1)
      /\ \A e \in l1 : e.base_lsn \in Nat /\ e.last_lsn \in Nat /\ e.base_lsn <= k /\ Filled(disk', e)
      /\ "fsync" \notin Faults => \A e \in l1 : e.last_lsn <= k
      /\ \E e \in l1 : IsBack(l1, e)
      /\ \A e \in l1 : IsBack(l1, e) => e.file = Place /\ k - 1 <= e.last_lsn
      /\ \A l \in Nat, e \in l1 : e.base_lsn <= l /\ l < k => Covers(l1, l) # {}
      /\ HeadedListed(disk', l1)
  BY OpenedEntries
<1>3. \A l \in k .. m : HasLsn(disk', Place, l)
  BY DEF AppendsTo
<1>4. l2 = BackLast(l1, m)
  BY DEF AppendsTo
<1> HIDE DEF l1, l2, k
<1>5. /\ \A e \in l2 : \E x \in l1 : Raised(l1, x, e, m)
      /\ \A x \in l1 : \E e \in l2 : Raised(l1, x, e, m)
      /\ \A e \in l2, x \in l1 : IsBack(l2, e) /\ Raised(l1, x, e, m) => IsBack(l1, x)
      /\ \A e \in l2, x \in l1 : IsBack(l1, x) /\ Raised(l1, x, e, m) => IsBack(l2, e)
  BY <1>1, <1>2, <1>4, BackLastRaises
<1>6. ASSUME NEW e \in l2 PROVE Filled(disk', e)
  <2>1. PICK x \in l1 : Raised(l1, x, e, m)
    BY <1>5
  <2>2. CASE IsBack(l1, x)
    <3>1. e.file = Place /\ x.file = Place /\ e.base_lsn = x.base_lsn /\ e.last_lsn = m
      BY <1>2, <2>1, <2>2 DEF Raised
    <3>2. ASSUME NEW l \in e.base_lsn .. e.last_lsn PROVE HasLsn(disk', Place, l)
      <4>1. x.base_lsn \in Nat /\ x.last_lsn \in Nat /\ k - 1 <= x.last_lsn
        BY <1>2, <2>2
      <4>2. l \in x.base_lsn .. x.last_lsn \/ l \in k .. m
        BY <1>1, <3>1, <4>1
      <4> QED
        BY <1>2, <1>3, <3>1, <4>2 DEF Filled
    <3>3. e.base_lsn <= e.last_lsn
      BY <1>1, <1>2, <3>1
    <3> QED
      BY <3>1, <3>2, <3>3 DEF Filled
  <2>3. CASE ~IsBack(l1, x)
    <3>1. e.file = x.file /\ e.base_lsn = x.base_lsn /\ e.last_lsn = x.last_lsn
      BY <2>1, <2>3 DEF Raised
    <3> QED
      BY <1>2, <3>1 DEF Filled
  <2> QED
    BY <2>2, <2>3
<1>7. ASSUME "fsync" \notin Faults, NEW e \in l2 PROVE e.last_lsn <= m
  <2>1. PICK x \in l1 : Raised(l1, x, e, m)
    BY <1>5
  <2>2. x.last_lsn \in Nat /\ x.last_lsn <= k
    BY <1>2, <1>7
  <2> QED
    BY <1>1, <2>1, <2>2 DEF Raised
<1>8. ASSUME NEW e \in l2, NEW l \in e.base_lsn .. n - 1 PROVE Covers(l2, l) # {}
  <2>1. PICK x \in l1 : Raised(l1, x, e, m)
    BY <1>5
  <2>2. x.base_lsn \in Nat /\ e.base_lsn = x.base_lsn
    BY <1>2, <2>1 DEF Raised
  <2>3. l \in Nat /\ x.base_lsn <= l /\ l <= m
    BY <1>1, <2>2
  <2>4. CASE l < k
    <3>1. PICK c \in l1 : c.base_lsn <= l /\ l <= c.last_lsn
      BY <1>2, <2>3, <2>4 DEF Covers
    <3>2. PICK d \in l2 : Raised(l1, c, d, m)
      BY <1>5
    <3>3. d.base_lsn <= l /\ l <= d.last_lsn
      BY <2>3, <3>1, <3>2 DEF Raised
    <3> QED
      BY <3>3 DEF Covers
  <2>5. CASE k <= l
    <3>1. PICK c \in l1 : IsBack(l1, c)
      BY <1>2
    <3>2. PICK d \in l2 : Raised(l1, c, d, m)
      BY <1>5
    <3>3. c.base_lsn \in Nat /\ c.base_lsn <= k /\ d.base_lsn = c.base_lsn /\ d.last_lsn = m
      BY <1>2, <3>1, <3>2 DEF Raised
    <3>4. d.base_lsn <= l /\ l <= d.last_lsn
      BY <1>1, <2>3, <2>5, <3>3
    <3> QED
      BY <3>4 DEF Covers
  <2> QED
    BY <1>1, <2>3, <2>4, <2>5
<1>9. ASSUME NEW f, HeadedIn(disk', f)
      PROVE  \E e \in l2 : e.file = f /\ e.base_lsn = f.base
  <2>1. PICK x \in l1 : x.file = f /\ x.base_lsn = f.base
    BY <1>2, <1>9 DEF HeadedListed
  <2>2. PICK e \in l2 : Raised(l1, x, e, m)
    BY <1>5
  <2> QED
    BY <2>1, <2>2 DEF Raised
<1>10. ASSUME NEW e \in l2, IsBack(l2, e) PROVE n - 1 <= e.last_lsn /\ e.file = Place
  <2>1. PICK x \in l1 : Raised(l1, x, e, m)
    BY <1>5
  <2>2. IsBack(l1, x)
    BY <1>5, <1>10, <2>1
  <2>3. e.last_lsn = m /\ e.file = Place
    BY <1>2, <2>1, <2>2 DEF Raised
  <2> QED
    BY <1>1, <2>3
<1>11. \E e \in l2 : IsBack(l2, e)
  BY <1>2, <1>5
<1>12. EntriesCover(l2, n)
  BY <1>8 DEF EntriesCover
<1>13. HeadedListed(disk', l2)
  BY <1>9 DEF HeadedListed
<1> QED
  BY <1>6, <1>7, <1>10, <1>11, <1>12, <1>13 DEF l2

LEMMA AppendReads == Supposed /\ BInv /\ BInv' /\ LInv /\ AppendStep => LInv'
<1> SUFFICES ASSUME Supposed, BInv, BInv', LInv, AppendStep PROVE LInv'
  OBVIOUS
<1>1. /\ up /\ up' /\ ~is_shutdown /\ is_shutdown' = is_shutdown /\ pruned' = pruned
  <2>1. AppendCall
    BY DEF AppendStep, AppendFails, AppendRow, AppendSeals, AppendSealUnsynced
  <2> QED
    BY <2>1 DEF AppendCall
<1>2. PICK w, m : AppendsTo(w, m)
  BY AppendShape
<1>3. UpInv /\ Extends(disk', w)
  BY <1>1, <1>2 DEF LInv, AppendsTo
<1>4. /\ next_lsn \in Nat /\ m \in Nat /\ next_lsn <= m /\ current_base_lsn \in Nat
      /\ segment_id \in Nat /\ current_base_lsn <= next_lsn /\ next_lsn' \in {m, m + 1}
      /\ DiskType(disk) /\ DiskType(disk')
  BY <1>2, <1>3 DEF AppendsTo, BInv, HInv, OInv, CInv, IInv, TypeOK, CatalogueType, Extends
<1>5. Chain(disk')
  <2> DEFINE d == disk'
  <2>1. Extends(d, w)
    BY <1>3
  <2> HIDE DEF d
  <2>2. Chain(d)
    BY <1>1, <2>1, ExtendsChain
  <2> QED
    BY <2>2 DEF d
<1>6. /\ \A f, i : FrameIn(disk, f, i) => FrameIn(disk', f, i)
                                          /\ disk'[f].frames[i] = disk[f].frames[i]
      /\ \A f : HeadedIn(disk', f) => HeadedIn(disk, f) \/ f = Place
  BY <1>3 DEF Extends, Written, HeadedIn
<1>7. \A f, l : HasLsn(disk, f, l) => HasLsn(disk', f, l)
  BY <1>6 DEF HasLsn, LsnOf
<1>8. AckedKept'
  <2> SUFFICES ASSUME NEW q \in acked' \ pruned'
               PROVE  \E f, i : RowIn(disk', f, i) /\ disk'[f].frames[i].row = q
    BY DEF AckedKept
  <2>1. CASE q = nrows + 1
    BY <1>2, <2>1 DEF AppendsTo
  <2>2. CASE q # nrows + 1
    <3>1. q \in acked \ pruned
      BY <1>1, <1>2, <2>2 DEF AppendsTo
    <3>2. PICK f, i : RowIn(disk, f, i) /\ disk[f].frames[i].row = q
      BY <3>1 DEF LInv, AckedKept
    <3>3. FrameIn(disk, f, i)
      BY <3>2 DEF RowIn, FrameIn
    <3> QED
      BY <1>6, <3>2, <3>3 DEF RowIn, FrameIn
  <2> QED
    BY <2>1, <2>2
<1>9. /\ \A e \in segment_list' : Filled(disk', e)
      /\ "fsync" \notin Faults => \A e \in segment_list' : e.last_lsn <= m
      /\ EntriesCover(segment_list', next_lsn')
      /\ HeadedListed(disk', segment_list')
      /\ \A e \in segment_list' : IsBack(segment_list', e) => next_lsn' - 1 <= e.last_lsn /\ e.file = Place
      /\ \E e \in segment_list' : IsBack(segment_list', e)
  <2> DEFINE n == next_lsn'
  <2>1. n \in {m, m + 1}
    BY <1>4
  <2> HIDE DEF n
  <2>2. /\ \A e \in segment_list' : Filled(disk', e)
        /\ "fsync" \notin Faults => \A e \in segment_list' : e.last_lsn <= m
        /\ EntriesCover(segment_list', n)
        /\ HeadedListed(disk', segment_list')
        /\ \A e \in segment_list' : IsBack(segment_list', e) => n - 1 <= e.last_lsn /\ e.file = Place
        /\ \E e \in segment_list' : IsBack(segment_list', e)
    BY <1>1, <1>2, <2>1, AppendedEntries
  <2> QED
    BY <2>2 DEF n
<1>10. FramesBelow(disk', next_lsn' + 1)
  <2>1. FramesBelow(disk', m + 1)
    BY <1>2 DEF AppendsTo
  <2>2. \A f, i : FrameIn(disk', f, i) => disk'[f].frames[i].lsn \in Nat
    BY <1>4, FrameLsn DEF LsnOf
  <2> QED
    BY <1>4, <2>1, <2>2 DEF FramesBelow
<1>11. \A l \in current_base_lsn .. m : HasLsn(disk', Place, l)
  <2> SUFFICES ASSUME NEW l \in current_base_lsn .. m PROVE HasLsn(disk', Place, l)
    OBVIOUS
  <2>1. l \in current_base_lsn .. next_lsn - 1 \/ l \in next_lsn .. m
    BY <1>4
  <2>2. \A j \in current_base_lsn .. next_lsn - 1 : HasLsn(disk, Place, j)
    BY <1>1, <1>3 DEF UpInv
  <2>3. \A j \in next_lsn .. m : HasLsn(disk', Place, j)
    BY <1>2 DEF AppendsTo
  <2> QED
    BY <1>7, <2>1, <2>2, <2>3
<1>12. BackIs(segment_list', next_lsn', active_fd')
  <2>1. active_fd' \in {NoFile, Place}
    BY <1>2 DEF AppendsTo
  <2> QED
    BY <1>9, <2>1 DEF BackIs
<1>13. /\ \A f : HeadedIn(disk', f) => f.id \in Nat /\ f.id <= segment_id
       /\ \A f : HeadedIn(disk', f) /\ f.id = segment_id => f = Place
  <2>1. \A f : HeadedIn(disk, f) => f.id <= segment_id /\ (f.id = segment_id => f = Place)
    BY <1>1, <1>3 DEF BInv, OInv, UpInv
  <2>2. Place.id = segment_id
    BY DEF Place
  <2>3. \A f : HeadedIn(disk', f) => f.id \in Nat
    BY <1>4, HeadedNamed
  <2> QED
    BY <1>4, <1>6, <2>1, <2>2, <2>3
<1>14. UpInv'
  <2>1. CASE UNCHANGED <<segment_id, current_base_lsn>>
    <3>1. Place' = Place
      BY <2>1 DEF Place
    <3>2. active_fd' # NoFile => active_fd' = Place' /\ HeadedIn(disk', Place')
      BY <1>2, <3>1 DEF AppendsTo
    <3>3. \A f : HeadedIn(disk', f) /\ f.id = segment_id' => f = Place'
      BY <1>13, <2>1, <3>1
    <3>4. \A l \in current_base_lsn' .. next_lsn' - 1 : HasLsn(disk', Place', l)
      <4>1. m \in Nat /\ current_base_lsn \in Nat /\ (next_lsn' = m \/ next_lsn' = m + 1)
        BY <1>4
      <4>2. \A l \in current_base_lsn .. next_lsn' - 1 : l \in current_base_lsn .. m
        BY <4>1
      <4> QED
        BY <1>11, <2>1, <3>1, <4>2
    <3>5. "fsync" \notin Faults => \A e \in segment_list' : e.last_lsn < next_lsn'
      <4> SUFFICES ASSUME "fsync" \notin Faults, NEW e \in segment_list' PROVE e.last_lsn < next_lsn'
        OBVIOUS
      <4>1. next_lsn' = m + 1 /\ e.last_lsn <= m
        BY <1>2, <1>9 DEF AppendsTo
      <4>2. e.last_lsn \in Nat
        BY DEF BInv, OInv, CInv, IInv, TypeOK, CatalogueType, ListType, SegmentInfo
      <4> QED
        BY <1>4, <4>1, <4>2
    <3> QED
      BY <1>9, <1>10, <1>12, <3>2, <3>3, <3>4, <3>5 DEF UpInv
  <2>2. CASE ~UNCHANGED <<segment_id, current_base_lsn>>
    <3>1. /\ active_fd' = NoFile /\ next_lsn' = m + 1
          /\ segment_id' = segment_id + 1 /\ current_base_lsn' = m + 1
      BY <1>2, <2>2 DEF AppendsTo
    <3>2. \A f : HeadedIn(disk', f) => f.id # segment_id'
      BY <1>4, <1>13, <3>1
    <3>3. \A l \in current_base_lsn' .. next_lsn' - 1 : FALSE
      BY <1>4, <3>1
    <3>4. "fsync" \notin Faults => \A e \in segment_list' : e.last_lsn < next_lsn'
      <4> SUFFICES ASSUME "fsync" \notin Faults, NEW e \in segment_list' PROVE e.last_lsn < next_lsn'
        OBVIOUS
      <4>1. e.last_lsn <= m
        BY <1>9
      <4>2. e.last_lsn \in Nat
        BY DEF BInv, OInv, CInv, IInv, TypeOK, CatalogueType, ListType, SegmentInfo
      <4> QED
        BY <1>4, <3>1, <4>1, <4>2
    <3> QED
      BY <1>9, <1>10, <1>12, <3>1, <3>2, <3>3, <3>4 DEF UpInv
  <2> QED
    BY <2>1, <2>2
<1> QED
  BY <1>1, <1>5, <1>8, <1>14 DEF LInv

-----------------------------------------------------------------------------
(* sync, shutdown and the iterators.                                       *)

LEMMA NothingWritten == BInv => Extends(disk, <<>>)
  BY DEF BInv, OInv, CInv, IInv, TypeOK, Extends, Climbs, Written

\* At most one frame, no header, is written, and the catalogue does not change; or a file is
\* closed, after shutdown.
LEMMA MarkerReads ==
    ASSUME BInv, LInv, up, up', NEW new, Extends(disk', new),
           \A k \in DOMAIN new : k = 1 /\ new[k].kind # "HEADER",
           UNCHANGED <<next_lsn, segment_id, current_base_lsn, segment_list, acked, pruned>>,
           active_fd' \in {active_fd, NoFile}, is_shutdown => is_shutdown',
           active_fd' # active_fd => is_shutdown'
    PROVE  LInv'
<1>1. UpInv /\ next_lsn \in Nat /\ DiskType(disk) /\ DiskType(disk')
  BY DEF LInv, Extends, BInv, OInv, CInv, IInv, TypeOK, CatalogueType
<1>2. Chain(disk')
  <2> DEFINE d == disk'
  <2>1. Extends(d, new)
    OBVIOUS
  <2> HIDE DEF d
  <2>2. Chain(d)
    BY <2>1, ExtendsChain
  <2> QED
    BY <2>2 DEF d
<1>3. /\ \A f, i : FrameIn(disk, f, i) => FrameIn(disk', f, i)
                                          /\ disk'[f].frames[i] = disk[f].frames[i]
      /\ \A f, i : FrameIn(disk', f, i) =>
           \/ FrameIn(disk, f, i) /\ disk'[f].frames[i] = disk[f].frames[i]
           \/ f = Place /\ \E k \in DOMAIN new :
                disk'[f].frames[i] = new[k] /\ new[k].kind # "TORN"
  BY DEF Extends, Written
<1>4. \A f : HeadedIn(disk', f) <=> HeadedIn(disk, f)
  BY <1>3 DEF HeadedIn
<1>5. \A f, l : HasLsn(disk, f, l) => HasLsn(disk', f, l)
  BY <1>3 DEF HasLsn, LsnOf
<1>6. AckedKept'
  BY <1>3 DEF LInv, AckedKept, RowIn, FrameIn
<1>7. FramesBelow(disk', next_lsn' + 1)
  <2>1. \A k \in DOMAIN new : new[k].kind # "TORN" => new[k].lsn < next_lsn + 1
    <3> SUFFICES ASSUME NEW k \in DOMAIN new, new[k].kind # "TORN"
                 PROVE  new[k].lsn < next_lsn + 1
      OBVIOUS
    <3>1. new[k].lsn = next_lsn + 1 - 1
      BY DEF Extends, Climbs
    <3> QED
      BY <1>1, <3>1
  <2>2. \A f, i : FrameIn(disk, f, i) => disk[f].frames[i].lsn < next_lsn + 1
    BY <1>1 DEF UpInv, FramesBelow
  <2>3. \A f, i : FrameIn(disk', f, i) => disk'[f].frames[i].lsn < next_lsn + 1
    BY <1>3, <2>1, <2>2
  <2> QED
    BY <2>3 DEF FramesBelow
<1>8. Place' = Place
  BY DEF Place
<1>9. active_fd' # NoFile => active_fd' = Place' /\ HeadedIn(disk', Place')
  BY <1>1, <1>4, <1>8 DEF UpInv
<1>10. \A f : HeadedIn(disk', f) /\ f.id = segment_id' => f = Place'
  BY <1>1, <1>4, <1>8 DEF UpInv
<1>11. active_fd' # NoFile \/ ~is_shutdown' =>
         \A l \in current_base_lsn' .. next_lsn' - 1 : HasLsn(disk', Place', l)
  BY <1>1, <1>5, <1>8 DEF UpInv
<1>12. \A e \in segment_list' : Filled(disk', e)
  BY <1>1, <1>5 DEF UpInv, Filled
<1>13. "fsync" \notin Faults => \A e \in segment_list' : e.last_lsn < next_lsn'
  BY <1>1 DEF UpInv
<1>14. EntriesCover(segment_list', next_lsn') /\ HeadedListed(disk', segment_list')
  BY <1>1, <1>4 DEF UpInv, HeadedListed
<1>15. BackIs(segment_list', next_lsn', active_fd')
  BY <1>1 DEF UpInv, BackIs
<1> QED
  BY <1>2, <1>6, <1>7, <1>9, <1>10, <1>11, <1>12, <1>13, <1>14, <1>15 DEF LInv, UpInv

LEMMA SyncReads == Supposed /\ BInv /\ BInv' /\ LInv /\ (Sync \/ Checkpoint) => LInv'
<1> SUFFICES ASSUME Supposed, BInv, BInv', LInv, Sync PROVE LInv'
  <2>1. Supposed /\ BInv => ~Checkpoint
    BY NoCheckpoint DEF Supposed, BInv, RInv
  <2> QED
    BY <2>1
<1>1. /\ up /\ up' /\ active_fd # NoFile /\ disk' = StoreFd(active_fd, <<>>, TRUE)
      /\ UNCHANGED <<next_lsn, segment_id, current_base_lsn, segment_list, acked, pruned,
                     active_fd, is_shutdown>>
  BY DEF Sync, catalogue, histories
<1>2. active_fd = Place /\ Place \in FileName
  BY <1>1 DEF LInv, UpInv, Place, FileName, BInv, OInv, CInv, IInv, TypeOK, CatalogueType
<1>3. DiskType(disk) /\ DiskType(disk')
  BY DEF BInv, OInv, CInv, IInv, TypeOK
<1> DEFINE d == disk'
<1>4. d = StoreFd(Place, <<>>, TRUE)
  BY <1>1, <1>2
<1>5. DiskType(d)
  BY <1>3
<1> HIDE DEF d
<1>6. Written(d, Place, <<>>)
  <2>1. <<>> \in Seq(Frame) /\ TRUE \in BOOLEAN
    OBVIOUS
  <2> QED
    BY <1>2, <1>3, <1>4, <2>1, StoreWritten
<1>7. Extends(d, <<>>)
  BY <1>5, <1>6 DEF Extends, Climbs
<1>8. Extends(disk', <<>>)
  BY <1>7 DEF d
<1> DEFINE new == <<>>
<1>9. Extends(disk', new) /\ \A k \in DOMAIN new : k = 1 /\ new[k].kind # "HEADER"
  BY <1>8
<1> HIDE DEF new
<1> QED
  BY <1>1, <1>9, MarkerReads

LEMMA ShutdownReads == Supposed /\ BInv /\ BInv' /\ LInv /\ ShutdownSeal => LInv'
<1> SUFFICES ASSUME Supposed, BInv, BInv', LInv, ShutdownSeal PROVE LInv'
  OBVIOUS
<1>1. /\ up /\ up' /\ is_shutdown /\ is_shutdown' /\ active_fd' = NoFile
      /\ UNCHANGED <<next_lsn, segment_id, current_base_lsn, segment_list, acked, pruned>>
  BY DEF ShutdownSeal, histories
<1>2. CASE active_fd = NoFile
  <2>1. disk' = disk
    BY <1>2 DEF ShutdownSeal
  <2>2. Extends(disk', <<>>)
    BY <2>1, NothingWritten
  <2> QED
    BY <1>1, <2>2, MarkerReads
<1>3. CASE active_fd # NoFile
  <2> DEFINE fr == Fr("SHUTDOWN", next_lsn, 0)
             new == <<fr>>
             d == disk'
  <2>1. next_lsn \in Nat /\ DiskType(disk) /\ DiskType(d)
    BY DEF BInv, OInv, CInv, IInv, TypeOK, CatalogueType
  <2>2. active_fd = Place /\ HeadedIn(disk, Place) /\ Place \in FileName
    BY <1>1, <1>3 DEF LInv, UpInv, Place, FileName, BInv, OInv, CInv, IInv, TypeOK, CatalogueType
  <2>3. WriteOutcome = {"ok"} /\ FsyncOutcome \subseteq BOOLEAN
    BY OutcomeType DEF WriteOutcome, Supposed
  <2>4. \E fs \in FsyncOutcome : d = StoreFd(Place, new, fs)
    BY <1>3, <2>2, <2>3 DEF ShutdownSeal, Bytes
  <2>5. PICK fs \in BOOLEAN : d = StoreFd(Place, new, fs)
    BY <2>3, <2>4
  <2>6. fr \in Frame /\ fr.kind = "SHUTDOWN" /\ fr.lsn = next_lsn
    BY <2>1, FrameType DEF Kinds, Fr
  <2> HIDE DEF fr
  <2>7. new \in Seq(Frame) /\ DOMAIN new = {1} /\ new[1] = fr
    BY <2>6
  <2> HIDE DEF new, d
  <2>8. Written(d, Place, new)
    BY <2>1, <2>2, <2>5, <2>7, StoreWritten
  <2>9. Climbs(new, next_lsn)
    <3>1. next_lsn + 1 - 1 = next_lsn
      BY <2>1
    <3> QED
      BY <2>6, <2>7, <3>1 DEF Climbs
  <2>10. Extends(d, new)
    BY <1>3, <2>1, <2>2, <2>7, <2>8, <2>9 DEF Extends
  <2>11. \A k \in DOMAIN new : k = 1 /\ new[k].kind # "HEADER"
    BY <2>6, <2>7
  <2>12. Extends(disk', new)
    BY <2>10 DEF d
  <2> QED
    BY <1>1, <2>11, <2>12, MarkerReads
<1> QED
  BY <1>2, <1>3

LEMMA QuietReads == BInv /\ LInv /\ Quiet => LInv'
<1> SUFFICES ASSUME BInv, LInv, Quiet PROVE LInv'
  OBVIOUS
<1>1. /\ UNCHANGED <<disk, up, active_fd, next_lsn, segment_id, current_base_lsn, segment_list,
                     acked, pruned>>
      /\ is_shutdown => is_shutdown'
  <2>1. UNCHANGED segment_list
    <3>1. CASE ShutdownFlag
      BY <3>1 DEF ShutdownFlag, catalogue
    <3>2. CASE \E r \in Readers : ReaderStep(r)
      <4>1. \E r \in Readers : \E pc : IteratorStep(r, pc)
        BY <3>2 DEF ReaderStep, Attach, NextCall, NextRead, NextAdvance, TailWait, Detach
      <4> QED
        BY <4>1 DEF IteratorStep, catalogue
    <3>3. CASE UNCHANGED vars
      BY <3>3 DEF vars, catalogue
    <3> QED
      BY <3>1, <3>2, <3>3 DEF Quiet
  <2> QED
    BY <2>1, QuietActions
<1>2. CASE up
  <2>1. Extends(disk', <<>>)
    BY <1>1, NothingWritten
  <2> QED
    BY <1>1, <1>2, <2>1, MarkerReads
<1>3. CASE ~up
  BY <1>1, <1>3 DEF LInv, AckedKept, RowIn
<1> QED
  BY <1>2, <1>3

-----------------------------------------------------------------------------
(* The prune worker.                                                       *)

LEMMA LeastNat ==
    ASSUME NEW T, T \subseteq Nat, T # {}
    PROVE  \E x \in T : \A y \in T : x <= y
<1>1. PICK x \in T : \A y \in T : ~ (<<y, x>> \in OpToRel(<, Nat))
  BY NatLessThanWellFounded, WFMin
<1>2. \A y \in T : y \in Nat /\ x \in Nat /\ ~(y < x)
  BY <1>1 DEF OpToRel
<1>3. \A y \in T : x <= y
  BY <1>2
<1> QED
  BY <1>3

LEMMA HasBack ==
    ASSUME NEW l, ListType(l), Listed(l), l # {}
    PROVE  \E b \in l : IsBack(l, b)
<1> DEFINE n == Cardinality(l)
           T == {n - e.pos : e \in l}
<1>1. n \in Nat
  BY FS_CardinalityType DEF ListType
<1>2. \A e \in l : e.pos \in Nat /\ e.pos <= n
  BY DEF ListType, SegmentInfo, Listed
<1> HIDE DEF n
<1>3. T \subseteq Nat /\ T # {}
  BY <1>1, <1>2
<1>4. PICK x \in T : \A y \in T : x <= y
  BY <1>3, LeastNat
<1>5. PICK b \in l : x = n - b.pos
  BY <1>4
<1>6. \A e \in l : n - b.pos <= n - e.pos
  BY <1>4, <1>5
<1>7. \A e \in l : e.pos <= b.pos
  BY <1>1, <1>2, <1>6
<1> QED
  BY <1>7 DEF IsBack

\* e is entry x after erase.
Shifted(x, e) == e.file = x.file /\ e.base_lsn = x.base_lsn /\ e.last_lsn = x.last_lsn

\* As long as the back stays, it is the back of what is left.
LEMMA EraseShifts ==
    ASSUME NEW l, ListType(l), NEW gone, NEW b \in l \ gone, IsBack(l, b)
    PROVE  /\ \A e \in Erase(l, gone) : \E x \in l \ gone : Shifted(x, e)
           /\ \A x \in l \ gone : \E e \in Erase(l, gone) : Shifted(x, e)
           /\ \A e \in Erase(l, gone) : IsBack(Erase(l, gone), e) =>
                \E x \in l \ gone : IsBack(l, x) /\ Shifted(x, e)
           /\ \E e \in Erase(l, gone) : IsBack(Erase(l, gone), e)
<1> DEFINE left == l \ gone
           upto(e) == {d \in left : d.pos <= e.pos}
           g(e) == [e EXCEPT !.pos = Cardinality(upto(e))]
           k == Erase(l, gone)
<1>1. k = {g(e) : e \in left}
  BY DEF Erase
<1>2. \A e \in left : e.pos \in Nat /\ g(e).pos = Cardinality(upto(e)) /\ Shifted(e, g(e))
  BY DEF ListType, SegmentInfo, Shifted
<1> HIDE DEF g
<1>3. IsFiniteSet(left)
  BY FS_Subset DEF ListType
<1>4. \A e \in left : IsFiniteSet(upto(e)) /\ upto(e) \in SUBSET left /\ Cardinality(upto(e)) \in Nat
  BY <1>3, FS_Subset, FS_CardinalityType
<1>5. b \in left /\ upto(b) = left
  BY DEF IsBack
<1>6. IsBack(k, g(b))
  <2>1. \A e \in left : Cardinality(upto(e)) <= Cardinality(left)
    BY <1>3, FS_Subset
  <2>2. \A e \in left : g(e).pos <= g(b).pos
    BY <1>2, <1>5, <2>1
  <2> QED
    BY <1>1, <2>2 DEF IsBack
<1>7. ASSUME NEW x \in left, IsBack(k, g(x)) PROVE IsBack(l, x)
  <2>1. g(b).pos <= g(x).pos
    BY <1>1, <1>5, <1>7 DEF IsBack
  <2>2. Cardinality(left) <= Cardinality(upto(x))
    BY <1>2, <1>5, <2>1
  <2>3. Cardinality(upto(x)) <= Cardinality(left) /\ Cardinality(left) \in Nat
    BY <1>3, <1>4, FS_Subset, FS_CardinalityType
  <2>4. Cardinality(left) = Cardinality(upto(x))
    BY <1>4, <2>2, <2>3
  <2>5. upto(x) = left
    BY <1>3, <1>4, <2>4, FS_Subset
  <2>6. b.pos <= x.pos
    BY <1>5, <2>5
  <2>7. \A d \in l : d.pos \in Nat /\ d.pos <= b.pos
    BY DEF IsBack, ListType, SegmentInfo
  <2>8. \A d \in l : d.pos <= x.pos
    BY <2>6, <2>7
  <2> QED
    BY <2>8 DEF IsBack
<1>8. /\ \A e \in k : \E x \in left : Shifted(x, e)
      /\ \A x \in left : \E e \in k : Shifted(x, e)
  BY <1>1, <1>2
<1>9. \A e \in k : IsBack(k, e) => \E x \in left : IsBack(l, x) /\ Shifted(x, e)
  BY <1>1, <1>2, <1>7
<1>10. \E e \in k : IsBack(k, e)
  BY <1>1, <1>5, <1>6
<1> QED
  BY <1>8, <1>9, <1>10

\* With each file listed once and each entry filled, the worker takes only entries below the
\* least pin, never the back, and leaves below that pin at most the back.
LEMMA GoneBelow ==
    ASSUME BInv, LInv, up, "fsync" \notin Faults, NEW m \in Nat, m <= next_lsn
    PROVE  /\ Gone(m) \subseteq segment_list
           /\ \A e \in segment_list : IsBack(segment_list, e) => e \notin Gone(m)
           /\ \A e \in segment_list \ Gone(m) : m <= e.last_lsn \/ IsBack(segment_list, e)
           /\ \A e \in Gone(m) : e.last_lsn < m
<1> DEFINE list == segment_list
           n == next_lsn
<1>1. /\ UpInv /\ FilesOnce(list) /\ n \in Nat /\ DiskType(disk)
      /\ \A e \in list : e.base_lsn \in Nat /\ e.last_lsn \in Nat /\ e.last_lsn < n
  BY DEF LInv, UpInv, BInv, UInv, OInv, CInv, IInv, TypeOK, CatalogueType, ListType, SegmentInfo
<1>2. \A e \in list : e.file \in DOMAIN disk
  <2> SUFFICES ASSUME NEW e \in list PROVE e.file \in DOMAIN disk
    OBVIOUS
  <2>1. Filled(disk, e) /\ e.base_lsn \in e.base_lsn .. e.last_lsn
    BY <1>1 DEF UpInv, Filled
  <2> QED
    BY <2>1 DEF Filled, HasLsn, FrameIn
<1>3. \A e \in list : e.pos \in Nat
  BY DEF BInv, OInv, CInv, IInv, TypeOK, CatalogueType, ListType, SegmentInfo
<1>4. Removable(m) = {e \in list : e.last_lsn < m}
  <2> SUFFICES ASSUME NEW e \in list, e.last_lsn < m PROVE e \in Removable(m)
    BY DEF Removable
  <2>1. \A d \in list : d.file = e.file => d = e
    BY <1>1 DEF FilesOnce
  <2>2. \A d \in list : d.file = e.file /\ d.last_lsn < m => e.pos <= d.pos
    BY <1>3, <2>1
  <2> QED
    BY <1>2, <2>2 DEF Removable
<1>5. \A e \in list : IsBack(list, e) => n - 1 <= e.last_lsn
  BY <1>1 DEF UpInv, BackIs
<1>6. ASSUME NEW e \in list, IsBack(list, e), e \in Gone(m) PROVE FALSE
  <2>1. e.last_lsn < m /\ Removable(m) # list
    BY <1>4, <1>6 DEF Gone
  <2>2. m = n
    BY <1>1, <1>5, <1>6, <2>1
  <2>3. Removable(m) = list
    BY <1>1, <1>4, <2>2
  <2> QED
    BY <2>1, <2>3
<1>7. ASSUME NEW e \in list \ Gone(m), ~IsBack(list, e) PROVE m <= e.last_lsn
  <2>1. ~(e.last_lsn < m)
    BY <1>4, <1>7 DEF Gone
  <2> QED
    BY <1>1, <2>1
<1>8. Gone(m) \subseteq list /\ \A e \in Gone(m) : e.last_lsn < m
  BY <1>4 DEF Gone
<1> QED
  BY <1>6, <1>7, <1>8

Without(d, files) == [f \in DOMAIN d \ files |-> d[f]]

\* Without some of its files, a directory keeps the frames of the others.
LEMMA FewerFiles ==
    ASSUME NEW d, NEW files, NEW e, e = Without(d, files)
    PROVE  /\ \A f, i : FrameIn(e, f, i) <=> FrameIn(d, f, i) /\ f \notin files
           /\ \A f, i : FrameIn(e, f, i) =>
                e[f].frames[i] = d[f].frames[i] /\ LsnOf(e, f, i) = LsnOf(d, f, i)
           /\ \A f, l : HasLsn(e, f, l) <=> HasLsn(d, f, l) /\ f \notin files
           /\ \A f : HeadedIn(e, f) <=> HeadedIn(d, f) /\ f \notin files
           /\ Chain(d) => Chain(e)
<1>1. /\ \A f, i : FrameIn(e, f, i) <=> FrameIn(d, f, i) /\ f \notin files
      /\ \A f, i : FrameIn(e, f, i) => e[f].frames[i] = d[f].frames[i]
  BY DEF FrameIn, Without
<1>2. \A f, i : FrameIn(e, f, i) => LsnOf(e, f, i) = LsnOf(d, f, i)
  BY <1>1 DEF LsnOf
<1>3. \A f, l : HasLsn(e, f, l) <=> HasLsn(d, f, l) /\ f \notin files
  BY <1>1, <1>2 DEF HasLsn
<1>4. \A f : HeadedIn(e, f) <=> HeadedIn(d, f) /\ f \notin files
  BY <1>1 DEF HeadedIn
<1>5. ASSUME Chain(d) PROVE Chain(e)
  <2>1. Based(e)
    BY <1>1, <1>2, <1>4, <1>5 DEF Chain, Based
  <2>2. Gapless(e)
    BY <1>1, <1>2, <1>3, <1>5 DEF Chain, Gapless
  <2>3. InOrder(e)
    BY <1>1, <1>2, <1>5 DEF Chain, InOrder
  <2>4. Ascending(e)
    BY <1>1, <1>2, <1>4, <1>5 DEF Chain, Ascending
  <2> QED
    BY <2>1, <2>2, <2>3, <2>4 DEF Chain
<1> QED
  BY <1>1, <1>2, <1>3, <1>4, <1>5

LEMMA PruneReads == Supposed /\ BInv /\ BInv' /\ LInv /\ Prune => LInv'
<1> SUFFICES ASSUME Supposed, BInv, BInv', LInv, Prune PROVE LInv'
  OBVIOUS
<1>1. PICK m \in Pins :
        /\ \A p \in Pins : m <= p
        /\ Gone(m) # {}
        /\ disk' = [f \in DOMAIN disk \ {e.file : e \in Gone(m)} |-> disk[f]]
        /\ segment_list' = Erase(segment_list, Gone(m))
        /\ active_fd' = IF active_fd \in {e.file : e \in Gone(m)} THEN Unlinked ELSE active_fd
        /\ pruned' = pruned \cup UNION {{disk[f].frames[i].row : i \in DOMAIN disk[f].frames}
                                          : f \in {e.file : e \in Gone(m)}}
  BY DEF Prune
<1>2. /\ up /\ up' /\ "fsync" \notin Faults
      /\ UNCHANGED <<next_lsn, segment_id, current_base_lsn, is_shutdown, acked>>
  BY DEF Prune, Supposed
<1> DEFINE gone == Gone(m)
           files == {e.file : e \in gone}
           list == segment_list
           d == disk'
           k == segment_list'
           n == next_lsn
<1>3. /\ ListType(list) /\ Listed(list) /\ FilesOnce(list) /\ n \in Nat /\ UpInv /\ Chain(disk)
      /\ \A e \in list : e.base_lsn \in Nat /\ e.last_lsn \in Nat
      /\ ListType(k)
  BY <1>2 DEF LInv, BInv, UInv, OInv, CInv, IInv, TypeOK, CatalogueType, ListType, SegmentInfo
<1>4. m \in Nat /\ m <= n
  <2>1. Pins \subseteq Nat /\ n \in Pins
    BY <1>3 DEF Pins, BInv, OInv, CInv, IInv, TypeOK, ReadersType
  <2> QED
    BY <1>1, <2>1
<1>5. /\ gone \subseteq list
      /\ \A e \in list : IsBack(list, e) => e \notin gone
      /\ \A e \in list \ gone : m <= e.last_lsn \/ IsBack(list, e)
      /\ \A e \in gone : e.last_lsn < m
  BY <1>2, <1>4, GoneBelow
<1>6. PICK b \in list \ gone : IsBack(list, b)
  <2>1. list # {}
    BY <1>1, <1>5
  <2> QED
    BY <1>3, <1>5, <2>1, HasBack
<1>7. /\ d = [f \in DOMAIN disk \ files |-> disk[f]]
      /\ k = Erase(list, gone)
      /\ active_fd' = IF active_fd \in files THEN Unlinked ELSE active_fd
      /\ pruned' = pruned \cup
           UNION {{disk[f].frames[i].row : i \in DOMAIN disk[f].frames} : f \in files}
  BY <1>1
<1>8. \A e \in list : e \notin gone => e.file \notin files
  BY <1>3, <1>5 DEF FilesOnce
<1>9. \A f \in files : \E e \in gone : f = e.file
  OBVIOUS
<1> HIDE DEF gone, files, d, k
<1>10. /\ \A e \in k : \E x \in list \ gone : Shifted(x, e)
       /\ \A x \in list \ gone : \E e \in k : Shifted(x, e)
       /\ \A e \in k : IsBack(k, e) => \E x \in list \ gone : IsBack(list, x) /\ Shifted(x, e)
       /\ \E e \in k : IsBack(k, e)
  BY <1>3, <1>6, <1>7, EraseShifts
<1>11. /\ \A f, i : FrameIn(d, f, i) <=> FrameIn(disk, f, i) /\ f \notin files
       /\ \A f, i : FrameIn(d, f, i) =>
            d[f].frames[i] = disk[f].frames[i] /\ LsnOf(d, f, i) = LsnOf(disk, f, i)
       /\ \A f, l : HasLsn(d, f, l) <=> HasLsn(disk, f, l) /\ f \notin files
       /\ \A f : HeadedIn(d, f) <=> HeadedIn(disk, f) /\ f \notin files
       /\ Chain(d)
  <2>1. d = Without(disk, files)
    BY <1>7 DEF Without
  <2> QED
    BY <1>3, <2>1, FewerFiles
<1>12. active_fd' = active_fd /\ (active_fd # NoFile => Place \notin files)
  <2>1. active_fd # NoFile => active_fd = Place /\ b.file = active_fd
    BY <1>3, <1>6 DEF UpInv, BackIs
  <2>2. NoFile \notin files
    BY <1>3, <1>5, <1>9 DEF ListType, SegmentInfo, FileName, NoFile
  <2> QED
    BY <1>6, <1>7, <1>8, <2>1, <2>2
<1>13. active_fd # NoFile \/ ~is_shutdown => Place \notin files
  <2>1. CASE active_fd # NoFile
    BY <1>12, <2>1
  <2>2. CASE active_fd = NoFile /\ ~is_shutdown
    <3>1. \A e \in list : e.file.id < segment_id /\ e.file.id \in Nat /\ segment_id \in Nat
      BY <1>2, <1>3, <2>2 DEF BInv, UInv, OInv, CInv, IInv, TypeOK, CatalogueType, ListType,
         SegmentInfo, FileName
    <3>2. \A e \in list : e.file # Place
      BY <3>1 DEF Place
    <3> QED
      BY <1>5, <1>9, <3>2
  <2> QED
    BY <2>1, <2>2
<1>14. AckedKept'
  <2> SUFFICES ASSUME NEW row \in acked \ pruned'
               PROVE  \E f, i : RowIn(d, f, i) /\ d[f].frames[i].row = row
    BY <1>2 DEF AckedKept, d
  <2>1. row \in acked \ pruned
    BY <1>7
  <2>2. PICK f, i : RowIn(disk, f, i) /\ disk[f].frames[i].row = row
    BY <2>1 DEF LInv, AckedKept
  <2>3. i \in DOMAIN disk[f].frames /\ FrameIn(disk, f, i)
    BY <2>2 DEF RowIn, FrameIn, Live
  <2>4. f \notin files
    BY <1>7, <2>2, <2>3
  <2>5. FrameIn(d, f, i) /\ d[f].frames[i] = disk[f].frames[i]
    BY <1>11, <2>3, <2>4
  <2>6. RowIn(d, f, i)
    BY <2>2, <2>5 DEF RowIn, FrameIn
  <2> QED
    BY <2>2, <2>5, <2>6
<1>15. \A e \in k : Filled(d, e) /\ e.last_lsn < n
  <2> SUFFICES ASSUME NEW e \in k PROVE Filled(d, e) /\ e.last_lsn < n
    OBVIOUS
  <2>1. PICK x \in list \ gone : Shifted(x, e)
    BY <1>10
  <2>2. Filled(disk, x) /\ x.last_lsn < n /\ x.file \notin files
    BY <1>2, <1>3, <1>8 DEF UpInv
  <2> QED
    BY <1>11, <2>1, <2>2 DEF Filled, Shifted
<1>16. EntriesCover(k, n)
  <2> SUFFICES ASSUME NEW e \in k, NEW l \in e.base_lsn .. n - 1 PROVE Covers(k, l) # {}
    BY DEF EntriesCover
  <2>1. PICK x \in list \ gone : Shifted(x, e)
    BY <1>10
  <2>2. x.base_lsn \in Nat /\ x.base_lsn <= l /\ l <= n - 1 /\ l \in Int
    BY <1>3, <2>1 DEF Shifted
  <2>3. \E y \in list \ gone : y.base_lsn <= l /\ l <= y.last_lsn
    <3>1. CASE m <= l
      <4>1. l \in x.base_lsn .. n - 1
        BY <1>3, <2>2
      <4>2. PICK c \in list : c.base_lsn <= l /\ l <= c.last_lsn
        BY <1>3, <4>1 DEF UpInv, EntriesCover, Covers
      <4>3. c \notin gone
        BY <1>3, <1>4, <1>5, <2>2, <3>1, <4>2
      <4> QED
        BY <4>2, <4>3
    <3>2. CASE l < m
      <4>1. m <= x.last_lsn \/ n - 1 <= x.last_lsn
        BY <1>3, <1>5 DEF UpInv, BackIs
      <4>2. l <= x.last_lsn
        BY <1>3, <1>4, <2>2, <3>2, <4>1
      <4> QED
        BY <2>2, <4>2
    <3> QED
      BY <1>4, <2>2, <3>1, <3>2
  <2>4. \E z \in k : z.base_lsn <= l /\ l <= z.last_lsn
    BY <1>10, <2>3 DEF Shifted
  <2> QED
    BY <2>4 DEF Covers
<1>17. HeadedListed(d, k)
  <2> SUFFICES ASSUME NEW f, HeadedIn(d, f) PROVE \E e \in k : e.file = f /\ e.base_lsn = f.base
    BY DEF HeadedListed
  <2>1. PICK x \in list : x.file = f /\ x.base_lsn = f.base
    BY <1>3, <1>11 DEF UpInv, HeadedListed
  <2>2. x \notin gone
    BY <1>11, <2>1 DEF files
  <2> QED
    BY <1>10, <2>1, <2>2 DEF Shifted
<1>18. BackIs(k, n, active_fd)
  <2>1. ASSUME NEW e \in k, IsBack(k, e)
        PROVE  n - 1 <= e.last_lsn /\ (active_fd # NoFile => e.file = active_fd)
    <3>1. PICK x \in list \ gone : IsBack(list, x) /\ Shifted(x, e)
      BY <1>10, <2>1
    <3> QED
      BY <1>3, <3>1 DEF UpInv, BackIs, Shifted
  <2> QED
    BY <1>10, <2>1 DEF BackIs
<1>19. Place' = Place
  BY <1>2 DEF Place
<1>20. active_fd # NoFile => active_fd = Place /\ HeadedIn(d, Place)
  BY <1>3, <1>11, <1>12 DEF UpInv
<1>21. FramesBelow(d, n + 1) /\ \A f : HeadedIn(d, f) /\ f.id = segment_id => f = Place
  BY <1>3, <1>11 DEF UpInv, FramesBelow
<1>22. active_fd # NoFile \/ ~is_shutdown =>
         \A l \in current_base_lsn .. n - 1 : HasLsn(d, Place, l)
  BY <1>3, <1>11, <1>13 DEF UpInv
<1>23. UpInv'
  BY <1>2, <1>12, <1>15, <1>16, <1>17, <1>18, <1>19, <1>20, <1>21, <1>22 DEF UpInv, d, k
<1>24. Chain(disk')
  BY <1>11 DEF d
<1> QED
  BY <1>2, <1>14, <1>23, <1>24 DEF LInv

-----------------------------------------------------------------------------
(* Path order.  Recovery opens the last open segment in path order, numbers *)
(* the entries by it, and takes the ids from the names.                     *)

NextDigits(f, n) == IF n < 10 THEN <<n>> ELSE Append(f[n \div 10], n % 10)

\* f is what Digits shall be, for numbers below b.
DigitsTo(f, b) == f \in [Nat -> Seq(Nat)] /\ \A n \in Nat : n < b => f[n] = NextDigits(f, n)

LEMMA NoLeast ==
    ASSUME NEW T, T \subseteq Nat, \A x \in T : \E y \in T : y < x
    PROVE  T = {}
<1>1. ASSUME T # {} PROVE FALSE
  <2>1. PICK x \in T : \A y \in T : x <= y
    BY <1>1, LeastNat
  <2>2. PICK y \in T : y < x
    OBVIOUS
  <2>3. x \in Nat /\ y \in Nat /\ x <= y
    BY <2>1
  <2> QED
    BY <2>2, <2>3
<1> QED
  BY <1>1

LEMMA Tenth == \A n \in Nat : n >= 10 => n \div 10 \in Nat /\ n \div 10 < n /\ n % 10 \in Nat
  OBVIOUS

LEMMA DigitsType ==
    ASSUME NEW f \in [Nat -> Seq(Nat)], NEW n \in Nat
    PROVE  NextDigits(f, n) \in Seq(Nat)
<1>1. CASE n < 10
  BY <1>1 DEF NextDigits
<1>2. CASE ~(n < 10)
  <2>1. n \div 10 \in Nat /\ n % 10 \in Nat
    BY <1>2, Tenth
  <2>2. f[n \div 10] \in Seq(Nat)
    BY <2>1
  <2>3. Append(f[n \div 10], n % 10) \in Seq(Nat)
    BY <2>1, <2>2
  <2> QED
    BY <1>2, <2>3 DEF NextDigits
<1> QED
  BY <1>1, <1>2

\* Two such functions agree as far as both go.
LEMMA DigitsAgree ==
    ASSUME NEW f, NEW g, NEW b \in Nat, NEW c \in Nat, DigitsTo(f, b), DigitsTo(g, c)
    PROVE  \A n \in Nat : n < b /\ n < c => f[n] = g[n]
<1> DEFINE T == {n \in Nat : n < b /\ n < c /\ f[n] # g[n]}
<1>1. ASSUME NEW x \in T PROVE \E y \in T : y < x
  <2>1. x \in Nat /\ x < b /\ x < c /\ f[x] # g[x]
    OBVIOUS
  <2>2. NextDigits(f, x) # NextDigits(g, x)
    BY <2>1 DEF DigitsTo
  <2>3. x >= 10 /\ f[x \div 10] # g[x \div 10]
    BY <2>1, <2>2 DEF NextDigits
  <2>4. x \div 10 \in Nat /\ x \div 10 < x
    BY <2>1, <2>3, Tenth
  <2>5. x \div 10 < b /\ x \div 10 < c
    BY <2>1, <2>4
  <2>6. x \div 10 \in T
    BY <2>3, <2>4, <2>5
  <2> QED
    BY <2>4, <2>6
<1>2. T = {}
  <2>1. T \subseteq Nat
    OBVIOUS
  <2> HIDE DEF T
  <2> QED
    BY <1>1, <2>1, NoLeast
<1> QED
  BY <1>2

LEMMA DigitsReach == \A b \in Nat : \E f : DigitsTo(f, b)
<1> DEFINE T == {b \in Nat : ~\E f : DigitsTo(f, b)}
<1>1. ASSUME NEW x \in T PROVE \E y \in T : y < x
  <2>1. x # 0
    <3>1. [n \in Nat |-> <<>>] \in [Nat -> Seq(Nat)]
      OBVIOUS
    <3>2. \A n \in Nat : ~(n < 0)
      OBVIOUS
    <3>3. DigitsTo([n \in Nat |-> <<>>], 0)
      BY <3>1, <3>2 DEF DigitsTo
    <3> QED
      BY <3>3
  <2>2. x - 1 \in Nat /\ x - 1 < x
    BY <2>1
  <2>3. ASSUME x - 1 \notin T PROVE FALSE
    <3>1. PICK f : DigitsTo(f, x - 1)
      BY <2>2, <2>3
    <3> DEFINE g == [n \in Nat |-> NextDigits(f, n)]
    <3>2. f \in [Nat -> Seq(Nat)]
      BY <3>1 DEF DigitsTo
    <3>3. g \in [Nat -> Seq(Nat)]
      BY <3>2, DigitsType
    <3>4. ASSUME NEW n \in Nat, n < x PROVE g[n] = NextDigits(g, n)
      <4>1. CASE n < 10
        BY <4>1 DEF NextDigits
      <4>2. CASE ~(n < 10)
        <5>1. n \div 10 \in Nat /\ n \div 10 < n
          BY <4>2, Tenth
        <5>2. n \div 10 < x - 1
          BY <2>2, <3>4, <5>1
        <5>3. f[n \div 10] = g[n \div 10]
          BY <3>1, <5>1, <5>2 DEF DigitsTo
        <5> QED
          BY <4>2, <5>3 DEF NextDigits
      <4> QED
        BY <4>1, <4>2
    <3>5. DigitsTo(g, x)
      BY <3>3, <3>4 DEF DigitsTo
    <3> QED
      BY <3>5
  <2> QED
    BY <2>2, <2>3
<1>2. T = {}
  <2>1. T \subseteq Nat
    OBVIOUS
  <2> HIDE DEF T
  <2> QED
    BY <1>1, <2>1, NoLeast
<1> QED
  BY <1>2

\* The recursive definition of Digits has a solution, and so Digits is one.
LEMMA DigitsAre ==
    /\ Digits \in [Nat -> Seq(Nat)]
    /\ \A n \in Nat : n < 10 => Digits[n] = <<n>>
<1> DEFINE Upto(b) == CHOOSE f : DigitsTo(f, b)
           G == [n \in Nat |-> Upto(n + 1)[n]]
<1>1. \A n \in Nat : n + 1 \in Nat /\ n < n + 1 /\ DigitsTo(Upto(n + 1), n + 1)
  BY DigitsReach
<1> HIDE DEF Upto
<1>2. ASSUME NEW n \in Nat PROVE G[n] = NextDigits(G, n)
  <2>1. G[n] = NextDigits(Upto(n + 1), n)
    BY <1>1 DEF DigitsTo
  <2>2. CASE n < 10
    BY <2>1, <2>2 DEF NextDigits
  <2>3. CASE ~(n < 10)
    <3> DEFINE m == n \div 10
    <3>1. m \in Nat /\ m < n
      BY <2>3, Tenth
    <3> HIDE DEF m
    <3>2. m < m + 1 /\ m < n + 1
      BY <3>1
    <3>3. Upto(n + 1)[m] = Upto(m + 1)[m]
      BY <1>1, <3>1, <3>2, DigitsAgree
    <3>4. Upto(n + 1)[m] = G[m]
      BY <3>1, <3>3
    <3> HIDE DEF G
    <3> QED
      BY <2>1, <2>3, <3>4 DEF NextDigits, m
  <2> QED
    BY <2>2, <2>3
<1>3. G = [n \in Nat |-> IF n < 10 THEN <<n>> ELSE Append(G[n \div 10], n % 10)]
  <2>1. DOMAIN G = Nat /\ G = [n \in Nat |-> G[n]]
    OBVIOUS
  <2> HIDE DEF G
  <2> QED
    BY <1>2, <2>1 DEF NextDigits
<1> HIDE DEF G
<1>4. Digits = [n \in Nat |-> IF n < 10 THEN <<n>> ELSE Append(Digits[n \div 10], n % 10)]
  BY <1>3 DEF Digits
<1>5. \A n \in Nat : Digits[n] = NextDigits(Digits, n)
  BY <1>4, Zenon DEF NextDigits
<1>6. \A n \in Nat : n < 10 => Digits[n] = <<n>>
  BY <1>5 DEF NextDigits
<1> DEFINE T == {n \in Nat : Digits[n] \notin Seq(Nat)}
<1>7. ASSUME NEW x \in T PROVE \E y \in T : y < x
  <2>1. x \in Nat /\ Digits[x] \notin Seq(Nat)
    OBVIOUS
  <2>2. ~(x < 10)
    <3>1. <<x>> \in Seq(Nat)
      BY <2>1
    <3> QED
      BY <1>6, <2>1, <3>1
  <2>3. x \div 10 \in Nat /\ x \div 10 < x /\ x % 10 \in Nat
    BY <2>1, <2>2, Tenth
  <2>4. Digits[x] = Append(Digits[x \div 10], x % 10)
    BY <1>5, <2>1, <2>2 DEF NextDigits
  <2>5. Digits[x \div 10] \notin Seq(Nat)
    BY <2>1, <2>3, <2>4
  <2> QED
    BY <2>3, <2>5
<1>8. T = {}
  <2>1. T \subseteq Nat
    OBVIOUS
  <2> HIDE DEF T
  <2> QED
    BY <1>7, <2>1, NoLeast
<1>9. DOMAIN Digits = Nat /\ Digits = [n \in Nat |-> Digits[n]]
  BY <1>4
<1>10. Digits \in [Nat -> Seq(Nat)]
  BY <1>8, <1>9
<1> QED
  BY <1>6, <1>10

\* No file is called seg_10 or higher.
FewSegments == \A f \in DOMAIN disk : f.id < 10

LEMMA JoinStart ==
    ASSUME NEW s \in Seq(Int), NEW t \in Seq(Int)
    PROVE  /\ s \o t \in Seq(Int) /\ Len(s \o t) = Len(s) + Len(t)
           /\ Len(s) >= 1 => (s \o t)[1] = s[1]
<1>1. s \o t \in Seq(Int)
  OBVIOUS
<1>2. Len(s \o t) = Len(s) + Len(t)
  OBVIOUS
<1>3. \A i \in 1 .. Len(s) : (s \o t)[i] = s[i]
  OBVIOUS
<1>4. Len(s) >= 1 => 1 \in 1 .. Len(s)
  OBVIOUS
<1> QED
  BY <1>1, <1>2, <1>3, <1>4

\* Below seg_10 names come in the order of their ids.
LEMMA PathsInOrder ==
    ASSUME NEW f \in FileName, NEW g \in FileName, f.id < 10, g.id < 10, f.id < g.id
    PROVE  PathLess(f, g) /\ ~PathLess(g, f)
<1>1. ASSUME NEW h \in FileName, h.id < 10
      PROVE  PathKey(h) \in Seq(Int) /\ Len(PathKey(h)) >= 1 /\ PathKey(h)[1] = h.id
  <2> DEFINE tail == Append(Digits[h.base], -1)
             head == Append(Digits[h.id], 10)
  <2>1. h.id \in Nat /\ h.base \in Nat
    BY DEF FileName
  <2>2. Digits[h.base] \in Seq(Int) /\ Digits[h.id] = <<h.id>>
    <3>1. Seq(Nat) \subseteq Seq(Int)
      OBVIOUS
    <3> QED
      BY <1>1, <2>1, <3>1, DigitsAre
  <2>3. tail \in Seq(Int)
    BY <2>2
  <2>4. head \in Seq(Int) /\ Len(head) = 2 /\ head[1] = h.id
    BY <2>1, <2>2
  <2>5. \E s, t \in Seq(Int) : PathKey(h) = s \o t /\ Len(s) = 2 /\ s[1] = h.id
    BY <2>3, <2>4 DEF PathKey
  <2>6. PICK s \in Seq(Int), t \in Seq(Int) : PathKey(h) = s \o t /\ Len(s) = 2 /\ s[1] = h.id
    BY <2>5
  <2> DEFINE w == s \o t
  <2>7. w \in Seq(Int) /\ Len(w) = Len(s) + Len(t) /\ (Len(s) >= 1 => w[1] = s[1])
    BY JoinStart
  <2>8. PathKey(h) = w
    BY <2>6
  <2>9. Len(t) \in Nat
    OBVIOUS
  <2> HIDE DEF w
  <2> QED
    BY <2>6, <2>7, <2>8, <2>9
<1> DEFINE a == PathKey(f)
           b == PathKey(g)
<1>2. /\ a \in Seq(Int) /\ Len(a) >= 1 /\ a[1] = f.id
      /\ b \in Seq(Int) /\ Len(b) >= 1 /\ b[1] = g.id
      /\ f.id \in Int /\ g.id \in Int
  BY <1>1 DEF FileName
<1>3. /\ PathLess(f, g) <=> \E k \in DOMAIN a \cap DOMAIN b :
                               (\A j \in 1 .. k - 1 : a[j] = b[j]) /\ a[k] < b[k]
      /\ PathLess(g, f) <=> \E k \in DOMAIN b \cap DOMAIN a :
                               (\A j \in 1 .. k - 1 : b[j] = a[j]) /\ b[k] < a[k]
  BY DEF PathLess
<1> HIDE DEF a, b
<1>4. PathLess(f, g)
  <2>1. 1 \in DOMAIN a \cap DOMAIN b /\ a[1] < b[1] /\ \A j \in 1 .. 1 - 1 : a[j] = b[j]
    BY <1>2
  <2> QED
    BY <1>3, <2>1
<1>5. ASSUME NEW k \in DOMAIN b \cap DOMAIN a,
             \A j \in 1 .. k - 1 : b[j] = a[j], b[k] < a[k]
      PROVE  FALSE
  <2>1. k \in Nat /\ k >= 1
    BY <1>2
  <2>2. CASE k = 1
    BY <1>2, <1>5, <2>2
  <2>3. CASE k # 1
    <3>1. 1 \in 1 .. k - 1
      BY <2>1, <2>3
    <3>2. a[1] = b[1]
      BY <1>5, <3>1
    <3> QED
      BY <1>2, <3>2
  <2> QED
    BY <2>2, <2>3
<1> QED
  BY <1>3, <1>4, <1>5

\* Frame z is the last of file f that can be decoded.
LastIn(d, f, z) == FrameIn(d, f, z) /\ \A i : FrameIn(d, f, i) => i <= z

\* What recovery reads off the files: n lies just above all LSNs.
LEMMA RecoveredLsns ==
    ASSUME BInv, BInv', Recover
    PROVE  /\ next_lsn' \in Nat
           /\ \A f, i : FrameIn(disk, f, i) => LsnOf(disk, f, i) < next_lsn'
           /\ next_lsn' # 0 =>
                \E f, i : FrameIn(disk, f, i) /\ LsnOf(disk, f, i) = next_lsn' - 1
           /\ \A f : (HeadedIn(disk, f) <=> f \in Headed) /\ (OpenIn(disk, f) <=> f \in Open)
           /\ \A f \in Headed : LastIn(disk, f, Len(Kept(f)))
                                 /\ Kept(f)[Len(Kept(f))].lsn = LsnOf(disk, f, Len(Kept(f)))
<1>1. DiskType(disk) /\ next_lsn' \in Nat
  BY DEF BInv, OInv, CInv, IInv, TypeOK, CatalogueType
<1>2. /\ \A l \in Lsns : l < next_lsn'
      /\ next_lsn' = 0 \/ \E l \in Lsns : next_lsn' = l + 1
  BY DEF Recover
<1>3. \A f \in DOMAIN disk :
        /\ Kept(f) \in Seq(Frame)
        /\ \A i \in DOMAIN Kept(f) : FrameIn(disk, f, i) /\ Kept(f)[i] = disk[f].frames[i]
        /\ \A i : FrameIn(disk, f, i) => i \in DOMAIN Kept(f)
  BY <1>1, KeptFrames
<1>4. ASSUME NEW f, NEW i, FrameIn(disk, f, i) PROVE LsnOf(disk, f, i) < next_lsn'
  <2>1. f \in DOMAIN disk
    BY <1>4 DEF FrameIn
  <2>2. i \in DOMAIN Kept(f) /\ Kept(f)[i].lsn = LsnOf(disk, f, i)
    BY <1>3, <1>4, <2>1 DEF LsnOf
  <2>3. LsnOf(disk, f, i) \in Lsns
    BY <2>1, <2>2 DEF Lsns, LsnsIn
  <2> QED
    BY <1>2, <2>3
<1>5. ASSUME next_lsn' # 0
      PROVE  \E f, i : FrameIn(disk, f, i) /\ LsnOf(disk, f, i) = next_lsn' - 1
  <2>1. PICK l \in Lsns : next_lsn' = l + 1
    BY <1>2, <1>5
  <2>2. PICK f \in DOMAIN disk : l \in LsnsIn(f)
    BY DEF Lsns
  <2>3. PICK i \in DOMAIN Kept(f) : l = Kept(f)[i].lsn
    BY <2>2 DEF LsnsIn
  <2>4. FrameIn(disk, f, i) /\ LsnOf(disk, f, i) = l /\ l \in Nat
    BY <1>1, <1>3, <2>3, FrameLsn DEF LsnOf
  <2>5. l = next_lsn' - 1
    BY <2>1, <2>4
  <2> QED
    BY <2>4, <2>5
<1>6. \A f : (HeadedIn(disk, f) <=> f \in Headed) /\ (OpenIn(disk, f) <=> f \in Open)
  <2>1. \A f : HeadedIn(disk, f) => f \in DOMAIN disk
    BY DEF HeadedIn, FrameIn
  <2> QED
    BY <1>1, <2>1, KeptHas DEF Headed, Open, OpenIn
<1>7. ASSUME NEW f \in Headed
      PROVE  /\ LastIn(disk, f, Len(Kept(f)))
             /\ Kept(f)[Len(Kept(f))].lsn = LsnOf(disk, f, Len(Kept(f)))
  <2> DEFINE k == Kept(f)
  <2>1. f \in DOMAIN disk /\ \E i \in DOMAIN k : TRUE
    BY DEF Headed, Has
  <2>2. /\ k \in Seq(Frame)
        /\ \A i \in DOMAIN k : FrameIn(disk, f, i) /\ k[i] = disk[f].frames[i]
        /\ \A i : FrameIn(disk, f, i) => i \in DOMAIN k
    BY <1>3, <2>1
  <2> HIDE DEF k
  <2>3. Len(k) \in DOMAIN k /\ \A i \in DOMAIN k : i <= Len(k)
    BY <2>1, <2>2
  <2>4. LastIn(disk, f, Len(k)) /\ k[Len(k)].lsn = LsnOf(disk, f, Len(k))
    BY <2>2, <2>3 DEF LastIn, LsnOf
  <2> QED
    BY <2>4 DEF k
<1> QED
  BY <1>1, <1>4, <1>5, <1>6, <1>7

\* The last entry is that of the highest id, which reaches the highest LSN.
LEMMA RankedById ==
    ASSUME BInv, Ascending(disk), FewSegments, \A f : HeadedIn(disk, f) <=> f \in Headed,
           NEW f \in Headed, NEW g \in Headed, f.id < g.id
    PROVE  Rank(f) \in Nat /\ Rank(g) \in Nat /\ Rank(f) < Rank(g)
<1> DEFINE Upto(h) == {x \in Headed : x = h \/ PathLess(x, h)}
<1>1. /\ Headed \subseteq FileName /\ IsFiniteSet(Headed)
      /\ \A h \in Headed : h.id < 10 /\ h.id \in Nat
  <2>1. DiskType(disk) /\ Headed \in SUBSET DOMAIN disk
    BY DEF BInv, OInv, CInv, IInv, TypeOK, Headed
  <2> QED
    BY <2>1, FS_Subset DEF DiskType, FewSegments, FileName
<1>2. ASSUME NEW h \in Headed PROVE Upto(h) = {x \in Headed : x.id <= h.id}
  <2> SUFFICES ASSUME NEW x \in Headed
               PROVE  (x = h \/ PathLess(x, h)) <=> x.id <= h.id
    OBVIOUS
  <2>1. CASE x.id < h.id
    BY <1>1, <2>1, PathsInOrder
  <2>2. CASE x.id = h.id
    BY <1>1, <2>2 DEF Ascending
  <2>3. CASE h.id < x.id
    BY <1>1, <2>3, PathsInOrder
  <2> QED
    BY <1>1, <2>1, <2>2, <2>3
<1>3. Upto(f) \in SUBSET Headed /\ Upto(g) \in SUBSET Headed
  OBVIOUS
<1>4. Upto(f) \subseteq Upto(g) /\ g \in Upto(g) /\ g \notin Upto(f)
  BY <1>1, <1>2
<1> HIDE DEF Upto
<1>5. IsFiniteSet(Upto(f)) /\ IsFiniteSet(Upto(g))
  BY <1>1, <1>3, FS_Subset
<1>6. /\ Cardinality(Upto(f)) \in Nat /\ Cardinality(Upto(g)) \in Nat
      /\ Cardinality(Upto(f)) <= Cardinality(Upto(g))
      /\ Cardinality(Upto(f)) # Cardinality(Upto(g))
  BY <1>4, <1>5, FS_Subset, FS_CardinalityType
<1>7. Rank(f) = Cardinality(Upto(f)) /\ Rank(g) = Cardinality(Upto(g))
  BY DEF Rank, Upto
<1> QED
  BY <1>6, <1>7

LEMMA RecoverReads == Supposed /\ BInv /\ BInv' /\ LInv /\ FewSegments /\ Recover => LInv'
<1> SUFFICES ASSUME Supposed, BInv, BInv', LInv, FewSegments, Recover PROVE LInv'
  OBVIOUS
<1> DEFINE d == disk'
           n == next_lsn'
           list == segment_list'
           fd == active_fd'
           last(f) == Len(Kept(f))
<1>1. PICK cut \in SUBSET Damaged, fs \in FsyncOutcome : Truncate(cut, fs)
  BY DEF Recover
<1>2. /\ ~up /\ up' /\ UNCHANGED <<acked, pruned>> /\ fs \in BOOLEAN /\ IInv /\ DiskType(disk)
      /\ Chain(disk) /\ NoHole(disk) /\ AckedKept
  BY OutcomeType DEF BInv, OInv, CInv, IInv, TypeOK, LInv, Recover
<1>3. /\ \A f, i : FrameIn(d, f, i) <=> FrameIn(disk, f, i)
      /\ \A f, i : FrameIn(disk, f, i) => d[f].frames[i] = disk[f].frames[i]
  BY <1>1, <1>2, TruncateFrames
<1>4. /\ n \in Nat
      /\ \A f, i : FrameIn(disk, f, i) => LsnOf(disk, f, i) < n
      /\ n # 0 => \E f, i : FrameIn(disk, f, i) /\ LsnOf(disk, f, i) = n - 1
      /\ \A f : (HeadedIn(disk, f) <=> f \in Headed) /\ (OpenIn(disk, f) <=> f \in Open)
      /\ \A f \in Headed : LastIn(disk, f, last(f)) /\ Kept(f)[last(f)].lsn = LsnOf(disk, f, last(f))
  BY RecoveredLsns
<1>5. list = {[pos |-> Rank(f), file |-> f, base_lsn |-> f.base,
               last_lsn |-> Kept(f)[last(f)].lsn] : f \in Headed}
  BY DEF Recover
<1>6. /\ Headed \subseteq FileName /\ Open \subseteq Headed /\ NoFile \notin FileName
      /\ ListType(list) /\ Listed(list)
  <2>1. Headed \subseteq DOMAIN disk
    BY DEF Headed
  <2> QED
    BY <1>2, <2>1 DEF DiskType, Open, NoFile, FileName, BInv, UInv, OInv, CInv, IInv, TypeOK,
       CatalogueType
<1>7. /\ Headed = {} => fd = NoFile /\ current_base_lsn' = 0
      /\ Headed # {} /\ Open = {} =>
           /\ fd = NoFile /\ current_base_lsn' = n
           /\ \E f \in Headed : IsMaxId(f) /\ segment_id' = f.id + 1
      /\ Open # {} =>
           /\ fd \in Open /\ current_base_lsn' = fd.base
           /\ \E f \in Headed : IsMaxId(f) /\ segment_id' = f.id
  BY <1>6 DEF Recover
<1> HIDE DEF d, n, list, fd, last
<1>8. /\ \A f, i : FrameIn(d, f, i) => LsnOf(d, f, i) = LsnOf(disk, f, i)
      /\ \A f, l : HasLsn(d, f, l) <=> HasLsn(disk, f, l)
      /\ \A f : HeadedIn(d, f) <=> HeadedIn(disk, f)
      /\ Chain(d)
  BY <1>2, <1>3, SameFrames
<1>9. /\ Based(disk) /\ Gapless(disk) /\ InOrder(disk) /\ Ascending(disk)
      /\ \A f, i : FrameIn(disk, f, i) => LsnOf(disk, f, i) \in Nat /\ f.base \in Nat /\ f \in Headed
      /\ \A f \in Headed : f.id \in Nat /\ f.base \in Nat
  BY <1>2, <1>4, <1>6, FrameLsn DEF Chain, Based, FileName
<1>10. ASSUME NEW f \in Open, NEW g \in Headed PROVE g.id <= f.id
  BY <1>2, <1>4 DEF BInv, OInv
<1>11. \A f \in Headed : f.base <= LsnOf(disk, f, last(f)) /\ LsnOf(disk, f, last(f)) \in Nat
                          /\ LsnOf(disk, f, last(f)) < n
  BY <1>4, <1>9 DEF Based, LastIn
<1>12. \A f, i : FrameIn(disk, f, i) => LsnOf(disk, f, i) <= LsnOf(disk, f, last(f))
  BY <1>4, <1>9 DEF InOrder, LastIn
<1>13. \A e \in list : /\ e.file \in Headed /\ e.base_lsn = e.file.base /\ e.pos = Rank(e.file)
                       /\ e.last_lsn = LsnOf(disk, e.file, last(e.file))
  BY <1>4, <1>5
<1>14. \A f \in Headed : \E e \in list : e.file = f
  <2> SUFFICES ASSUME NEW f \in Headed PROVE \E e \in list : e.file = f
    OBVIOUS
  <2> DEFINE e == [pos |-> Rank(f), file |-> f, base_lsn |-> f.base,
                   last_lsn |-> Kept(f)[last(f)].lsn]
  <2>1. e \in list /\ e.file = f
    BY <1>5
  <2> QED
    BY <2>1
<1>15. FramesBelow(d, n + 1)
  <2>1. \A f, i : FrameIn(d, f, i) => d[f].frames[i].lsn < n /\ d[f].frames[i].lsn \in Nat
    BY <1>3, <1>4, <1>8, <1>9 DEF LsnOf
  <2> QED
    BY <1>4, <2>1 DEF FramesBelow
\* The highest id holds the highest LSN.
<1>16. ASSUME NEW f \in Headed, IsMaxId(f) PROVE n - 1 <= LsnOf(disk, f, last(f))
  <2>1. CASE n = 0
    BY <1>11, <2>1
  <2>2. CASE n # 0
    <3>1. PICK g, j : FrameIn(disk, g, j) /\ LsnOf(disk, g, j) = n - 1
      BY <1>4, <2>2
    <3>2. g \in Headed /\ g.id <= f.id /\ g.id \in Nat /\ f.id \in Nat
      BY <1>9, <1>16, <3>1 DEF IsMaxId
    <3>3. CASE g.id = f.id
      <4>1. g = f
        BY <1>4, <1>9, <3>2, <3>3 DEF Ascending
      <4> QED
        BY <1>12, <3>1, <4>1
    <3>4. CASE g.id < f.id
      BY <1>4, <1>9, <3>1, <3>4 DEF Ascending, LastIn
    <3> QED
      BY <3>2, <3>3, <3>4
  <2> QED
    BY <2>1, <2>2
<1>17. ASSUME NEW f \in Headed, NEW l \in f.base .. LsnOf(disk, f, last(f)) PROVE HasLsn(disk, f, l)
  BY <1>4, <1>9 DEF Gapless, LastIn
<1>18. ASSUME NEW f \in Open PROVE IsMaxId(f)
  BY <1>10 DEF IsMaxId
<1>19. Open # {} => fd = Place' /\ HeadedIn(d, fd) /\ segment_id' = fd.id
  <2> SUFFICES ASSUME Open # {} PROVE fd = Place' /\ HeadedIn(d, fd) /\ segment_id' = fd.id
    OBVIOUS
  <2>1. fd \in Open /\ current_base_lsn' = fd.base /\ fd \in Headed
    BY <1>6, <1>7
  <2>2. PICK h \in Headed : IsMaxId(h) /\ segment_id' = h.id
    BY <1>7
  <2>3. fd.id <= h.id /\ h.id <= fd.id /\ fd.id \in Nat /\ h.id \in Nat
    BY <1>9, <1>10, <2>1, <2>2 DEF IsMaxId
  <2>4. segment_id' = fd.id
    BY <2>2, <2>3
  <2>5. fd = [id |-> fd.id, base |-> fd.base]
    BY <1>6, <2>1 DEF FileName
  <2> QED
    BY <1>4, <1>8, <2>1, <2>4, <2>5 DEF Place
<1>20. fd # NoFile => Open # {}
  BY <1>7
<1>21. \A f : HeadedIn(d, f) /\ f.id = segment_id' => f = Place'
  <2> SUFFICES ASSUME NEW f \in Headed, f.id = segment_id' PROVE f = Place'
    BY <1>4, <1>8
  <2>1. CASE Open = {}
    <3>1. PICK h \in Headed : IsMaxId(h) /\ segment_id' = h.id + 1
      BY <1>7, <2>1
    <3>2. f.id <= h.id /\ f.id \in Nat /\ h.id \in Nat
      BY <1>9, <3>1 DEF IsMaxId
    <3> QED
      BY <3>1, <3>2
  <2>2. CASE Open # {}
    <3>1. fd \in Headed /\ fd.id = f.id
      BY <1>6, <1>7, <1>19, <2>2
    <3>2. fd = f
      BY <1>4, <1>9, <3>1 DEF Ascending
    <3> QED
      BY <1>19, <2>2, <3>2
  <2> QED
    BY <2>1, <2>2
<1>22. \A l \in current_base_lsn' .. n - 1 : HasLsn(d, Place', l)
  <2> SUFFICES ASSUME NEW l \in current_base_lsn' .. n - 1 PROVE HasLsn(d, Place', l)
    OBVIOUS
  <2>1. CASE Headed = {}
    <3>1. n = 0
      BY <1>4, <1>9, <2>1
    <3> QED
      BY <1>7, <2>1, <3>1
  <2>2. CASE Headed # {} /\ Open = {}
    BY <1>4, <1>7, <2>2
  <2>3. CASE Open # {}
    <3>1. fd \in Open /\ fd \in Headed /\ current_base_lsn' = fd.base
      BY <1>6, <1>7, <2>3
    <3>2. n - 1 <= LsnOf(disk, fd, last(fd))
      BY <1>16, <1>18, <3>1
    <3>3. l \in fd.base .. LsnOf(disk, fd, last(fd))
      BY <1>4, <1>9, <1>11, <3>1, <3>2
    <3> QED
      BY <1>8, <1>17, <1>19, <2>3, <3>1, <3>3
  <2> QED
    BY <1>6, <2>1, <2>2, <2>3
<1>23. \A e \in list : Filled(d, e) /\ e.last_lsn < n
  BY <1>8, <1>11, <1>13, <1>17 DEF Filled
<1>24. EntriesCover(list, n)
  <2> SUFFICES ASSUME NEW e \in list, NEW l \in e.base_lsn .. n - 1 PROVE Covers(list, l) # {}
    BY DEF EntriesCover
  <2>1. e.file \in Headed /\ e.base_lsn = e.file.base /\ e.file.base \in Nat
    BY <1>9, <1>13
  <2>2. n # 0 /\ l \in Int
    BY <1>4, <2>1
  <2>3. PICK g, j : FrameIn(disk, g, j) /\ LsnOf(disk, g, j) = n - 1
    BY <1>4, <2>2
  <2>4. PICK h, i : FrameIn(disk, h, i) /\ LsnOf(disk, h, i) = l
    <3>1. HeadedIn(disk, e.file) /\ l \in e.file.base .. LsnOf(disk, g, j)
      BY <1>4, <2>1, <2>3
    <3>2. \E h : HasLsn(disk, h, l)
      BY <1>2, <2>3, <3>1 DEF NoHole
    <3> QED
      BY <3>2 DEF HasLsn
  <2>5. h \in Headed /\ h.base <= l /\ l <= LsnOf(disk, h, last(h))
    BY <1>9, <1>12, <2>4 DEF Based
  <2>6. PICK c \in list : c.file = h
    BY <1>14, <2>5
  <2> QED
    BY <1>13, <2>5, <2>6 DEF Covers
<1>25. HeadedListed(d, list)
  BY <1>4, <1>8, <1>13, <1>14 DEF HeadedListed
<1>26. BackIs(list, n, fd)
  <2>1. ASSUME NEW e \in list, IsBack(list, e) PROVE IsMaxId(e.file)
    <3> SUFFICES ASSUME NEW g \in Headed, ~(g.id <= e.file.id) PROVE FALSE
      BY DEF IsMaxId
    <3>1. e.file \in Headed /\ e.file.id < g.id
      BY <1>9, <1>13
    <3>2. Rank(e.file) \in Nat /\ Rank(g) \in Nat /\ Rank(e.file) < Rank(g)
      BY <1>4, <1>9, <3>1, RankedById
    <3>3. PICK c \in list : c.file = g
      BY <1>14
    <3>4. Rank(g) <= Rank(e.file)
      BY <1>13, <2>1, <3>3 DEF IsBack
    <3> QED
      BY <3>2, <3>4
  <2>2. ASSUME NEW e \in list, IsBack(list, e)
        PROVE  n - 1 <= e.last_lsn /\ (fd # NoFile => e.file = fd)
    <3>1. e.file \in Headed /\ IsMaxId(e.file)
      BY <1>13, <2>1, <2>2
    <3>2. n - 1 <= e.last_lsn
      BY <1>13, <1>16, <2>2, <3>1
    <3>3. ASSUME fd # NoFile PROVE e.file = fd
      <4>1. fd \in Open /\ fd \in Headed
        BY <1>6, <1>7, <1>20, <3>3
      <4>2. fd.id <= e.file.id /\ e.file.id <= fd.id /\ fd.id \in Nat /\ e.file.id \in Nat
        BY <1>9, <1>10, <3>1, <4>1 DEF IsMaxId
      <4>3. fd.id = e.file.id
        BY <4>2
      <4> QED
        BY <1>4, <1>9, <3>1, <4>1, <4>3 DEF Ascending
    <3> QED
      BY <3>2, <3>3
  <2>3. fd # NoFile => \E e \in list : IsBack(list, e)
    <3> SUFFICES ASSUME fd # NoFile PROVE \E e \in list : IsBack(list, e)
      OBVIOUS
    <3>1. list # {}
      BY <1>6, <1>14, <1>20
    <3> QED
      BY <1>6, <3>1, HasBack
  <2> QED
    BY <2>2, <2>3 DEF BackIs
<1>27. AckedKept'
  <2>1. \A f, i : RowIn(disk, f, i) => RowIn(d, f, i) /\ d[f].frames[i] = disk[f].frames[i]
    BY <1>3 DEF RowIn, FrameIn
  <2> QED
    BY <1>2, <2>1 DEF AckedKept, d
<1>28. UpInv'
  BY <1>15, <1>19, <1>20, <1>21, <1>22, <1>23, <1>24, <1>25, <1>26 DEF UpInv, d, n, list, fd
<1>29. Chain(disk')
  BY <1>8 DEF d
<1> QED
  BY <1>2, <1>27, <1>28, <1>29 DEF LInv

-----------------------------------------------------------------------------
(* The process ends.                                                       *)

\* A write of any of its prefixes leaves the log without holes.
LEMMA InterruptedReads ==
    ASSUME BInv, BInv', LInv, up, ~up', NEW w \in Seq(Frame), Climbs(w, next_lsn),
           \A k \in DOMAIN w : k = 1 => HeadedIn(disk, Place) \/ w[k].kind = "HEADER",
           active_fd # NoFile \/ ~is_shutdown, Interrupted(Place, w),
           UNCHANGED <<acked, pruned>>
    PROVE  LInv'
<1> DEFINE d == disk'
<1>1. PICK t \in 0 .. Len(w), torn \in BOOLEAN :
        d = StoreFd(Place, SubSeq(w, 1, t) \o (IF torn THEN <<Torn>> ELSE <<>>), FALSE)
  BY DEF Interrupted
<1> DEFINE p == SubSeq(w, 1, t) \o (IF torn THEN <<Torn>> ELSE <<>>)
<1>2. p \in Seq(Frame) /\ \A i \in DOMAIN p : (i \in DOMAIN w /\ p[i] = w[i]) \/ p[i].kind = "TORN"
  <2>1. p = SubSeq(w, 1, t) \o (IF torn THEN <<Torn>> ELSE <<>>)
    OBVIOUS
  <2> HIDE DEF p
  <2> QED
    BY <2>1, PrefixFrames, SMTT(30)
<1>3. d = StoreFd(Place, p, FALSE) /\ FALSE \in BOOLEAN
  BY <1>1
<1>4. DiskType(disk) /\ DiskType(d) /\ Place \in FileName
  BY DEF BInv, OInv, CInv, IInv, TypeOK, CatalogueType, Place, FileName
<1> HIDE DEF p, d
<1>5. Written(d, Place, p)
  BY <1>2, <1>3, <1>4, StoreWritten
<1>6. Extends(d, p)
  <2>1. Climbs(p, next_lsn)
    BY <1>2 DEF Climbs
  <2>2. \A k \in DOMAIN p : k = 1 => HeadedIn(disk, Place) \/ p[k].kind \in {"HEADER", "TORN"}
    BY <1>2
  <2> QED
    BY <1>2, <1>4, <1>5, <2>1, <2>2 DEF Extends
<1>7. Chain(d) /\ NoHole(d)
  BY <1>6, ExtendsChain, ExtendsNoHole
<1>8. AckedKept'
  <2>1. \A f, i : RowIn(disk, f, i) => RowIn(d, f, i) /\ d[f].frames[i] = disk[f].frames[i]
    BY <1>5 DEF Written, RowIn, FrameIn
  <2> QED
    BY <2>1 DEF LInv, AckedKept, d
<1> QED
  BY <1>7, <1>8 DEF LInv, d

LEMMA CrashInAppendReads == Supposed /\ BInv /\ BInv' /\ LInv /\ CrashInAppend => LInv'
<1> SUFFICES ASSUME Supposed, BInv, BInv', LInv, CrashInAppend PROVE LInv'
  OBVIOUS
<1> DEFINE o == AfterOpen("ok")
           fr == Fr("SEAL", o.lsn + 1, 0)
           full == <<fr>>
           none == <<>>
           seal == IF o.space + 1 >= MaxSegSize THEN full ELSE none
           w == o.wrote \o <<Row(o.lsn)>> \o seal
<1>1. /\ up /\ ~up' /\ ~is_shutdown /\ Interrupted(o.file, w) /\ UNCHANGED <<acked, pruned>>
      /\ "write" \notin Faults /\ IInv /\ UpInv
  BY DEF CrashInAppend, Down, Supposed, BInv, OInv, CInv, LInv
<1>2. o.lsn + 1 \in Nat
  BY AfterOpenType DEF BInv, OInv, CInv, IInv, WriteOutcome
<1>3. fr \in Frame /\ fr.kind = "SEAL"
  BY <1>2, FrameType DEF Kinds, Fr
<1>4. o.file = Place
  BY <1>1 DEF AfterOpen, Place, UpInv
<1>5. o = AfterOpen("ok")
  OBVIOUS
<1>6. seal \in {<<>>, <<Fr("SEAL", o.lsn + 1, 0)>>}
  OBVIOUS
<1>7. full \in Seq(Frame) /\ \A j \in DOMAIN full : full[j].kind = "SEAL"
  <2> HIDE DEF fr
  <2> QED
    BY <1>3
<1>8. none \in Seq(Frame) /\ \A j \in DOMAIN none : none[j].kind = "SEAL"
  OBVIOUS
<1> HIDE DEF full, none
<1>9. seal \in Seq(Frame) /\ \A j \in DOMAIN seal : seal[j].kind = "SEAL"
  BY <1>7, <1>8
<1> HIDE DEF o, seal, fr
<1>10. Appended(o, seal, w)
  BY <1>1, <1>5, <1>9, AppendFrames
<1>11. Climbs(w, next_lsn)
  BY <1>1, <1>5, <1>6, AppendClimbs
<1> HIDE DEF w
<1>12. \A k \in DOMAIN w : k = 1 => HeadedIn(disk, Place) \/ w[k].kind = "HEADER"
  BY <1>1, <1>10 DEF Appended, UpInv
<1>13. w \in Seq(Frame) /\ Interrupted(Place, w)
  BY <1>1, <1>4, <1>10 DEF Appended
<1> QED
  BY <1>1, <1>11, <1>12, <1>13, InterruptedReads

LEMMA StopReads == Supposed /\ BInv /\ BInv' /\ LInv /\ Stop => LInv'
<1> SUFFICES ASSUME Supposed, BInv, BInv', LInv, Stop PROVE LInv'
  OBVIOUS
<1>1. CASE ProcessEnds
  <2>1. up /\ ~up' /\ disk' = disk /\ UNCHANGED <<acked, pruned>>
    BY <1>1 DEF ProcessEnds, Down
  <2>2. Chain(disk) /\ NoHole(disk)
    BY <2>1, NothingWritten, ExtendsNoHole DEF LInv
  <2>3. AckedKept'
    BY <2>1 DEF LInv, AckedKept, RowIn
  <2> QED
    BY <2>1, <2>2, <2>3 DEF LInv
<1>2. CASE CrashInAppend
  BY <1>2, CrashInAppendReads
<1>3. CASE CrashInCheckpoint
  BY <1>3 DEF CrashInCheckpoint, Supposed, BInv, OInv, CInv, IInv, TypeOK, CallsType
<1>4. CASE CrashInShutdown
  <2> DEFINE fr == Fr("SHUTDOWN", next_lsn, 0)
             w == <<fr>>
  <2>1. /\ up /\ ~up' /\ active_fd # NoFile /\ Interrupted(active_fd, w)
        /\ UNCHANGED <<acked, pruned>>
    BY <1>4 DEF CrashInShutdown, Down
  <2>2. active_fd = Place /\ HeadedIn(disk, Place) /\ next_lsn \in Nat
    BY <2>1 DEF LInv, UpInv, BInv, OInv, CInv, IInv, TypeOK, CatalogueType
  <2>3. fr \in Frame /\ fr.lsn = next_lsn
    BY <2>2, FrameType DEF Kinds, Fr
  <2> HIDE DEF fr
  <2>4. w \in Seq(Frame) /\ DOMAIN w = {1} /\ w[1] = fr
    BY <2>3
  <2>5. Interrupted(Place, w)
    BY <2>1, <2>2
  <2> HIDE DEF w
  <2>6. Climbs(w, next_lsn)
    <3>1. next_lsn + 1 - 1 = next_lsn
      BY <2>2
    <3> QED
      BY <2>3, <2>4, <3>1 DEF Climbs
  <2> QED
    BY <2>1, <2>2, <2>4, <2>5, <2>6, InterruptedReads
<1>5. CASE CrashInRecovery
  <2>1. PICK cut \in SUBSET Damaged : Truncate(cut, TRUE)
    BY <1>5 DEF CrashInRecovery
  <2> DEFINE d == disk'
  <2>2. /\ \A f, i : FrameIn(d, f, i) <=> FrameIn(disk, f, i)
        /\ \A f, i : FrameIn(disk, f, i) => d[f].frames[i] = disk[f].frames[i]
    BY <2>1, TruncateFrames DEF BInv, OInv, CInv
  <2>3. ~up /\ ~up' /\ UNCHANGED <<acked, pruned>> /\ Chain(disk) /\ NoHole(disk)
    BY <1>5 DEF CrashInRecovery, histories, LInv
  <2>4. AckedKept'
    BY <2>2, <2>3 DEF LInv, AckedKept, RowIn, FrameIn
  <2> HIDE DEF d
  <2>5. Chain(d) /\ NoHole(d)
    BY <2>2, <2>3, SameFrames
  <2> QED
    BY <2>3, <2>4, <2>5 DEF LInv, d
<1>6. CASE PowerLoss
  BY <1>6 DEF PowerLoss, Supposed
<1> QED
  BY <1>1, <1>2, <1>3, <1>4, <1>5, <1>6 DEF Stop

-----------------------------------------------------------------------------
(* The invariant.                                                          *)

LEMMA InitLInv == Init => LInv
<1> SUFFICES ASSUME Init PROVE LInv
  OBVIOUS
<1>1. ~up /\ acked = {} /\ \A f, i : ~FrameIn(disk, f, i)
  BY DEF Init, FrameIn
<1> QED
  BY <1>1 DEF LInv, Chain, Based, Gapless, InOrder, Ascending, NoHole, HeadedIn, AckedKept

LEMMA NextLInv == Supposed /\ BInv /\ BInv' /\ LInv /\ FewSegments /\ [Next]_vars => LInv'
<1> SUFFICES ASSUME Supposed, BInv, BInv', LInv, FewSegments, [Next]_vars PROVE LInv'
  OBVIOUS
<1>1. CASE AppendStep
  BY <1>1, AppendReads
<1>2. CASE Sync \/ Checkpoint
  BY <1>2, SyncReads
<1>3. CASE ShutdownSeal
  BY <1>3, ShutdownReads
<1>4. CASE Prune
  BY <1>4, PruneReads
<1>5. CASE Recover
  BY <1>5, RecoverReads
<1>6. CASE Stop
  BY <1>6, StopReads
<1>7. CASE Quiet
  BY <1>7, QuietReads
<1> QED
  BY <1>1, <1>2, <1>3, <1>4, <1>5, <1>6, <1>7 DEF Next, Quiet

-----------------------------------------------------------------------------
(* The theorems.                                                           *)

\* Some entry comes first of those that cover an LSN, and its file has the LSN.
LEMMA FirstReads ==
    ASSUME BInv, LInv, up, NEW e \in segment_list, NEW l \in e.base_lsn .. next_lsn - 1
    PROVE  /\ l \in Nat
           /\ FirstOf(segment_list, l) # {}
           /\ \A h \in FirstOf(segment_list, l) : HasLsn(disk, h.file, l)
<1> DEFINE C == Covers(segment_list, l)
           T == {h.pos : h \in C}
<1>1. /\ UpInv
      /\ \A h \in segment_list : h.pos \in Nat /\ h.base_lsn \in Nat /\ h.last_lsn \in Nat
  BY DEF LInv, BInv, OInv, CInv, IInv, TypeOK, CatalogueType, ListType, SegmentInfo
<1>2. l \in Nat
  BY <1>1, next_lsn \in Nat DEF BInv, OInv, CInv, IInv, TypeOK, CatalogueType
<1>3. C # {} /\ C \subseteq segment_list
  BY <1>1 DEF UpInv, EntriesCover, Covers
<1> HIDE DEF C
<1>4. T \subseteq Nat /\ T # {}
  BY <1>1, <1>3
<1> HIDE DEF T
<1>5. PICK x \in T : \A y \in T : x <= y
  BY <1>4, LeastNat
<1>6. PICK h \in C : h.pos = x /\ \A g \in C : h.pos <= g.pos
  BY <1>5 DEF T
<1>7. FirstOf(segment_list, l) # {}
  BY <1>6 DEF FirstOf, C
<1>8. ASSUME NEW g \in FirstOf(segment_list, l) PROVE HasLsn(disk, g.file, l)
  <2>1. g \in segment_list /\ l \in g.base_lsn .. g.last_lsn
    BY <1>1, <1>2 DEF FirstOf, Covers
  <2> QED
    BY <1>1, <2>1 DEF UpInv, Filled
<1> QED
  BY <1>2, <1>7, <1>8

LEMMA RowsRead == BInv /\ LInv => AckedReadable
<1> SUFFICES ASSUME BInv, LInv, up, NEW k \in acked \ pruned
             PROVE  \E l \in 0 .. next_lsn : ReadAt(l) = {Fr("ROW", l, k)}
  BY DEF AckedReadable
<1>1. /\ UpInv /\ Based(disk) /\ DiskType(disk) /\ Apart(disk) /\ Below(disk, next_lsn)
      /\ next_lsn \in Nat
  BY DEF LInv, Chain, BInv, RInv, IInv, TypeOK, CatalogueType
<1>2. PICK f, i : RowIn(disk, f, i) /\ disk[f].frames[i].row = k
  BY DEF LInv, AckedKept
<1> DEFINE l == LsnOf(disk, f, i)
           fr == disk[f].frames[i]
<1>3. FrameIn(disk, f, i) /\ l \in Nat /\ l < next_lsn /\ fr.kind = "ROW" /\ fr.lsn = l /\ fr.row = k
  BY <1>1, <1>2, FrameLsn DEF Below, LsnOf, RowIn, FrameIn
<1>4. fr = Fr("ROW", l, k)
  <2>1. disk[f].frames \in Seq(Frame) /\ i \in DOMAIN disk[f].frames
    BY <1>1, <1>3 DEF FrameIn, Live, DiskType, File
  <2>2. fr \in Frame
    BY <2>1
  <2> HIDE DEF fr, l
  <2> QED
    BY <1>3, <2>2 DEF Frame, Fr
<1> HIDE DEF l
<1>5. \A g, j : FrameIn(disk, g, j) /\ disk[g].frames[j].lsn = l => g = f /\ j = i
  BY <1>1, <1>2, <1>3 DEF Apart
<1>6. PICK e \in segment_list : e.base_lsn = f.base /\ f.base \in Nat /\ f.base <= l
  <2>1. HeadedIn(disk, f) /\ f.base <= l /\ f.base \in Nat
    BY <1>1, <1>3, FrameLsn DEF Based, l
  <2> QED
    BY <1>1, <2>1 DEF UpInv, HeadedListed
<1>7. l \in e.base_lsn .. next_lsn - 1
  BY <1>1, <1>3, <1>6
<1>8. /\ FirstOf(segment_list, l) # {}
      /\ \A h \in FirstOf(segment_list, l) : HasLsn(disk, h.file, l)
  BY <1>7, FirstReads
<1>9. \A h \in FirstOf(segment_list, l) : h.file = f
  BY <1>5, <1>8 DEF HasLsn, LsnOf
<1>10. FirstWith(disk, f, l, i)
  <2>1. i \in Nat /\ i >= 1 /\ \A j \in 1 .. i : FrameIn(disk, f, j)
    BY <1>1, <1>3, FrameBefore
  <2>2. ASSUME NEW j \in 1 .. i - 1 PROVE disk[f].frames[j].lsn # l
    <3>1. j \in 1 .. i /\ j # i
      BY <2>1
    <3> QED
      BY <1>5, <2>1, <3>1
  <2> QED
    BY <1>3, <2>2 DEF FirstWith
<1>11. \A j : FirstWith(disk, f, l, j) => j = i
  BY <1>5 DEF FirstWith
<1>12. \A x : x \in ReadFrom(disk, segment_list, l) <=> x = fr
  <2>1. \A x : x \in ReadFrom(disk, segment_list, l) <=>
          \E h \in FirstOf(segment_list, l) : \E j :
             FirstWith(disk, h.file, l, j) /\ x = disk[h.file].frames[j]
    BY <1>1, ReadFromMember
  <2> QED
    BY <1>8, <1>9, <1>10, <1>11, <2>1
<1>13. ReadAt(l) = {Fr("ROW", l, k)}
  BY <1>4, <1>12, ReadAtIsReadFrom
<1> QED
  BY <1>1, <1>3, <1>13

LEMMA EveryLsnRead == BInv /\ LInv => LogContiguous
<1> SUFFICES ASSUME BInv, LInv, up, NEW e \in segment_list, NEW l \in e.base_lsn .. next_lsn - 1
             PROVE  ReadAt(l) # {}
  BY DEF LogContiguous
<1>1. DiskType(disk)
  BY DEF BInv, OInv, CInv, IInv, TypeOK
<1>2. PICK h \in FirstOf(segment_list, l) : HasLsn(disk, h.file, l)
  BY FirstReads
<1> DEFINE T == {j \in Nat : FrameIn(disk, h.file, j) /\ LsnOf(disk, h.file, j) = l}
<1>3. T # {} /\ T \subseteq Nat
  BY <1>1, <1>2, FrameLsn DEF HasLsn
<1> HIDE DEF T
<1>4. PICK i \in T : \A j \in T : i <= j
  BY <1>3, LeastNat
<1>5. FrameIn(disk, h.file, i) /\ LsnOf(disk, h.file, i) = l
  BY <1>4 DEF T
<1>6. FirstWith(disk, h.file, l, i)
  <2>1. i \in Nat /\ i >= 1 /\ \A j \in 1 .. i : FrameIn(disk, h.file, j)
    BY <1>1, <1>5, FrameBefore
  <2>2. ASSUME NEW j \in 1 .. i - 1, disk[h.file].frames[j].lsn = l PROVE FALSE
    <3>1. j \in 1 .. i /\ j \in Nat /\ j < i
      BY <2>1
    <3>2. j \in T
      BY <2>1, <2>2, <3>1 DEF T, LsnOf
    <3> QED
      BY <1>4, <2>1, <3>1, <3>2
  <2> QED
    BY <1>5, <2>2 DEF FirstWith, LsnOf
<1>7. disk[h.file].frames[i] \in ReadFrom(disk, segment_list, l)
  BY <1>1, <1>6, ReadFromMember
<1> QED
  BY <1>7, ReadAtIsReadFrom

LEMMA ReadableInvariance == Supposed => (Spec /\ []FewSegments => [](BInv /\ LInv))
<1> SUFFICES ASSUME Supposed PROVE Spec /\ []FewSegments => [](BInv /\ LInv)
  OBVIOUS
<1>1. Spec => []BInv
  BY BaseInvariance
<1>2. Init => LInv
  BY InitLInv
<1>3. BInv /\ BInv' /\ LInv /\ FewSegments /\ [Next]_vars => LInv'
  BY NextLInv
<1> QED
  BY <1>1, <1>2, <1>3, PTL DEF Spec

\* AckedReadable.  As long as the directory has never held a segment above seg_9, and where
\* no write and no power fails, no fsync fails while the worker runs, and nobody calls
\* checkpoint(), read_record_at_lsn finds each acknowledged row under its LSN until the worker
\* removes its segment: after any restarts and crashes, for any size of segments.
THEOREM AcknowledgedRowsAreRead ==
    /\ Faults \subseteq {"fsync"}
    /\ "fsync" \notin Faults \/ ~PruneWorker
    /\ MaxCheckpoints = 0
    => (Spec /\ []FewSegments => []AckedReadable)
<1> SUFFICES ASSUME Supposed PROVE Spec /\ []FewSegments => []AckedReadable
  BY DEF Supposed
<1>1. BInv /\ LInv => AckedReadable
  BY RowsRead
<1> QED
  BY <1>1, ReadableInvariance, PTL

\* LogContiguous.  Under the same suppositions every LSN from the base of the oldest segment to
\* next_lsn can be read, so an iterator that counts up, as WAL_iterator::next does, never meets
\* a hole.
THEOREM LogHasNoHoles ==
    /\ Faults \subseteq {"fsync"}
    /\ "fsync" \notin Faults \/ ~PruneWorker
    /\ MaxCheckpoints = 0
    => (Spec /\ []FewSegments => []LogContiguous)
<1> SUFFICES ASSUME Supposed PROVE Spec /\ []FewSegments => []LogContiguous
  BY DEF Supposed
<1>1. BInv /\ LInv => LogContiguous
  BY EveryLsnRead
<1> QED
  BY <1>1, ReadableInvariance, PTL
=============================================================================
