----------------------------- MODULE WalProofs -----------------------------
(***************************************************************************)
(* Theorems about Wal for every value of its constants: any segment size,  *)
(* any faults, any number of rows, checkpoints, crashes and iterators.     *)
(***************************************************************************)
EXTENDS Wal, TLAPS, FiniteSetTheorems, WellFoundedInduction

-----------------------------------------------------------------------------
(* The directory, as a value of its own.                                   *)

\* Frame i of file f in directory d can be decoded; and it is a row.
FrameIn(d, f, i) == f \in DOMAIN d /\ Live(d[f].frames, i)

RowIn(d, f, i) ==
    f \in DOMAIN d /\ Live(d[f].frames, i) /\ d[f].frames[i].kind = "ROW"

Unique(d) ==
    \A f, g, i, j :
       /\ RowIn(d, f, i)
       /\ RowIn(d, g, j)
       /\ d[f].frames[i].lsn = d[g].frames[j].lsn
       => f = g /\ i = j

Below(d, n) == \A f, i : RowIn(d, f, i) => d[f].frames[i].lsn < n

(* The inductive invariant.  RowLsnUnique alone is not inductive: a new row *)
(* takes next_lsn (or the one after it, behind a header), so while a WAL   *)
(* object exists every row on disk must lie below next_lsn.                *)
IInv ==
    /\ TypeOK
    /\ Unique(disk)
    /\ up => Below(disk, next_lsn)

-----------------------------------------------------------------------------
(* Frames.                                                                 *)

\* The constructors of frames yield frames.
LEMMA FrameType ==
    /\ Torn \in Frame
    /\ \A kind \in Kinds, lsn \in Nat, row \in Nat : Fr(kind, lsn, row) \in Frame
  BY DEF Torn, Fr, Frame, Kinds

\* A sequence with a torn frame has a first one.
LEMMA FirstTorn ==
    ASSUME NEW s \in Seq(Frame), Has(s, {"TORN"})
    PROVE  \E i \in DOMAIN s : IsFirstTorn(s, i)
<1> DEFINE T == {i \in DOMAIN s : s[i].kind = "TORN"}
<1>1. T \subseteq Nat /\ T # {}
  BY DEF Has
<1>2. PICK x \in T : \A y \in T : ~ (<<y, x>> \in OpToRel(<, Nat))
  BY <1>1, NatLessThanWellFounded, WFMin
<1>3. \A y \in T : ~(y < x)
  BY <1>1, <1>2 DEF OpToRel
<1>4. IsFirstTorn(s, x)
  BY <1>3 DEF IsFirstTorn
<1> QED
  BY <1>4

\* The decodable part is a prefix without torn frames.
LEMMA DecodablePrefix ==
    ASSUME NEW s \in Seq(Frame)
    PROVE  /\ Decodable(s) \in Seq(Frame)
           /\ Len(Decodable(s)) <= Len(s)
           /\ \A i \in 1 .. Len(Decodable(s)) :
                Decodable(s)[i] = s[i] /\ s[i].kind # "TORN"
           /\ \A i : Live(s, i) => i \in 1 .. Len(Decodable(s))
<1>1. CASE ~Has(s, {"TORN"})
  BY <1>1 DEF Decodable, Has, Live
<1>2. CASE Has(s, {"TORN"})
  <2> DEFINE c == CHOOSE i \in DOMAIN s : IsFirstTorn(s, i)
  <2>1. c \in DOMAIN s /\ IsFirstTorn(s, c)
    BY <1>2, FirstTorn
  <2>2. Decodable(s) = SubSeq(s, 1, c - 1)
    BY <1>2 DEF Decodable
  <2> HIDE DEF c
  <2>3. c \in 1 .. Len(s)
    BY <2>1
  <2>4. Len(SubSeq(s, 1, c - 1)) = c - 1 /\ SubSeq(s, 1, c - 1) \in Seq(Frame)
    BY <2>3
  <2>5. \A i \in 1 .. c - 1 : SubSeq(s, 1, c - 1)[i] = s[i]
    BY <2>3
  <2>6. \A i : Live(s, i) => i \in 1 .. c - 1
    BY <2>1, <2>3 DEF Live, IsFirstTorn
  <2> QED
    BY <2>1, <2>2, <2>3, <2>4, <2>5, <2>6 DEF IsFirstTorn
<1> QED
  BY <1>1, <1>2

-----------------------------------------------------------------------------
(* What writing and removing does to the directory.                        *)

\* Writing frames to a file keeps the directory's type.
LEMMA StoreType ==
    ASSUME DiskType(disk), NEW f \in FileName, NEW new \in Seq(Frame), NEW fs \in BOOLEAN
    PROVE  DiskType(Store(f, new, fs))
<1> DEFINE old == IF f \in DOMAIN disk THEN disk[f] ELSE Empty
           all == old.frames \o new
           file == [frames |-> all, synced |-> IF fs THEN Len(all) ELSE old.synced]
<1>1. old \in File
  BY DEF DiskType, File, Empty
<1>2. all \in Seq(Frame)
  BY <1>1 DEF File
<1>3. file \in File
  BY <1>1, <1>2 DEF File
<1>4. Store(f, new, fs) =
        [g \in DOMAIN disk \cup {f} |-> IF g = f THEN file ELSE disk[g]]
  BY DEF Store
<1>5. IsFiniteSet(DOMAIN disk \cup {f})
  BY FS_AddElement DEF DiskType
<1> HIDE DEF file
<1> QED
  BY <1>3, <1>4, <1>5 DEF DiskType

\* At most one row in a sequence of frames, its lsn in lo .. hi - 1.
OneRow(new, lo, hi) ==
    /\ \A i \in DOMAIN new :
         new[i].kind = "ROW" => lo <= new[i].lsn /\ new[i].lsn < hi
    /\ \A i, j \in DOMAIN new : new[i].kind = "ROW" /\ new[j].kind = "ROW" => i = j

\* Writing a row above all others keeps the rows' LSNs apart.
LEMMA StoreRows ==
    ASSUME DiskType(disk), Unique(disk),
           NEW n \in Nat, NEW m \in Nat, n <= m, Below(disk, n),
           NEW f \in FileName, NEW new \in Seq(Frame), NEW fs \in BOOLEAN,
           OneRow(new, n, m)
    PROVE  Unique(Store(f, new, fs)) /\ Below(Store(f, new, fs), m)
<1> DEFINE d == Store(f, new, fs)
           old == IF f \in DOMAIN disk THEN disk[f].frames ELSE <<>>
<1>1. /\ DOMAIN d = DOMAIN disk \cup {f}
      /\ d[f].frames = old \o new
      /\ \A g \in DOMAIN disk : g # f => d[g] = disk[g]
  BY DEF Store, Empty
<1>2. old \in Seq(Frame)
  BY DEF DiskType, File
<1>3. DOMAIN (old \o new) = 1 .. Len(old) + Len(new)
  BY <1>2
<1>4. /\ \A i \in 1 .. Len(old) : (old \o new)[i] = old[i]
      /\ \A i \in Len(old) + 1 .. Len(old) + Len(new) : (old \o new)[i] = new[i - Len(old)]
  BY <1>2
<1>5. ASSUME NEW g, NEW i, RowIn(d, g, i)
      PROVE  \/ RowIn(disk, g, i) /\ d[g].frames[i] = disk[g].frames[i]
             \/ /\ g = f
                /\ i \in Len(old) + 1 .. Len(old) + Len(new)
                /\ d[g].frames[i] = new[i - Len(old)]
                /\ new[i - Len(old)].kind = "ROW"
  <2>1. CASE g # f
    BY <1>1, <1>5, <2>1 DEF RowIn
  <2>2. CASE g = f /\ i \in 1 .. Len(old)
    <3>1. Live(old \o new, i) /\ (old \o new)[i].kind = "ROW"
      BY <1>1, <1>5, <2>2 DEF RowIn
    <3>2. Live(old, i)
      BY <1>2, <1>4, <2>2, <3>1 DEF Live
    <3>3. f \in DOMAIN disk /\ old = disk[f].frames
      BY <2>2
    <3> QED
      BY <1>1, <1>4, <2>2, <3>1, <3>2, <3>3 DEF RowIn
  <2>3. CASE g = f /\ i \in Len(old) + 1 .. Len(old) + Len(new)
    BY <1>1, <1>4, <1>5, <2>3 DEF RowIn
  <2>4. g = f => i \in 1 .. Len(old) + Len(new)
    BY <1>1, <1>3, <1>5 DEF RowIn, Live
  <2> QED
    BY <1>2, <2>1, <2>2, <2>3, <2>4
<1> HIDE DEF d, old
<1>6. ASSUME NEW i \in Len(old) + 1 .. Len(old) + Len(new), new[i - Len(old)].kind = "ROW"
      PROVE  /\ i - Len(old) \in DOMAIN new
             /\ n <= new[i - Len(old)].lsn /\ new[i - Len(old)].lsn < m
             /\ new[i - Len(old)].lsn \in Nat
  <2>1. i - Len(old) \in 1 .. Len(new)
    BY <1>2
  <2>2. new[i - Len(old)] \in Frame
    BY <2>1
  <2> QED
    BY <1>6, <2>1, <2>2 DEF OneRow, Frame
<1>7. ASSUME NEW g, NEW i, RowIn(disk, g, i)
      PROVE  disk[g].frames[i].lsn \in Nat /\ disk[g].frames[i].lsn < n
  <2>1. disk[g].frames[i] \in Frame
    BY <1>7 DEF RowIn, Live, DiskType, File
  <2> QED
    BY <1>7, <2>1 DEF Below, Frame
<1>8. Below(d, m)
  <2> SUFFICES ASSUME NEW g, NEW i, RowIn(d, g, i)
               PROVE  d[g].frames[i].lsn < m
    BY DEF Below
  <2> QED
    BY <1>5, <1>6, <1>7
<1>9. Unique(d)
  <2> SUFFICES ASSUME NEW g, NEW h, NEW i, NEW j, RowIn(d, g, i), RowIn(d, h, j),
                      d[g].frames[i].lsn = d[h].frames[j].lsn
               PROVE  g = h /\ i = j
    BY DEF Unique
  <2>1. CASE RowIn(disk, g, i) /\ d[g].frames[i] = disk[g].frames[i]
    <3>1. RowIn(disk, h, j) /\ d[h].frames[j] = disk[h].frames[j]
      <4>1. d[g].frames[i].lsn \in Nat /\ d[g].frames[i].lsn < n
        BY <1>7, <2>1
      <4> SUFFICES ASSUME h = f, j \in Len(old) + 1 .. Len(old) + Len(new),
                          d[h].frames[j] = new[j - Len(old)],
                          new[j - Len(old)].kind = "ROW"
                   PROVE  FALSE
        BY <1>5
      <4>2. n <= d[h].frames[j].lsn /\ d[h].frames[j].lsn \in Nat
        BY <1>6
      <4> QED
        BY <4>1, <4>2
    <3> QED
      BY <2>1, <3>1 DEF Unique
  <2>2. CASE /\ g = f
             /\ i \in Len(old) + 1 .. Len(old) + Len(new)
             /\ d[g].frames[i] = new[i - Len(old)]
             /\ new[i - Len(old)].kind = "ROW"
    <3>1. /\ h = f
          /\ j \in Len(old) + 1 .. Len(old) + Len(new)
          /\ new[j - Len(old)].kind = "ROW"
      <4>1. d[g].frames[i].lsn \in Nat /\ n <= d[g].frames[i].lsn
        BY <1>6, <2>2
      <4>2. ~(RowIn(disk, h, j) /\ d[h].frames[j] = disk[h].frames[j])
        <5> SUFFICES ASSUME RowIn(disk, h, j), d[h].frames[j] = disk[h].frames[j]
                     PROVE  FALSE
          OBVIOUS
        <5>1. disk[h].frames[j].lsn \in Nat /\ disk[h].frames[j].lsn < n
          BY <1>7
        <5> QED
          BY <4>1, <5>1
      <4> QED
        BY <1>5, <4>2
    <3>2. i - Len(old) = j - Len(old)
      BY <1>6, <2>2, <3>1 DEF OneRow
    <3> QED
      BY <1>2, <2>2, <3>1, <3>2
  <2> QED
    BY <1>5, <2>1, <2>2
<1> QED
  BY <1>8, <1>9 DEF d

\* A directory whose rows were all there before, at the same places, is as good.
LEMMA FewerRows ==
    ASSUME NEW d, NEW e, NEW n,
           \A f, i : RowIn(e, f, i) => RowIn(d, f, i) /\ e[f].frames[i] = d[f].frames[i]
    PROVE  /\ Unique(d) => Unique(e)
           /\ Below(d, n) => Below(e, n)
  BY DEF Unique, Below

\* Writing keeps the frames there are where they are; each other frame of the directory is one
\* of those written, behind the old ones of its file.
LEMMA StoreFrames ==
    ASSUME DiskType(disk), NEW f \in FileName \cup {Unlinked}, NEW new \in Seq(Frame),
           NEW fs \in BOOLEAN, NEW d, d = StoreFd(f, new, fs)
    PROVE  /\ \A g, i : FrameIn(disk, g, i) =>
                FrameIn(d, g, i) /\ d[g].frames[i] = disk[g].frames[i]
           /\ \A g, i : FrameIn(d, g, i) =>
                \/ FrameIn(disk, g, i) /\ d[g].frames[i] = disk[g].frames[i]
                \/ /\ g = f /\ f # Unlinked
                   /\ \E k \in DOMAIN new :
                        /\ i = Len(FramesOf(f)) + k
                        /\ d[g].frames[i] = new[k] /\ new[k].kind # "TORN"
<1>1. CASE f = Unlinked
  BY <1>1 DEF StoreFd
<1>2. CASE f # Unlinked
  <2> DEFINE old == FramesOf(f)
  <2>1. f \in FileName /\ d = Store(f, new, fs)
    BY <1>2 DEF StoreFd
  <2>2. /\ DOMAIN d = DOMAIN disk \cup {f}
        /\ d[f].frames = old \o new
        /\ \A g \in DOMAIN disk : g # f => d[g] = disk[g]
    BY <2>1 DEF Store, Empty, FramesOf
  <2>3. /\ old \in Seq(Frame)
        /\ f \in DOMAIN disk => old = disk[f].frames
        /\ f \notin DOMAIN disk => old = <<>>
    BY DEF DiskType, File, FramesOf
  <2> HIDE DEF old
  <2>4. /\ old \o new \in Seq(Frame)
        /\ DOMAIN (old \o new) = 1 .. Len(old) + Len(new)
        /\ \A i \in 1 .. Len(old) : (old \o new)[i] = old[i]
        /\ \A i \in Len(old) + 1 .. Len(old) + Len(new) :
             (old \o new)[i] = new[i - Len(old)] /\ i - Len(old) \in DOMAIN new
    BY <2>3
  <2>5. ASSUME NEW g, NEW i, FrameIn(disk, g, i)
        PROVE  FrameIn(d, g, i) /\ d[g].frames[i] = disk[g].frames[i]
    <3>1. CASE g # f
      BY <2>2, <2>5, <3>1 DEF FrameIn
    <3>2. CASE g = f
      <4>1. Live(old, i) /\ old = disk[f].frames
        BY <2>3, <2>5, <3>2 DEF FrameIn
      <4>2. i \in 1 .. Len(old)
        BY <2>3, <4>1 DEF Live
      <4>3. Live(old \o new, i) /\ (old \o new)[i] = old[i]
        BY <2>3, <2>4, <4>1, <4>2 DEF Live
      <4> QED
        BY <2>2, <3>2, <4>1, <4>3 DEF FrameIn
    <3> QED
      BY <3>1, <3>2
  <2>6. ASSUME NEW g, NEW i, FrameIn(d, g, i), g # f
        PROVE  FrameIn(disk, g, i) /\ d[g].frames[i] = disk[g].frames[i]
    BY <2>2, <2>6 DEF FrameIn
  <2>7. ASSUME NEW i, FrameIn(d, f, i)
        PROVE  \/ FrameIn(disk, f, i) /\ d[f].frames[i] = disk[f].frames[i]
               \/ \E k \in DOMAIN new :
                    i = Len(old) + k /\ d[f].frames[i] = new[k] /\ new[k].kind # "TORN"
    <3>1. Live(old \o new, i) /\ i \in 1 .. Len(old) + Len(new)
      BY <2>2, <2>4, <2>7 DEF FrameIn, Live
    <3>2. CASE i \in 1 .. Len(old)
      <4>1. Live(old, i) /\ f \in DOMAIN disk
        BY <2>3, <2>4, <3>1, <3>2 DEF Live
      <4> QED
        BY <2>2, <2>3, <2>4, <3>2, <4>1 DEF FrameIn
    <3>3. CASE i \in Len(old) + 1 .. Len(old) + Len(new)
      <4>1. (old \o new)[i] = new[i - Len(old)] /\ i - Len(old) \in DOMAIN new
        BY <2>4, <3>3
      <4>2. (old \o new)[i].kind # "TORN"
        BY <3>1, <3>3 DEF Live
      <4>3. i = Len(old) + (i - Len(old))
        BY <2>3, <3>3
      <4> QED
        BY <2>2, <4>1, <4>2, <4>3
    <3> QED
      BY <2>3, <3>1, <3>2, <3>3
  <2> QED
    BY <1>2, <2>5, <2>6, <2>7 DEF old
<1> QED
  BY <1>1, <1>2

\* The frames of s that can be decoded at all have LSNs in lo .. hi - 1, no two the same.
Span(s, lo, hi) ==
    /\ \A i \in DOMAIN s : s[i].kind = "TORN" \/ (lo <= s[i].lsn /\ s[i].lsn < hi)
    /\ \A i, j \in DOMAIN s :
         s[i].kind # "TORN" /\ s[j].kind # "TORN" /\ s[i].lsn = s[j].lsn => i = j

\* The frames of a sequence of frames are frames.
LEMMA FrameOf ==
    ASSUME NEW s \in Seq(Frame), NEW i \in DOMAIN s
    PROVE  s[i] \in Frame /\ s[i].lsn \in Nat /\ s[i].kind \in Kinds
<1>1. s[i] \in Frame
  OBVIOUS
<1> QED
  BY <1>1 DEF Frame

\* Spans that meet make a span.
LEMMA SpanConcat ==
    ASSUME NEW a \in Nat, NEW b \in Nat, NEW c \in Nat, a <= b, b <= c,
           NEW s \in Seq(Frame), NEW t \in Seq(Frame), Span(s, a, b), Span(t, b, c)
    PROVE  Span(s \o t, a, c)
<1> DEFINE w == s \o t
<1>1. \A i \in DOMAIN w :
         \/ i \in DOMAIN s /\ w[i] = s[i]
         \/ i \in Nat /\ i > Len(s) /\ i - Len(s) \in DOMAIN t /\ w[i] = t[i - Len(s)]
  OBVIOUS
<1>2. w \in Seq(Frame)
  OBVIOUS
<1>3. \A i \in DOMAIN s : s[i].lsn \in Nat
  BY FrameOf
<1>4. \A i \in DOMAIN t : t[i].lsn \in Nat
  BY FrameOf
<1> HIDE DEF w
<1>5. \A i \in DOMAIN w : w[i].kind = "TORN" \/ (a <= w[i].lsn /\ w[i].lsn < c)
  BY <1>1, <1>3, <1>4 DEF Span
<1>6. ASSUME NEW i \in DOMAIN w, NEW j \in DOMAIN w, w[i].kind # "TORN", w[j].kind # "TORN",
             w[i].lsn = w[j].lsn
      PROVE  i = j
  <2>1. CASE i \in DOMAIN s /\ w[i] = s[i] /\ j \in DOMAIN s /\ w[j] = s[j]
    BY <1>6, <2>1 DEF Span
  <2>2. CASE /\ i - Len(s) \in DOMAIN t /\ w[i] = t[i - Len(s)] /\ i \in Nat
             /\ j - Len(s) \in DOMAIN t /\ w[j] = t[j - Len(s)] /\ j \in Nat
    <3>1. i - Len(s) = j - Len(s)
      BY <1>6, <2>2 DEF Span
    <3> QED
      BY <2>2, <3>1
  <2>3. CASE i \in DOMAIN s /\ w[i] = s[i] /\ j - Len(s) \in DOMAIN t /\ w[j] = t[j - Len(s)]
    BY <1>3, <1>4, <1>6, <2>3 DEF Span
  <2>4. CASE j \in DOMAIN s /\ w[j] = s[j] /\ i - Len(s) \in DOMAIN t /\ w[i] = t[i - Len(s)]
    BY <1>3, <1>4, <1>6, <2>4 DEF Span
  <2> QED
    BY <1>1, <2>1, <2>2, <2>3, <2>4
<1>7. Span(w, a, c)
  BY <1>5, <1>6 DEF Span
<1> QED
  BY <1>7 DEF w

\* Nothing is a span; so is one frame, whatever becomes of its write.
LEMMA SpanOne ==
    ASSUME NEW fr \in Frame, NEW o \in {"ok", "none", "part"}
    PROVE  /\ Span(Bytes(fr, o), fr.lsn, fr.lsn + 1)
           /\ o # "ok" => \A n \in Nat : Span(Bytes(fr, o), n, n)
           /\ \A n \in Nat : Span(<<>>, n, n)
<1>1. Torn.kind = "TORN" /\ fr.lsn \in Nat
  BY DEF Torn, Fr, Frame
<1>2. \A n, m \in Nat : Span(<<>>, n, m) /\ Span(<<Torn>>, n, m)
  BY <1>1 DEF Span
<1>3. Span(<<fr>>, fr.lsn, fr.lsn + 1)
  BY <1>1 DEF Span
<1>4. CASE o = "ok"
  BY <1>1, <1>2, <1>3, <1>4 DEF Bytes
<1>5. CASE o = "none"
  BY <1>1, <1>2, <1>5 DEF Bytes
<1>6. CASE o = "part"
  BY <1>1, <1>2, <1>6 DEF Bytes
<1> QED
  BY <1>4, <1>5, <1>6

\* Fewer frames are fewer rows.
LEMMA FewerFrames ==
    ASSUME NEW d, NEW e,
           \A f, i : FrameIn(e, f, i) => FrameIn(d, f, i) /\ e[f].frames[i] = d[f].frames[i]
    PROVE  \A f, i : RowIn(e, f, i) => RowIn(d, f, i) /\ e[f].frames[i] = d[f].frames[i]
  BY DEF FrameIn, RowIn

-----------------------------------------------------------------------------
(* The frames the operations write.                                        *)

NoRow(s) == \A i \in DOMAIN s : s[i].kind # "ROW"

\* Any outcome of writing a frame is a sequence of frames, without rows if it is none.
LEMMA BytesType ==
    ASSUME NEW fr \in Frame, NEW o \in {"ok", "none", "part"}
    PROVE  /\ Bytes(fr, o) \in Seq(Frame)
           /\ fr.kind # "ROW" \/ o # "ok" => NoRow(Bytes(fr, o))
<1>1. Torn \in Frame /\ Torn.kind # "ROW"
  BY FrameType DEF Torn, Fr
<1>2. CASE o = "ok"
  BY <1>2 DEF Bytes, NoRow
<1>3. CASE o = "none"
  BY <1>3 DEF Bytes, NoRow
<1>4. CASE o = "part"
  BY <1>1, <1>4 DEF Bytes, NoRow
<1> QED
  BY <1>2, <1>3, <1>4

\* The outcomes a run may choose from are among those three.
LEMMA OutcomeType ==
    /\ WriteOutcome \subseteq {"ok", "none", "part"}
    /\ FsyncOutcome \subseteq BOOLEAN
  BY DEF WriteOutcome, FsyncOutcome

\* Without a row there is nothing to be said of rows.
LEMMA NoRowOneRow ==
    ASSUME NEW s, NEW lo, NEW hi, NoRow(s)
    PROVE  OneRow(s, lo, hi)
  BY DEF NoRow, OneRow

\* Two sequences without rows make one without rows.
LEMMA NoRowConcat ==
    ASSUME NEW s \in Seq(Frame), NEW t \in Seq(Frame), NoRow(s), NoRow(t)
    PROVE  s \o t \in Seq(Frame) /\ NoRow(s \o t)
<1>1. \A i \in DOMAIN (s \o t) :
         (s \o t)[i] = IF i <= Len(s) THEN s[i] ELSE t[i - Len(s)]
  OBVIOUS
<1>2. \A i \in DOMAIN (s \o t) : i <= Len(s) => i \in DOMAIN s
  OBVIOUS
<1>3. \A i \in DOMAIN (s \o t) : ~(i <= Len(s)) => i - Len(s) \in DOMAIN t
  OBVIOUS
<1> QED
  BY <1>1, <1>2, <1>3 DEF NoRow

\* One row between frames that are none.
LEMMA RowBetween ==
    ASSUME NEW s \in Seq(Frame), NEW t \in Seq(Frame), NoRow(s), NoRow(t),
           NEW fr \in Frame, NEW lo \in Nat, lo <= fr.lsn
    PROVE  /\ s \o <<fr>> \o t \in Seq(Frame)
           /\ OneRow(s \o <<fr>> \o t, lo, fr.lsn + 1)
<1> DEFINE w == s \o <<fr>> \o t
<1>1. w \in Seq(Frame) /\ Len(w) = Len(s) + 1 + Len(t) /\ fr.lsn \in Nat
  BY DEF Frame
<1>2. \A i \in 1 .. Len(s) : w[i] = s[i]
  OBVIOUS
<1>3. w[Len(s) + 1] = fr
  OBVIOUS
<1>4. \A i \in Len(s) + 2 .. Len(w) : w[i] = t[i - (Len(s) + 1)]
  OBVIOUS
<1>5. \A i \in Len(s) + 2 .. Len(w) : i - (Len(s) + 1) \in DOMAIN t
  BY <1>1
<1> HIDE DEF w
<1>6. \A i \in DOMAIN w : w[i].kind = "ROW" => i = Len(s) + 1
  <2>1. \A i \in 1 .. Len(s) : w[i].kind # "ROW"
    BY <1>2 DEF NoRow
  <2>2. \A i \in Len(s) + 2 .. Len(w) : w[i].kind # "ROW"
    BY <1>4, <1>5 DEF NoRow
  <2>3. DOMAIN w = 1 .. Len(w)
    BY <1>1
  <2> QED
    BY <1>1, <2>1, <2>2, <2>3
<1>7. OneRow(w, lo, fr.lsn + 1)
  BY <1>1, <1>3, <1>6 DEF OneRow
<1> QED
  BY <1>1, <1>7 DEF w

\* A write cut short, perhaps inside a frame, leaves no more rows than the whole.
LEMMA PrefixRow ==
    ASSUME NEW w \in Seq(Frame), NEW k \in 0 .. Len(w), NEW torn \in BOOLEAN,
           NEW lo \in Nat, NEW hi \in Nat, OneRow(w, lo, hi)
    PROVE  LET p == SubSeq(w, 1, k) \o (IF torn THEN <<Torn>> ELSE <<>>)
           IN  p \in Seq(Frame) /\ OneRow(p, lo, hi)
<1> DEFINE p == SubSeq(w, 1, k) \o (IF torn THEN <<Torn>> ELSE <<>>)
<1>1. Torn \in Frame /\ Torn.kind # "ROW"
  BY FrameType DEF Torn, Fr
<1>2. /\ SubSeq(w, 1, k) \in Seq(Frame)
      /\ Len(SubSeq(w, 1, k)) = k
      /\ \A i \in 1 .. k : SubSeq(w, 1, k)[i] = w[i]
  OBVIOUS
<1>3. CASE torn
  <2>1. p = SubSeq(w, 1, k) \o <<Torn>>
    BY <1>3
  <2>2. p \in Seq(Frame) /\ Len(p) = k + 1 /\ p[k + 1] = Torn
    BY <1>1, <1>2, <2>1
  <2>3. \A i \in 1 .. k : p[i] = w[i]
    BY <1>2, <2>1
  <2> HIDE DEF p
  <2>4. \A i \in DOMAIN p : p[i].kind = "ROW" => i \in DOMAIN w /\ p[i] = w[i]
    BY <1>1, <2>2, <2>3
  <2>5. OneRow(p, lo, hi)
    BY <2>4 DEF OneRow
  <2> QED
    BY <2>2, <2>5 DEF p
<1>4. CASE ~torn
  <2>1. p = SubSeq(w, 1, k)
    BY <1>2, <1>4
  <2>2. OneRow(SubSeq(w, 1, k), lo, hi)
    BY <1>2 DEF OneRow
  <2> QED
    BY <1>2, <2>1, <2>2
<1> QED
  BY <1>3, <1>4

\* Any write by a WAL object whose rows take LSNs from next_lsn up to m.
LEMMA WriteStep ==
    ASSUME IInv, up, NEW m \in Nat, next_lsn <= m,
           NEW f \in FileName \cup {Unlinked}, NEW new \in Seq(Frame), NEW fs \in BOOLEAN,
           OneRow(new, next_lsn, m)
    PROVE  /\ DiskType(StoreFd(f, new, fs))
           /\ Unique(StoreFd(f, new, fs))
           /\ Below(StoreFd(f, new, fs), m)
<1>1. DiskType(disk) /\ Unique(disk) /\ Below(disk, next_lsn) /\ next_lsn \in Nat
  BY DEF IInv, TypeOK, CatalogueType
<1>2. CASE f = Unlinked
  <2>1. ASSUME NEW g, NEW i, RowIn(disk, g, i)
        PROVE  disk[g].frames[i].lsn < m
    <3>1. disk[g].frames[i] \in Frame
      BY <1>1, <2>1 DEF RowIn, Live, DiskType, File
    <3> QED
      BY <1>1, <2>1, <3>1 DEF Below, Frame
  <2>2. Below(disk, m)
    BY <2>1 DEF Below
  <2> QED
    BY <1>1, <1>2, <2>2 DEF StoreFd
<1>3. CASE f # Unlinked
  <2>1. f \in FileName /\ StoreFd(f, new, fs) = Store(f, new, fs)
    BY <1>3 DEF StoreFd
  <2> QED
    BY <1>1, <2>1, StoreType, StoreRows
<1> QED
  BY <1>2, <1>3

-----------------------------------------------------------------------------
(* segment_list.                                                           *)

\* The image of a finite set under a function is finite.
LEMMA ImageFinite ==
    ASSUME NEW S, IsFiniteSet(S), NEW f, f = [x \in S |-> f[x]]
    PROVE  IsFiniteSet({f[x] : x \in S})
<1>1. f \in Surjection(S, {f[x] : x \in S})
  BY DEF Surjection
<1> QED
  BY <1>1, FS_Surjection

\* push_back, a new last_lsn for the back and erase keep a list of entries.
LEMMA PushBackType ==
    ASSUME NEW l, ListType(l), NEW f \in FileName, NEW n \in Nat
    PROVE  ListType(PushBack(l, f, n))
<1>1. Cardinality(l) + 1 \in Nat
  BY FS_CardinalityType DEF ListType
<1>2. [pos |-> Cardinality(l) + 1, file |-> f, base_lsn |-> n, last_lsn |-> n] \in SegmentInfo
  BY <1>1 DEF SegmentInfo
<1>3. IsFiniteSet(PushBack(l, f, n))
  BY FS_AddElement DEF PushBack, ListType
<1> QED
  BY <1>2, <1>3 DEF PushBack, ListType

LEMMA BackLastType ==
    ASSUME NEW l, ListType(l), NEW n \in Nat
    PROVE  ListType(BackLast(l, n))
<1> DEFINE g == [e \in l |-> IF IsBack(l, e) THEN [e EXCEPT !.last_lsn = n] ELSE e]
<1>1. BackLast(l, n) = {g[e] : e \in l}
  BY DEF BackLast
<1>2. \A e \in l : g[e] \in SegmentInfo
  BY DEF ListType, SegmentInfo
<1>3. g = [e \in l |-> g[e]] /\ IsFiniteSet(l)
  BY DEF ListType
<1> HIDE DEF g
<1>4. IsFiniteSet({g[e] : e \in l})
  BY <1>3, ImageFinite
<1> QED
  BY <1>1, <1>2, <1>4 DEF ListType

LEMMA EraseType ==
    ASSUME NEW l, ListType(l), NEW gone
    PROVE  ListType(Erase(l, gone))
<1> DEFINE left == l \ gone
           rank(e) == Cardinality({d \in left : d.pos <= e.pos})
           g == [e \in left |-> [e EXCEPT !.pos = rank(e)]]
<1>1. Erase(l, gone) = {g[e] : e \in left}
  BY DEF Erase
<1>2. IsFiniteSet(left)
  BY FS_Subset DEF ListType
<1>3. \A e \in left : rank(e) \in Nat
  <2> SUFFICES ASSUME NEW e \in left PROVE rank(e) \in Nat
    OBVIOUS
  <2>1. {d \in left : d.pos <= e.pos} \in SUBSET left
    OBVIOUS
  <2>2. IsFiniteSet({d \in left : d.pos <= e.pos})
    BY <1>2, <2>1, FS_Subset
  <2> QED
    BY <2>2, FS_CardinalityType
<1> HIDE DEF rank
<1>4. \A e \in left : g[e] \in SegmentInfo
  BY <1>3 DEF ListType, SegmentInfo
<1>5. g = [e \in left |-> g[e]]
  OBVIOUS
<1> HIDE DEF g, left
<1>6. IsFiniteSet({g[e] : e \in left})
  BY <1>2, <1>5, ImageFinite
<1> QED
  BY <1>1, <1>4, <1>6 DEF ListType

-----------------------------------------------------------------------------
(* append.                                                                 *)

\* Opening a segment moves next_lsn up by the header, which is no row.
LEMMA AfterOpenType ==
    ASSUME TypeOK, NEW oh \in WriteOutcome, NEW o, o = AfterOpen(oh)
    PROVE  /\ o.file \in FileName \cup {Unlinked}
           /\ o.wrote \in Seq(Frame)
           /\ NoRow(o.wrote)
           /\ o.lsn \in Nat
           /\ next_lsn <= o.lsn
           /\ o.space \in Nat
           /\ ListType(o.segs)
<1>1. next_lsn \in Nat /\ active_segment_space \in Nat /\ ListType(segment_list)
  BY DEF TypeOK, CatalogueType
<1>2. CASE active_fd # NoFile
  <2>1. o = [file |-> active_fd, wrote |-> <<>>, lsn |-> next_lsn,
             space |-> active_segment_space, segs |-> segment_list]
    BY <1>2 DEF AfterOpen
  <2> QED
    BY <1>1, <1>2, <2>1 DEF TypeOK, CatalogueType, NoRow
<1>3. CASE active_fd = NoFile
  <2> DEFINE f == [id |-> segment_id, base |-> current_base_lsn]
             hd == Fr("HEADER", next_lsn, 0)
  <2>1. o = [file |-> f, wrote |-> Bytes(hd, oh), lsn |-> next_lsn + 1,
             space |-> active_segment_space + 1,
             segs |-> PushBack(segment_list, f, next_lsn)]
    BY <1>3 DEF AfterOpen
  <2>2. f \in FileName
    BY DEF TypeOK, CatalogueType, FileName
  <2>3. hd \in Frame /\ hd.kind # "ROW"
    BY <1>1, FrameType DEF Kinds, Fr
  <2> HIDE DEF f, hd
  <2>4. Bytes(hd, oh) \in Seq(Frame) /\ NoRow(Bytes(hd, oh))
    BY <2>3, BytesType, OutcomeType
  <2>5. ListType(PushBack(segment_list, f, next_lsn))
    BY <1>1, <2>2, PushBackType
  <2> QED
    BY <1>1, <2>1, <2>2, <2>4, <2>5
<1> QED
  BY <1>2, <1>3

\* The row append writes.
LEMMA RowType ==
    ASSUME TypeOK, NEW l \in Nat
    PROVE  Row(l) \in Frame /\ Row(l).lsn = l
  BY FrameType DEF TypeOK, CallsType, Row, Kinds, Fr

LEMMA AppendFailsStep == IInv /\ AppendFails => IInv'
<1> SUFFICES ASSUME IInv, AppendFails PROVE IInv'
  OBVIOUS
<1>1. PICK oh \in WriteOutcome, ow \in WriteOutcome \ {"ok"} :
        LET o == AfterOpen(oh)
        IN  /\ disk' = StoreFd(o.file, o.wrote \o Bytes(Row(o.lsn), ow), FALSE)
            /\ active_fd' = o.file
            /\ next_lsn' = o.lsn
            /\ active_segment_space' = o.space
            /\ segment_list' = o.segs
  BY DEF AppendFails
<1> DEFINE o == AfterOpen(oh)
           new == o.wrote \o Bytes(Row(o.lsn), ow)
<1>2. /\ o.file \in FileName \cup {Unlinked} /\ o.wrote \in Seq(Frame) /\ NoRow(o.wrote)
      /\ o.lsn \in Nat /\ next_lsn <= o.lsn /\ o.space \in Nat /\ ListType(o.segs)
  BY AfterOpenType DEF IInv
<1>3. /\ disk' = StoreFd(o.file, new, FALSE) /\ active_fd' = o.file
      /\ next_lsn' = o.lsn /\ active_segment_space' = o.space /\ segment_list' = o.segs
  BY <1>1
<1> HIDE DEF o
<1>4. Bytes(Row(o.lsn), ow) \in Seq(Frame) /\ NoRow(Bytes(Row(o.lsn), ow))
  BY <1>2, RowType, BytesType, OutcomeType DEF IInv
<1>5. new \in Seq(Frame) /\ OneRow(new, next_lsn, o.lsn)
  BY <1>2, <1>4, NoRowConcat, NoRowOneRow
<1>6. up
  BY DEF AppendFails, AppendCall
<1> HIDE DEF new
<1>7. DiskType(disk') /\ Unique(disk') /\ Below(disk', next_lsn')
  BY <1>2, <1>3, <1>5, <1>6, WriteStep
<1>8. /\ nrows' = nrows + 1
      /\ UNCHANGED <<up, checkpoint_list, registered_readers, is_shutdown, pruning_thread,
                  reader, ncheckpoints, nstops, pruned, boot_lsn,
                  durable_lsn, current_base_lsn, segment_id, acked>>
  BY DEF AppendFails, AppendCall
<1>9. TypeOK'
  <2>1. CatalogueType'
    BY <1>2, <1>3, <1>8 DEF IInv, TypeOK, CatalogueType
  <2>2. ReadersType' /\ FlagsType' /\ CallsType'
    BY <1>8 DEF IInv, TypeOK, ReadersType, FlagsType, CallsType
  <2> QED
    BY <1>7, <2>1, <2>2 DEF TypeOK
<1> QED
  BY <1>7, <1>9 DEF IInv

LEMMA AppendRowStep == IInv /\ AppendRow => IInv'
<1> SUFFICES ASSUME IInv, AppendRow PROVE IInv'
  OBVIOUS
<1>1. PICK oh \in WriteOutcome :
        LET o == AfterOpen(oh)
        IN  /\ disk' = StoreFd(o.file, o.wrote \o <<Row(o.lsn)>>, FALSE)
            /\ active_fd' = o.file
            /\ next_lsn' = o.lsn + 1
            /\ active_segment_space' = o.space + 1
            /\ segment_list' = BackLast(o.segs, o.lsn)
  BY DEF AppendRow
<1> DEFINE o == AfterOpen(oh)
           new == o.wrote \o <<Row(o.lsn)>>
<1>2. /\ o.file \in FileName \cup {Unlinked} /\ o.wrote \in Seq(Frame) /\ NoRow(o.wrote)
      /\ o.lsn \in Nat /\ next_lsn <= o.lsn /\ o.space \in Nat /\ ListType(o.segs)
  BY AfterOpenType DEF IInv
<1>3. /\ disk' = StoreFd(o.file, new, FALSE) /\ active_fd' = o.file
      /\ next_lsn' = o.lsn + 1 /\ active_segment_space' = o.space + 1
      /\ segment_list' = BackLast(o.segs, o.lsn)
  BY <1>1
<1> HIDE DEF o
<1>4. Row(o.lsn) \in Frame /\ Row(o.lsn).lsn = o.lsn /\ next_lsn \in Nat
  BY <1>2, RowType DEF IInv, TypeOK, CatalogueType
<1>5. new \in Seq(Frame) /\ OneRow(new, next_lsn, o.lsn + 1)
  <2>1. <<>> \in Seq(Frame) /\ NoRow(<<>>)
    BY DEF NoRow
  <2>2. /\ new \o <<>> \in Seq(Frame)
        /\ OneRow(new \o <<>>, next_lsn, o.lsn + 1)
    BY <1>2, <1>4, <2>1, RowBetween
  <2>3. new \o <<>> = new
    BY <1>2, <1>4
  <2> QED
    BY <2>2, <2>3
<1>6. up /\ o.lsn + 1 \in Nat /\ next_lsn <= o.lsn + 1
  BY <1>2, <1>4 DEF AppendRow, AppendCall
<1>7. ListType(segment_list')
  BY <1>2, <1>3, BackLastType
<1> HIDE DEF new
<1>8. DiskType(disk') /\ Unique(disk') /\ Below(disk', next_lsn')
  BY <1>2, <1>3, <1>5, <1>6, WriteStep
<1>9. /\ nrows' = nrows + 1
      /\ acked' = acked \cup {nrows + 1}
      /\ UNCHANGED <<up, checkpoint_list, registered_readers, is_shutdown, pruning_thread,
                  reader, ncheckpoints, nstops, pruned, boot_lsn,
                  durable_lsn, current_base_lsn, segment_id>>
  BY DEF AppendRow, AppendCall
<1>10. TypeOK'
  <2>1. CatalogueType'
    <3>1. /\ active_fd' \in FileName \cup {NoFile, Unlinked}
          /\ next_lsn' \in Nat /\ active_segment_space' \in Nat
      BY <1>2, <1>3
    <3>2. CatalogueType
      BY DEF IInv, TypeOK
    <3> QED
      BY <1>7, <1>9, <3>1, <3>2 DEF CatalogueType
  <2>2. ReadersType' /\ FlagsType' /\ CallsType'
    BY <1>9 DEF IInv, TypeOK, ReadersType, FlagsType, CallsType
  <2> QED
    BY <1>8, <2>1, <2>2 DEF TypeOK
<1> QED
  BY <1>8, <1>10 DEF IInv

\* The frames of an append that fills its segment, and what writing them leaves.
LEMMA SealWrites ==
    ASSUME IInv, up, NEW oh \in WriteOutcome, NEW os \in WriteOutcome, NEW fs \in BOOLEAN,
           NEW o, o = AfterOpen(oh), NEW m \in Nat, o.lsn < m
    PROVE  LET d == StoreFd(o.file, o.wrote \o <<Row(o.lsn)>> \o Bytes(Fr("SEAL", o.lsn + 1, 0), os), fs)
           IN  DiskType(d) /\ Unique(d) /\ Below(d, m)
<1> DEFINE seal == Bytes(Fr("SEAL", o.lsn + 1, 0), os)
           new == o.wrote \o <<Row(o.lsn)>> \o seal
<1>1. /\ o.file \in FileName \cup {Unlinked} /\ o.wrote \in Seq(Frame) /\ NoRow(o.wrote)
      /\ o.lsn \in Nat /\ next_lsn <= o.lsn
  BY AfterOpenType DEF IInv
<1>2. Row(o.lsn) \in Frame /\ Row(o.lsn).lsn = o.lsn /\ next_lsn \in Nat
  BY <1>1, RowType DEF IInv, TypeOK, CatalogueType
<1>3. seal \in Seq(Frame) /\ NoRow(seal)
  <2>1. Fr("SEAL", o.lsn + 1, 0) \in Frame /\ Fr("SEAL", o.lsn + 1, 0).kind # "ROW"
    BY <1>1, FrameType DEF Kinds, Fr
  <2> QED
    BY <2>1, BytesType, OutcomeType
<1> HIDE DEF seal
<1>4. new \in Seq(Frame) /\ OneRow(new, next_lsn, o.lsn + 1)
  BY <1>1, <1>2, <1>3, RowBetween
<1> HIDE DEF new
<1>5. OneRow(new, next_lsn, m)
  <2>1. \A i \in DOMAIN new : new[i].lsn \in Nat
    <3>1. \A i \in DOMAIN new : new[i] \in Frame
      BY <1>4
    <3> QED
      BY <3>1 DEF Frame
  <2> QED
    BY <1>1, <1>4, <2>1 DEF OneRow
<1>6. next_lsn <= m
  BY <1>1, <1>2
<1>7. DiskType(StoreFd(o.file, new, fs)) /\ Unique(StoreFd(o.file, new, fs))
      /\ Below(StoreFd(o.file, new, fs), m)
  BY <1>1, <1>4, <1>5, <1>6, WriteStep
<1> QED
  BY <1>7 DEF new, seal

LEMMA AppendSealsStep == IInv /\ AppendSeals => IInv'
<1> SUFFICES ASSUME IInv, AppendSeals PROVE IInv'
  OBVIOUS
<1>1. PICK oh, os \in WriteOutcome :
        LET o    == AfterOpen(oh)
            seal == Bytes(Fr("SEAL", o.lsn + 1, 0), os)
        IN  /\ disk' = StoreFd(o.file, o.wrote \o <<Row(o.lsn)>> \o seal, Strategy = "ALWAYS")
            /\ durable_lsn' = IF Strategy = "ALWAYS" THEN o.lsn + 1 ELSE durable_lsn
            /\ segment_list' = BackLast(o.segs, o.lsn + 1)
            /\ next_lsn' = o.lsn + 2
            /\ current_base_lsn' = o.lsn + 2
  BY DEF AppendSeals
<1> DEFINE o == AfterOpen(oh)
<1>2. o.lsn \in Nat /\ ListType(o.segs)
  BY AfterOpenType DEF IInv
<1>3. up /\ o.lsn + 2 \in Nat /\ o.lsn < o.lsn + 2
  BY <1>2 DEF AppendSeals, AppendCall
<1>4. disk' = StoreFd(o.file, o.wrote \o <<Row(o.lsn)>> \o Bytes(Fr("SEAL", o.lsn + 1, 0), os),
                      Strategy = "ALWAYS")
  BY <1>1
<1>5. next_lsn' = o.lsn + 2 /\ current_base_lsn' = o.lsn + 2
      /\ segment_list' = BackLast(o.segs, o.lsn + 1)
      /\ durable_lsn' \in {o.lsn + 1, durable_lsn}
  BY <1>1
<1> HIDE DEF o
<1>6. DiskType(disk') /\ Unique(disk') /\ Below(disk', next_lsn')
  BY <1>3, <1>4, <1>5, SealWrites DEF o
<1>7. ListType(segment_list')
  BY <1>2, <1>5, BackLastType
<1>8. /\ nrows' = nrows + 1
      /\ acked' = acked \cup {nrows + 1}
      /\ active_segment_space' = 0
      /\ active_fd' = NoFile
      /\ segment_id' = segment_id + 1
      /\ UNCHANGED <<up, checkpoint_list, registered_readers, is_shutdown, pruning_thread,
                  reader, ncheckpoints, nstops, pruned, boot_lsn>>
  BY DEF AppendSeals, AppendCall
<1>9. TypeOK'
  <2>1. CatalogueType'
    BY <1>2, <1>5, <1>7, <1>8 DEF IInv, TypeOK, CatalogueType
  <2>2. ReadersType' /\ FlagsType' /\ CallsType'
    BY <1>8 DEF IInv, TypeOK, ReadersType, FlagsType, CallsType
  <2> QED
    BY <1>6, <2>1, <2>2 DEF TypeOK
<1> QED
  BY <1>6, <1>9 DEF IInv

LEMMA AppendSealUnsyncedStep == IInv /\ AppendSealUnsynced => IInv'
<1> SUFFICES ASSUME IInv, AppendSealUnsynced PROVE IInv'
  OBVIOUS
<1>1. PICK oh, os \in WriteOutcome :
        LET o    == AfterOpen(oh)
            seal == Bytes(Fr("SEAL", o.lsn + 1, 0), os)
        IN  /\ disk' = StoreFd(o.file, o.wrote \o <<Row(o.lsn)>> \o seal, FALSE)
            /\ segment_list' = BackLast(o.segs, o.lsn + 1)
            /\ next_lsn' = o.lsn + 1
            /\ active_segment_space' = o.space + 1
  BY DEF AppendSealUnsynced
<1> DEFINE o == AfterOpen(oh)
<1>2. o.lsn \in Nat /\ ListType(o.segs) /\ o.space \in Nat
  BY AfterOpenType DEF IInv
<1>3. up /\ o.lsn + 1 \in Nat /\ o.lsn < o.lsn + 1
  BY <1>2 DEF AppendSealUnsynced, AppendCall
<1>4. disk' = StoreFd(o.file, o.wrote \o <<Row(o.lsn)>> \o Bytes(Fr("SEAL", o.lsn + 1, 0), os),
                      FALSE)
  BY <1>1
<1>5. next_lsn' = o.lsn + 1 /\ active_segment_space' = o.space + 1
      /\ segment_list' = BackLast(o.segs, o.lsn + 1)
  BY <1>1
<1> HIDE DEF o
<1>6. DiskType(disk') /\ Unique(disk') /\ Below(disk', next_lsn')
  BY <1>3, <1>4, <1>5, SealWrites DEF o
<1>7. ListType(segment_list')
  BY <1>2, <1>5, BackLastType
<1>8. /\ nrows' = nrows + 1
      /\ active_fd' = NoFile
      /\ UNCHANGED <<up, checkpoint_list, registered_readers, is_shutdown, pruning_thread,
                  reader, ncheckpoints, nstops, pruned, boot_lsn,
                  durable_lsn, current_base_lsn, segment_id, acked>>
  BY DEF AppendSealUnsynced, AppendCall
<1>9. TypeOK'
  <2>1. CatalogueType'
    BY <1>2, <1>5, <1>7, <1>8 DEF IInv, TypeOK, CatalogueType
  <2>2. ReadersType' /\ FlagsType' /\ CallsType'
    BY <1>8 DEF IInv, TypeOK, ReadersType, FlagsType, CallsType
  <2> QED
    BY <1>6, <2>1, <2>2 DEF TypeOK
<1> QED
  BY <1>6, <1>9 DEF IInv

-----------------------------------------------------------------------------
(* sync, checkpoint, shutdown, the worker and the iterators.               *)

\* A write without rows, by a call that leaves next_lsn alone.
LEMMA WriteNoRow ==
    ASSUME IInv, up, NEW f \in FileName \cup {Unlinked}, NEW new \in Seq(Frame),
           NEW fs \in BOOLEAN, NoRow(new)
    PROVE  /\ DiskType(StoreFd(f, new, fs))
           /\ Unique(StoreFd(f, new, fs))
           /\ Below(StoreFd(f, new, fs), next_lsn)
<1>1. next_lsn \in Nat /\ OneRow(new, next_lsn, next_lsn)
  BY NoRowOneRow DEF IInv, TypeOK, CatalogueType
<1> QED
  BY <1>1, WriteStep

\* Frames of the kinds written besides rows.
LEMMA MarkerType ==
    ASSUME NEW kind \in {"SEAL", "CHECKPOINT", "SHUTDOWN"}, NEW lsn \in Nat,
           NEW o \in WriteOutcome
    PROVE  /\ Fr(kind, lsn, 0) \in Frame
           /\ Bytes(Fr(kind, lsn, 0), o) \in Seq(Frame)
           /\ NoRow(Bytes(Fr(kind, lsn, 0), o))
<1>1. Fr(kind, lsn, 0) \in Frame /\ Fr(kind, lsn, 0).kind # "ROW"
  BY FrameType DEF Kinds, Fr
<1> QED
  BY <1>1, BytesType, OutcomeType

LEMMA SyncStep == IInv /\ Sync => IInv'
<1> SUFFICES ASSUME IInv, Sync PROVE IInv'
  OBVIOUS
<1>1. <<>> \in Seq(Frame) /\ NoRow(<<>>)
  BY DEF NoRow
<1>2. up /\ active_fd \in FileName \cup {Unlinked}
  BY DEF IInv, TypeOK, CatalogueType, Sync
<1>3. DiskType(disk') /\ Unique(disk') /\ Below(disk', next_lsn)
  BY <1>1, <1>2, WriteNoRow DEF Sync
<1>4. durable_lsn' \in Nat
  BY DEF IInv, TypeOK, CatalogueType, Sync, LastLsn
<1>5. TypeOK'
  BY <1>3, <1>4 DEF IInv, TypeOK, CatalogueType, ReadersType, FlagsType, CallsType,
                    Sync, catalogue, counters, histories
<1> QED
  BY <1>3, <1>5 DEF IInv, Sync, catalogue

LEMMA CheckpointStep == IInv /\ Checkpoint => IInv'
<1> SUFFICES ASSUME IInv, Checkpoint PROVE IInv'
  OBVIOUS
<1> DEFINE f == [id |-> segment_id, base |-> current_base_lsn]
<1>1. f \in FileName /\ f # Unlinked /\ next_lsn \in Nat
  BY DEF IInv, TypeOK, CatalogueType, FileName, Unlinked
<1>2. PICK o \in WriteOutcome :
        disk' = Store(f, Bytes(Fr("CHECKPOINT", next_lsn, 0), o), FALSE)
  BY DEF Checkpoint
<1> HIDE DEF f
<1>3. disk' = StoreFd(f, Bytes(Fr("CHECKPOINT", next_lsn, 0), o), FALSE)
  BY <1>1, <1>2 DEF StoreFd
<1>4. DiskType(disk') /\ Unique(disk') /\ Below(disk', next_lsn)
  BY <1>1, <1>3, MarkerType, WriteNoRow DEF Checkpoint
<1>5. checkpoint_list' \in Seq(Nat) /\ ncheckpoints' \in Nat
  BY <1>1 DEF IInv, TypeOK, CallsType, Checkpoint, LastLsn
<1>6. TypeOK'
  BY <1>4, <1>5 DEF IInv, TypeOK, CatalogueType, ReadersType, FlagsType, CallsType,
                    Checkpoint, catalogue, histories
<1> QED
  BY <1>4, <1>6 DEF IInv, Checkpoint, catalogue

LEMMA ShutdownFlagStep == IInv /\ ShutdownFlag => IInv'
<1> SUFFICES ASSUME IInv, ShutdownFlag PROVE IInv'
  OBVIOUS
<1>1. TypeOK'
  BY DEF IInv, TypeOK, CatalogueType, ReadersType, FlagsType, CallsType,
         ShutdownFlag, catalogue, counters, histories
<1> QED
  BY <1>1 DEF IInv, ShutdownFlag, catalogue

LEMMA ShutdownSealStep == IInv /\ ShutdownSeal => IInv'
<1> SUFFICES ASSUME IInv, ShutdownSeal PROVE IInv'
  OBVIOUS
<1>1. DiskType(disk') /\ Unique(disk') /\ Below(disk', next_lsn)
  <2>1. CASE active_fd = NoFile
    BY <2>1 DEF IInv, TypeOK, ShutdownSeal
  <2>2. CASE active_fd # NoFile
    <3>1. up /\ active_fd \in FileName \cup {Unlinked} /\ next_lsn \in Nat
      BY <2>2 DEF IInv, TypeOK, CatalogueType, ShutdownSeal
    <3>2. PICK o \in WriteOutcome, fs \in FsyncOutcome :
            disk' = StoreFd(active_fd, Bytes(Fr("SHUTDOWN", next_lsn, 0), o), fs)
      BY <2>2 DEF ShutdownSeal
    <3> QED
      BY <3>1, <3>2, MarkerType, WriteNoRow, OutcomeType
  <2> QED
    BY <2>1, <2>2
<1>2. TypeOK'
  BY <1>1 DEF IInv, TypeOK, CatalogueType, ReadersType, FlagsType, CallsType,
              ShutdownSeal, counters, histories
<1> QED
  BY <1>1, <1>2 DEF IInv, ShutdownSeal

\* Removing files removes rows and adds none.
LEMMA PruneStep == IInv /\ Prune => IInv'
<1> SUFFICES ASSUME IInv, Prune PROVE IInv'
  OBVIOUS
<1>1. PICK m \in Pins :
        LET gone  == Gone(m)
            files == {e.file : e \in gone}
        IN  /\ disk' = [f \in DOMAIN disk \ files |-> disk[f]]
            /\ segment_list' = Erase(segment_list, gone)
            /\ active_fd' = IF active_fd \in files THEN Unlinked ELSE active_fd
            /\ pruned' = pruned \cup
                 UNION {{disk[f].frames[i].row : i \in DOMAIN disk[f].frames} : f \in files}
  BY DEF Prune
<1> DEFINE gone == Gone(m)
           files == {e.file : e \in gone}
<1>2. /\ disk' = [f \in DOMAIN disk \ files |-> disk[f]]
      /\ segment_list' = Erase(segment_list, gone)
      /\ active_fd' \in {Unlinked, active_fd}
      /\ pruned' = pruned \cup
           UNION {{disk[f].frames[i].row : i \in DOMAIN disk[f].frames} : f \in files}
  BY <1>1
<1>3. files \subseteq DOMAIN disk
  BY DEF Gone, Removable
<1> HIDE DEF files, gone
<1>4. DiskType(disk) /\ ListType(segment_list)
  BY DEF IInv, TypeOK, CatalogueType
<1>5. DiskType(disk')
  <2>1. IsFiniteSet(DOMAIN disk \ files)
    BY <1>4, FS_Subset DEF DiskType
  <2> QED
    BY <1>2, <1>4, <2>1 DEF DiskType
<1>6. ListType(segment_list')
  BY <1>2, <1>4, EraseType
<1>7. pruned' \subseteq Nat
  <2>1. \A f \in files : \A i \in DOMAIN disk[f].frames : disk[f].frames[i] \in Frame
    BY <1>3, <1>4 DEF DiskType, File
  <2>2. \A f \in files : \A i \in DOMAIN disk[f].frames : disk[f].frames[i].row \in Nat
    BY <2>1 DEF Frame
  <2>3. pruned \subseteq Nat
    BY DEF IInv, TypeOK, CallsType
  <2>4. ASSUME NEW k \in pruned' PROVE k \in Nat
    <3>1. CASE k \in pruned
      BY <2>3, <3>1
    <3>2. CASE k \notin pruned
      <4>1. k \in UNION {{disk[f].frames[i].row : i \in DOMAIN disk[f].frames} : f \in files}
        BY <1>2, <2>4, <3>2
      <4>2. PICK f \in files : k \in {disk[f].frames[i].row : i \in DOMAIN disk[f].frames}
        BY <4>1
      <4> QED
        BY <2>2, <4>2
    <3> QED
      BY <3>1, <3>2
  <2> QED
    BY <2>4
<1>8. Unique(disk') /\ Below(disk', next_lsn)
  <2>1. up
    BY DEF Prune
  <2>2. \A f, i : RowIn(disk', f, i) => RowIn(disk, f, i) /\ disk'[f].frames[i] = disk[f].frames[i]
    BY <1>2 DEF RowIn
  <2> QED
    BY <2>1, <2>2, FewerRows DEF IInv
<1>9. TypeOK'
  <2>1. UNCHANGED <<up, next_lsn, active_segment_space, current_base_lsn, segment_id,
                    durable_lsn, checkpoint_list, registered_readers, is_shutdown,
                    pruning_thread, reader, nrows, ncheckpoints, nstops, acked, boot_lsn>>
    BY DEF Prune, counters
  <2>2. CatalogueType'
    BY <1>2, <1>6, <2>1 DEF IInv, TypeOK, CatalogueType
  <2>3. ReadersType' /\ FlagsType' /\ CallsType'
    BY <1>7, <2>1 DEF IInv, TypeOK, ReadersType, FlagsType, CallsType
  <2> QED
    BY <1>5, <2>2, <2>3 DEF TypeOK
<1> QED
  BY <1>8, <1>9 DEF IInv, Prune

\* What an iterator reads is a frame.
LEMMA ReadAtType ==
    ASSUME TypeOK, NEW lsn
    PROVE  ReadAt(lsn) \subseteq Frame
<1> SUFFICES ASSUME NEW fr \in ReadAt(lsn) PROVE fr \in Frame
  OBVIOUS
<1>1. PICK e \in segment_list : \E i \in DOMAIN Decodable(FramesOf(e.file)) :
        fr = Decodable(FramesOf(e.file))[i]
  BY DEF ReadAt, Holding
<1>2. FramesOf(e.file) \in Seq(Frame)
  BY DEF TypeOK, DiskType, FramesOf, File
<1>3. Decodable(FramesOf(e.file)) \in Seq(Frame)
  BY <1>2, DecodablePrefix
<1> QED
  BY <1>1, <1>3

\* An iterator touches its own state and its pin only.
LEMMA ReaderStepStep == ASSUME NEW r \in Readers PROVE IInv /\ ReaderStep(r) => IInv'
<1> SUFFICES ASSUME IInv, ReaderStep(r) PROVE IInv'
  OBVIOUS
<1> DEFINE Iterator == [pc : {"out", "idle", "read", "advance", "wait"},
                        from : Nat, current_lsn : Nat, record : Frame, got : SUBSET Nat]
<1>1. UNCHANGED <<disk, up, catalogue, durable_lsn, checkpoint_list,
                  is_shutdown, pruning_thread, counters, histories>>
  BY DEF ReaderStep, Attach, NextCall, NextRead, NextAdvance, TailWait, Detach, IteratorStep
<1>2. /\ reader \in [Readers -> Iterator]
      /\ DOMAIN registered_readers \subseteq Readers
      /\ registered_readers \in [DOMAIN registered_readers -> Nat]
  BY DEF IInv, TypeOK, ReadersType
<1>3. Out \in Iterator
  BY FrameType DEF Out
<1>4. \A n \in Nat : /\ DOMAIN Pinned(r, n) \subseteq Readers
                     /\ Pinned(r, n) \in [DOMAIN Pinned(r, n) -> Nat]
  BY <1>2 DEF Pinned
<1>5. CASE Attach(r)
  <2>1. PICK l \in StartLsns :
          /\ reader' = [reader EXCEPT ![r] =
                          [Out EXCEPT !.pc = "idle", !.from = l, !.current_lsn = l]]
          /\ registered_readers' = Pinned(r, l)
    BY <1>5 DEF Attach
  <2>2. l \in Nat
    BY WalAssumption
  <2>3. [Out EXCEPT !.pc = "idle", !.from = l, !.current_lsn = l] \in Iterator
    BY <1>3, <2>2
  <2>4. reader' \in [Readers -> Iterator]
    BY <1>2, <2>1, <2>3
  <2> QED
    BY <1>1, <1>4, <2>1, <2>2, <2>4
       DEF IInv, TypeOK, CatalogueType, ReadersType, FlagsType, CallsType,
           catalogue, counters, histories
<1>6. CASE NextCall(r)
  BY <1>1, <1>2, <1>6
     DEF IInv, TypeOK, CatalogueType, ReadersType, FlagsType, CallsType,
         catalogue, counters, histories, NextCall
<1>7. CASE NextRead(r)
  <2>1. reader' \in [Readers -> Iterator]
    <3>1. CASE ReadAt(reader[r].current_lsn) = {}
      BY <1>2, <1>7, <3>1 DEF NextRead
    <3>2. CASE ReadAt(reader[r].current_lsn) # {}
      <4>1. PICK fr \in ReadAt(reader[r].current_lsn) :
              reader' = [reader EXCEPT ![r].pc = "advance", ![r].record = fr]
        BY <1>7, <3>2 DEF NextRead
      <4>2. fr \in Frame
        BY ReadAtType DEF IInv
      <4> QED
        BY <1>2, <4>1, <4>2
    <3> QED
      BY <3>1, <3>2
  <2> QED
    BY <1>1, <1>2, <1>7, <2>1
       DEF IInv, TypeOK, CatalogueType, ReadersType, FlagsType, CallsType,
           catalogue, counters, histories, NextRead
<1>8. CASE NextAdvance(r)
  <2>1. reader[r] \in Iterator
    BY <1>2
  <2>2. Returned(reader[r]) \in Iterator
    <3> DEFINE lsn == reader[r].current_lsn + 1
               got == IF reader[r].record.kind = "ROW"
                      THEN reader[r].got \cup {reader[r].record.row} ELSE reader[r].got
    <3>1. lsn \in Nat /\ got \in SUBSET Nat
      BY <2>1 DEF Frame
    <3>2. Returned(reader[r]) =
            [reader[r] EXCEPT !.pc = "idle", !.current_lsn = lsn, !.record = Torn, !.got = got]
      BY DEF Returned
    <3> HIDE DEF lsn, got
    <3> QED
      BY <2>1, <3>1, <3>2, FrameType
  <2>3. reader' \in [Readers -> Iterator]
    BY <1>2, <1>8, <2>2 DEF NextAdvance
  <2>4. /\ DOMAIN registered_readers' \subseteq Readers
        /\ registered_readers' \in [DOMAIN registered_readers' -> Nat]
    BY <1>4, <1>8, <2>1 DEF NextAdvance
  <2> QED
    BY <1>1, <2>3, <2>4
       DEF IInv, TypeOK, CatalogueType, ReadersType, FlagsType, CallsType,
           catalogue, counters, histories
<1>9. CASE TailWait(r)
  <2>1. reader' \in [Readers -> Iterator]
    <3>1. PICK pc \in {"idle", "read"} : reader' = [reader EXCEPT ![r].pc = pc]
      BY <1>9 DEF TailWait
    <3> QED
      BY <1>2, <3>1
  <2> QED
    BY <1>1, <1>9, <2>1
       DEF IInv, TypeOK, CatalogueType, ReadersType, FlagsType, CallsType,
           catalogue, counters, histories, TailWait
<1>10. CASE Detach(r)
  <2>1. reader' \in [Readers -> Iterator]
    BY <1>2, <1>3, <1>10 DEF Detach
  <2>2. /\ DOMAIN registered_readers' \subseteq Readers
        /\ registered_readers' \in [DOMAIN registered_readers' -> Nat]
    BY <1>2, <1>10 DEF Detach, Unpinned
  <2> QED
    BY <1>1, <2>1, <2>2
       DEF IInv, TypeOK, CatalogueType, ReadersType, FlagsType, CallsType,
           catalogue, counters, histories
<1> QED
  BY <1>5, <1>6, <1>7, <1>8, <1>9, <1>10 DEF ReaderStep

-----------------------------------------------------------------------------
(* The process ends and starts.                                            *)

\* A prefix of a file, perhaps with a torn frame behind it, has no frame of its own that can be
\* decoded.
LEMMA PrefixLive ==
    ASSUME NEW s \in Seq(Frame), NEW k \in 0 .. Len(s),
           NEW p \in {SubSeq(s, 1, k), SubSeq(s, 1, k) \o <<Torn>>}
    PROVE  /\ p \in Seq(Frame)
           /\ \A i : Live(p, i) => Live(s, i) /\ p[i] = s[i]
<1>1. Torn \in Frame /\ Torn.kind = "TORN"
  BY FrameType DEF Torn, Fr
<1>2. /\ SubSeq(s, 1, k) \in Seq(Frame)
      /\ Len(SubSeq(s, 1, k)) = k
      /\ \A i \in 1 .. k : SubSeq(s, 1, k)[i] = s[i]
  OBVIOUS
<1>3. /\ p \in Seq(Frame)
      /\ \A i \in 1 .. k : p[i] = s[i]
      /\ \A i \in DOMAIN p : i \in 1 .. k \/ p[i].kind = "TORN"
  <2>1. CASE p = SubSeq(s, 1, k) \o <<Torn>>
    <3>1. p \in Seq(Frame) /\ Len(p) = k + 1 /\ p[k + 1] = Torn
      BY <1>1, <1>2, <2>1
    <3>2. \A i \in 1 .. k : p[i] = s[i]
      BY <1>2, <2>1
    <3>3. \A i \in DOMAIN p : i \in 1 .. k \/ i = k + 1
      BY <3>1
    <3> QED
      BY <1>1, <3>1, <3>2, <3>3
  <2>2. CASE p = SubSeq(s, 1, k)
    BY <1>2, <2>2
  <2> QED
    BY <2>1, <2>2
<1>4. ASSUME NEW i, Live(p, i)
      PROVE  Live(s, i) /\ p[i] = s[i]
  <2>1. i \in 1 .. k
    <3>1. i \in DOMAIN p /\ p \in Seq(Frame)
      BY <1>3, <1>4 DEF Live
    <3>2. i \in 1 .. i
      BY <3>1
    <3> QED
      BY <1>3, <1>4, <3>1, <3>2 DEF Live
  <2>2. \A j \in 1 .. i : s[j].kind # "TORN"
    BY <1>3, <1>4, <2>1 DEF Live
  <2> QED
    BY <1>3, <2>1, <2>2 DEF Live
<1> QED
  BY <1>3, <1>4

\* Without a WAL object the directory is all there is to be right about.
LEMMA DownStep ==
    ASSUME IInv, Down, DiskType(disk'), Unique(disk'), nrows' \in Nat
    PROVE  IInv'
<1>1. CatalogueType'
  BY FS_EmptySet DEF Down, CatalogueType, ListType
<1>2. ReadersType'
  <2>1. Out \in [pc : {"out", "idle", "read", "advance", "wait"},
                 from : Nat, current_lsn : Nat, record : Frame, got : SUBSET Nat]
    BY FrameType DEF Out
  <2>2. reader' = [r \in Readers |-> Out] /\ registered_readers' = [r \in {} |-> 0]
    BY DEF Down
  <2> QED
    BY <2>1, <2>2 DEF ReadersType
<1>3. FlagsType' /\ ~up'
  BY DEF FlagsType, Down
<1>4. CallsType'
  <2>1. checkpoint_list' = <<>> /\ UNCHANGED <<ncheckpoints, acked, pruned>> /\ nstops' = nstops + 1
    BY DEF Down
  <2> QED
    BY <2>1 DEF IInv, TypeOK, CallsType
<1> QED
  BY <1>1, <1>2, <1>3, <1>4 DEF IInv, TypeOK

\* A call cut short leaves a directory in which LSNs still name rows.
LEMMA InterruptedStep ==
    ASSUME IInv, up, NEW f \in FileName \cup {Unlinked}, NEW w \in Seq(Frame),
           NEW m \in Nat, next_lsn <= m, OneRow(w, next_lsn, m), Interrupted(f, w)
    PROVE  DiskType(disk') /\ Unique(disk')
<1>1. PICK t \in 0 .. Len(w), torn \in BOOLEAN :
        disk' = StoreFd(f, SubSeq(w, 1, t) \o (IF torn THEN <<Torn>> ELSE <<>>), FALSE)
  BY DEF Interrupted
<1> DEFINE p == SubSeq(w, 1, t) \o (IF torn THEN <<Torn>> ELSE <<>>)
<1>2. next_lsn \in Nat
  BY DEF IInv, TypeOK, CatalogueType
<1>3. p \in Seq(Frame) /\ OneRow(p, next_lsn, m)
  BY <1>2, PrefixRow
<1>4. disk' = StoreFd(f, p, FALSE)
  BY <1>1
<1> HIDE DEF p
<1> QED
  BY <1>3, <1>4, WriteStep

LEMMA ProcessEndsStep == IInv /\ ProcessEnds => IInv'
<1> SUFFICES ASSUME IInv, ProcessEnds PROVE IInv'
  OBVIOUS
<1>1. DiskType(disk') /\ Unique(disk') /\ nrows' \in Nat /\ Down
  BY DEF IInv, TypeOK, CallsType, ProcessEnds
<1> QED
  BY <1>1, DownStep

LEMMA CrashInAppendStep == IInv /\ CrashInAppend => IInv'
<1> SUFFICES ASSUME IInv, CrashInAppend PROVE IInv'
  OBVIOUS
<1> DEFINE o == AfterOpen("ok")
           seal == IF o.space + 1 >= MaxSegSize THEN <<Fr("SEAL", o.lsn + 1, 0)>> ELSE <<>>
           w == o.wrote \o <<Row(o.lsn)>> \o seal
<1>1. /\ o.file \in FileName \cup {Unlinked} /\ o.wrote \in Seq(Frame) /\ NoRow(o.wrote)
      /\ o.lsn \in Nat /\ next_lsn <= o.lsn
  BY AfterOpenType DEF IInv, WriteOutcome
<1>2. Down /\ up /\ Interrupted(o.file, w) /\ nrows' \in Nat
  BY DEF CrashInAppend, Down, IInv, TypeOK, CallsType
<1> HIDE DEF o
<1>3. Row(o.lsn) \in Frame /\ Row(o.lsn).lsn = o.lsn /\ next_lsn \in Nat
  BY <1>1, RowType DEF IInv, TypeOK, CatalogueType
<1>4. seal \in Seq(Frame) /\ NoRow(seal)
  <2>1. Fr("SEAL", o.lsn + 1, 0) \in Frame /\ Fr("SEAL", o.lsn + 1, 0).kind # "ROW"
    BY <1>1, FrameType DEF Kinds, Fr
  <2> QED
    BY <2>1 DEF NoRow
<1> HIDE DEF seal
<1>5. w \in Seq(Frame) /\ OneRow(w, next_lsn, o.lsn + 1)
  BY <1>1, <1>3, <1>4, RowBetween
<1>6. o.lsn + 1 \in Nat /\ next_lsn <= o.lsn + 1
  BY <1>1, <1>3
<1> HIDE DEF w
<1>7. DiskType(disk') /\ Unique(disk')
  BY <1>1, <1>2, <1>5, <1>6, InterruptedStep
<1> QED
  BY <1>2, <1>7, DownStep

\* A crash while a frame that is no row is written.
LEMMA CrashInMarker ==
    ASSUME IInv, Down, UNCHANGED nrows, NEW f \in FileName \cup {Unlinked},
           NEW kind \in {"CHECKPOINT", "SHUTDOWN"},
           Interrupted(f, <<Fr(kind, next_lsn, 0)>>)
    PROVE  IInv'
<1> DEFINE w == <<Fr(kind, next_lsn, 0)>>
<1>1. next_lsn \in Nat /\ up /\ nrows' \in Nat
  BY DEF IInv, TypeOK, CatalogueType, CallsType, Down
<1>2. Fr(kind, next_lsn, 0) \in Frame /\ Fr(kind, next_lsn, 0).kind # "ROW"
  BY <1>1, FrameType DEF Kinds, Fr
<1>3. w \in Seq(Frame) /\ NoRow(w)
  BY <1>2 DEF NoRow
<1>4. OneRow(w, next_lsn, next_lsn)
  BY <1>3, NoRowOneRow
<1>5. Interrupted(f, w) /\ next_lsn <= next_lsn
  BY <1>1
<1> HIDE DEF w
<1>6. DiskType(disk') /\ Unique(disk')
  BY <1>1, <1>3, <1>4, <1>5, InterruptedStep
<1> QED
  BY <1>1, <1>6, DownStep

LEMMA CrashInCheckpointStep == IInv /\ CrashInCheckpoint => IInv'
<1> SUFFICES ASSUME IInv, CrashInCheckpoint PROVE IInv'
  OBVIOUS
<1>1. [id |-> segment_id, base |-> current_base_lsn] \in FileName
  BY DEF IInv, TypeOK, CatalogueType, FileName
<1> QED
  BY <1>1, CrashInMarker DEF CrashInCheckpoint

LEMMA CrashInShutdownStep == IInv /\ CrashInShutdown => IInv'
<1> SUFFICES ASSUME IInv, CrashInShutdown PROVE IInv'
  OBVIOUS
<1>1. active_fd \in FileName \cup {Unlinked}
  BY DEF IInv, TypeOK, CatalogueType, CrashInShutdown
<1> QED
  BY <1>1, CrashInMarker DEF CrashInShutdown

\* Power loss leaves prefixes of the files.
LEMMA PowerLossFrames ==
    ASSUME IInv, PowerLoss
    PROVE  /\ DiskType(disk')
           /\ \A f, i : FrameIn(disk', f, i)
                => FrameIn(disk, f, i) /\ disk'[f].frames[i] = disk[f].frames[i]
<1>1. PICK k \in [Unsynced -> UNION {disk[f].synced .. Len(disk[f].frames) : f \in Unsynced}],
           torn \in SUBSET Unsynced :
        /\ \A f \in Unsynced : k[f] \in disk[f].synced .. Len(disk[f].frames)
        /\ disk' = [f \in DOMAIN disk |->
             IF f \notin Unsynced THEN disk[f]
             ELSE LET left == SubSeq(disk[f].frames, 1, k[f])
                              \o (IF f \in torn THEN <<Torn>> ELSE <<>>)
                  IN  [frames |-> left, synced |-> Len(left)]]
  BY DEF PowerLoss
<1> DEFINE left(f) == SubSeq(disk[f].frames, 1, k[f])
                      \o (IF f \in torn THEN <<Torn>> ELSE <<>>)
<1>2. Unsynced \subseteq DOMAIN disk /\ DiskType(disk)
  BY DEF Unsynced, IInv, TypeOK
<1>3. ASSUME NEW f \in Unsynced
      PROVE  /\ left(f) \in Seq(Frame)
             /\ \A i : Live(left(f), i)
                         => Live(disk[f].frames, i) /\ left(f)[i] = disk[f].frames[i]
  <2>1. disk[f].frames \in Seq(Frame) /\ disk[f].synced \in Nat
    BY <1>2 DEF DiskType, File
  <2>2. k[f] \in 0 .. Len(disk[f].frames)
    BY <1>1, <2>1
  <2>3. SubSeq(disk[f].frames, 1, k[f]) \in Seq(Frame)
    BY <2>1, <2>2
  <2>4. left(f) \in {SubSeq(disk[f].frames, 1, k[f]), SubSeq(disk[f].frames, 1, k[f]) \o <<Torn>>}
    BY <2>3
  <2> HIDE DEF left
  <2> QED
    BY <2>1, <2>2, <2>4, PrefixLive
<1>4. disk' = [f \in DOMAIN disk |->
        IF f \notin Unsynced THEN disk[f]
        ELSE [frames |-> left(f), synced |-> Len(left(f))]]
  BY <1>1
<1> HIDE DEF left
<1>5. DiskType(disk')
  <2>1. \A f \in Unsynced : [frames |-> left(f), synced |-> Len(left(f))] \in File
    BY <1>3 DEF File
  <2> QED
    BY <1>2, <1>4, <2>1 DEF DiskType
<1>6. \A f, i : FrameIn(disk', f, i) => FrameIn(disk, f, i) /\ disk'[f].frames[i] = disk[f].frames[i]
  <2> SUFFICES ASSUME NEW f, NEW i, FrameIn(disk', f, i)
               PROVE  FrameIn(disk, f, i) /\ disk'[f].frames[i] = disk[f].frames[i]
    OBVIOUS
  <2>1. CASE f \in Unsynced
    BY <1>3, <1>4, <2>1 DEF FrameIn
  <2>2. CASE f \notin Unsynced
    BY <1>4, <2>2 DEF FrameIn
  <2> QED
    BY <2>1, <2>2
<1> QED
  BY <1>5, <1>6

LEMMA PowerLossStep == IInv /\ PowerLoss => IInv'
<1> SUFFICES ASSUME IInv, PowerLoss PROVE IInv'
  OBVIOUS
<1>1. DiskType(disk') /\ Unique(disk')
  BY PowerLossFrames, FewerFrames, FewerRows DEF IInv
<1>2. Down /\ nrows' \in Nat
  BY DEF PowerLoss, IInv, TypeOK, CallsType
<1> QED
  BY <1>1, <1>2, DownStep

\* Truncation keeps the frames that can be decoded, and no others.
LEMMA TruncateStep ==
    ASSUME IInv, NEW cut \in SUBSET DOMAIN disk, NEW fs \in BOOLEAN, Truncate(cut, fs)
    PROVE  /\ DiskType(disk')
           /\ Unique(disk')
           /\ \A f, i : FrameIn(disk', f, i)
                => FrameIn(disk, f, i) /\ disk'[f].frames[i] = disk[f].frames[i]
<1> DEFINE file(f) == [frames |-> Kept(f),
                       synced |-> IF fs \/ disk[f].synced > Len(Kept(f))
                                  THEN Len(Kept(f)) ELSE disk[f].synced]
<1>1. disk' = [f \in DOMAIN disk |-> IF f \notin cut THEN disk[f] ELSE file(f)]
  BY DEF Truncate
<1>2. DiskType(disk)
  BY DEF IInv, TypeOK
<1>3. ASSUME NEW f \in DOMAIN disk
      PROVE  /\ Kept(f) \in Seq(Frame)
             /\ file(f) \in File
             /\ \A i : Live(Kept(f), i) => Live(disk[f].frames, i) /\ Kept(f)[i] = disk[f].frames[i]
  <2>1. disk[f].frames \in Seq(Frame) /\ disk[f].synced \in Nat
    BY <1>2 DEF DiskType, File
  <2>2. /\ Kept(f) \in Seq(Frame)
        /\ Len(Kept(f)) <= Len(disk[f].frames)
        /\ \A i \in 1 .. Len(Kept(f)) :
             Kept(f)[i] = disk[f].frames[i] /\ disk[f].frames[i].kind # "TORN"
    BY <2>1, DecodablePrefix DEF Kept
  <2>3. file(f) \in File
    BY <2>1, <2>2 DEF File
  <2>4. ASSUME NEW i, Live(Kept(f), i)
        PROVE  Live(disk[f].frames, i) /\ Kept(f)[i] = disk[f].frames[i]
    <3>1. i \in 1 .. Len(Kept(f)) /\ i \in DOMAIN disk[f].frames
      BY <2>1, <2>2, <2>4 DEF Live
    <3>2. \A j \in 1 .. i : disk[f].frames[j].kind # "TORN"
      BY <2>2, <3>1
    <3> QED
      BY <2>2, <3>1, <3>2 DEF Live
  <2> QED
    BY <2>2, <2>3, <2>4
<1>4. \A f \in cut : file(f).frames = Kept(f)
  OBVIOUS
<1> HIDE DEF file
<1>5. DiskType(disk')
  BY <1>1, <1>2, <1>3 DEF DiskType
<1>6. \A f, i : FrameIn(disk', f, i) => FrameIn(disk, f, i) /\ disk'[f].frames[i] = disk[f].frames[i]
  <2> SUFFICES ASSUME NEW f, NEW i, FrameIn(disk', f, i)
               PROVE  FrameIn(disk, f, i) /\ disk'[f].frames[i] = disk[f].frames[i]
    OBVIOUS
  <2>1. CASE f \in cut
    BY <1>1, <1>3, <1>4, <2>1 DEF FrameIn
  <2>2. CASE f \notin cut
    BY <1>1, <2>2 DEF FrameIn
  <2> QED
    BY <2>1, <2>2
<1>7. Unique(disk')
  BY <1>6, FewerFrames, FewerRows DEF IInv
<1> QED
  BY <1>5, <1>6, <1>7

LEMMA CrashInRecoveryStep == IInv /\ CrashInRecovery => IInv'
<1> SUFFICES ASSUME IInv, CrashInRecovery PROVE IInv'
  OBVIOUS
<1>1. PICK cut \in SUBSET Damaged : Truncate(cut, TRUE)
  BY DEF CrashInRecovery
<1>2. cut \in SUBSET DOMAIN disk
  BY DEF Damaged
<1>3. DiskType(disk') /\ Unique(disk')
  BY <1>1, <1>2, TruncateStep
<1>4. ~up' /\ nstops' \in Nat
  BY DEF CrashInRecovery, IInv, TypeOK, CallsType
<1>5. UNCHANGED <<up, catalogue, durable_lsn, checkpoint_list, registered_readers,
                  is_shutdown, pruning_thread, reader, nrows, ncheckpoints, histories>>
  BY DEF CrashInRecovery
<1>6. TypeOK'
  BY <1>3, <1>4, <1>5 DEF IInv, TypeOK, CatalogueType, ReadersType, FlagsType, CallsType,
                          catalogue, histories
<1> QED
  BY <1>3, <1>4, <1>6 DEF IInv

LEMMA RecoverStep == IInv /\ Recover => IInv'
<1> SUFFICES ASSUME IInv, Recover PROVE IInv'
  OBVIOUS
<1>1. DiskType(disk)
  BY DEF IInv, TypeOK
<1>2. ASSUME NEW f \in DOMAIN disk
      PROVE  /\ Kept(f) \in Seq(Frame)
             /\ \A i : Live(disk[f].frames, i)
                  => i \in DOMAIN Kept(f) /\ Kept(f)[i] = disk[f].frames[i]
  <2>1. disk[f].frames \in Seq(Frame)
    BY <1>1 DEF DiskType, File
  <2> QED
    BY <2>1, DecodablePrefix DEF Kept
<1>3. Lsns \subseteq Nat
  <2>1. \A f \in DOMAIN disk : \A i \in DOMAIN Kept(f) : Kept(f)[i] \in Frame
    BY <1>2
  <2>2. \A f \in DOMAIN disk : LsnsIn(f) \subseteq Nat
    BY <2>1 DEF LsnsIn, Frame
  <2> QED
    BY <2>2 DEF Lsns
<1>4. PICK cut \in SUBSET Damaged, fs \in FsyncOutcome : Truncate(cut, fs)
  BY DEF Recover
<1>5. /\ DiskType(disk')
      /\ Unique(disk')
      /\ \A f, i : RowIn(disk', f, i)
           => RowIn(disk, f, i) /\ disk'[f].frames[i] = disk[f].frames[i]
  BY <1>4, OutcomeType, TruncateStep, FewerFrames DEF Damaged
<1>6. /\ next_lsn' \in Nat /\ boot_lsn' \in Nat /\ durable_lsn' \in Nat
      /\ \A l \in Lsns : l < next_lsn'
  BY <1>3 DEF Recover, LastLsn
<1>7. Below(disk', next_lsn')
  <2> SUFFICES ASSUME NEW f, NEW i, RowIn(disk', f, i)
               PROVE  disk'[f].frames[i].lsn < next_lsn'
    BY DEF Below
  <2>1. f \in DOMAIN disk /\ Live(disk[f].frames, i) /\ disk'[f].frames[i] = disk[f].frames[i]
    BY <1>5 DEF RowIn
  <2>2. i \in DOMAIN Kept(f) /\ Kept(f)[i] = disk[f].frames[i]
    BY <1>2, <2>1
  <2>3. disk[f].frames[i].lsn \in Lsns
    BY <2>1, <2>2 DEF Lsns, LsnsIn
  <2> QED
    BY <1>6, <2>1, <2>3
<1>8. Headed \subseteq DOMAIN disk /\ Headed \subseteq FileName /\ IsFiniteSet(Headed)
      /\ Open \subseteq Headed
  <2>1. Headed \in SUBSET DOMAIN disk
    BY DEF Headed
  <2> QED
    BY <1>1, <2>1, FS_Subset DEF DiskType, Open
<1>9. ListType(segment_list')
  <2> DEFINE g == [f \in Headed |-> [pos |-> Rank(f), file |-> f, base_lsn |-> f.base,
                                     last_lsn |-> Kept(f)[Len(Kept(f))].lsn]]
  <2>1. segment_list' = {g[f] : f \in Headed}
    BY DEF Recover
  <2>2. ASSUME NEW f \in Headed PROVE g[f] \in SegmentInfo
    <3>1. Rank(f) \in Nat
      <4>1. {h \in Headed : h = f \/ PathLess(h, f)} \in SUBSET Headed
        OBVIOUS
      <4>2. IsFiniteSet({h \in Headed : h = f \/ PathLess(h, f)})
        BY <1>8, <4>1, FS_Subset
      <4> QED
        BY <4>2, FS_CardinalityType DEF Rank
    <3>2. Kept(f)[Len(Kept(f))].lsn \in Nat
      <4>1. Kept(f) \in Seq(Frame) /\ Len(Kept(f)) # 0
        BY <1>2, <1>8 DEF Headed, Has
      <4>2. Kept(f)[Len(Kept(f))] \in Frame
        BY <4>1
      <4> QED
        BY <4>2 DEF Frame
    <3>3. f \in FileName /\ f.base \in Nat
      BY <1>8 DEF FileName
    <3> QED
      BY <3>1, <3>2, <3>3 DEF SegmentInfo
  <2>3. g = [f \in Headed |-> g[f]]
    OBVIOUS
  <2> HIDE DEF g
  <2>4. IsFiniteSet({g[f] : f \in Headed})
    BY <1>8, <2>3, ImageFinite
  <2> QED
    BY <2>1, <2>2, <2>4 DEF ListType
<1>10. /\ active_fd' \in FileName \cup {NoFile}
       /\ active_segment_space' \in Nat
       /\ current_base_lsn' \in Nat
       /\ segment_id' \in Nat
  <2>1. \A f \in Headed : f.id \in Nat /\ f.base \in Nat /\ Len(Kept(f)) \in Nat
    BY <1>2, <1>8 DEF FileName
  <2> QED
    BY <1>6, <1>8, <2>1 DEF Recover
<1>11. CatalogueType'
  BY <1>6, <1>9, <1>10 DEF CatalogueType
<1>12. ReadersType' /\ FlagsType' /\ CallsType'
  BY DEF IInv, TypeOK, ReadersType, FlagsType, CallsType, Recover, counters
<1> QED
  BY <1>5, <1>7, <1>11, <1>12 DEF IInv, TypeOK

-----------------------------------------------------------------------------
(* The invariant.                                                          *)

LEMMA InitIInv == Init => IInv
<1> SUFFICES ASSUME Init PROVE IInv
  OBVIOUS
<1>1. DiskType(disk) /\ Unique(disk) /\ ~up
  BY FS_EmptySet DEF Init, DiskType, Unique, RowIn
<1>2. CatalogueType
  BY FS_EmptySet DEF Init, CatalogueType, ListType
<1>3. ReadersType
  <2>1. Out \in [pc : {"out", "idle", "read", "advance", "wait"},
                 from : Nat, current_lsn : Nat, record : Frame, got : SUBSET Nat]
    BY FrameType DEF Out
  <2> QED
    BY <2>1 DEF Init, ReadersType
<1>4. FlagsType
  BY DEF Init, FlagsType
<1>5. CallsType
  BY DEF Init, CallsType
<1> QED
  BY <1>1, <1>2, <1>3, <1>4, <1>5 DEF IInv, TypeOK

LEMMA NextIInv == IInv /\ [Next]_vars => IInv'
<1> SUFFICES ASSUME IInv, [Next]_vars PROVE IInv'
  OBVIOUS
<1>1. CASE AppendStep
  BY <1>1, AppendFailsStep, AppendRowStep, AppendSealsStep, AppendSealUnsyncedStep DEF AppendStep
<1>2. CASE Sync
  BY <1>2, SyncStep
<1>3. CASE Checkpoint
  BY <1>3, CheckpointStep
<1>4. CASE ShutdownFlag
  BY <1>4, ShutdownFlagStep
<1>5. CASE ShutdownSeal
  BY <1>5, ShutdownSealStep
<1>6. CASE Prune
  BY <1>6, PruneStep
<1>7. CASE \E r \in Readers : ReaderStep(r)
  BY <1>7, ReaderStepStep
<1>8. CASE Recover
  BY <1>8, RecoverStep
<1>9. CASE Stop
  BY <1>9, ProcessEndsStep, CrashInAppendStep, CrashInCheckpointStep, CrashInShutdownStep,
     CrashInRecoveryStep, PowerLossStep DEF Stop
<1>10. CASE UNCHANGED vars
  BY <1>10 DEF IInv, TypeOK, CatalogueType, ReadersType, FlagsType, CallsType,
               vars, catalogue, counters, histories
<1> QED
  BY <1>1, <1>2, <1>3, <1>4, <1>5, <1>6, <1>7, <1>8, <1>9, <1>10 DEF Next

\* The inductive invariant holds in every reachable state.
THEOREM Invariance == Spec => []IInv
  BY InitIInv, NextIInv, PTL DEF Spec

\* Every variable keeps its type, for any constants: in particular no counter of class
\* WAL underflows and segment_list stays a list of named files.
THEOREM TypeCorrect == Spec => []TypeOK
<1>1. IInv => TypeOK
  BY DEF IInv
<1> QED
  BY <1>1, Invariance, PTL

\* LSNs name rows: no two decodable rows ever carry one LSN, under failed writes, failed
\* fsyncs, failed truncations, power loss, any number of crashes and any segment size.
THEOREM LsnsNameRows == Spec => []RowLsnUnique
<1>1. IInv => RowLsnUnique
  BY DEF IInv, Unique, RowIn, RowLsnUnique, LiveRow
<1> QED
  BY <1>1, Invariance, PTL

\* A new row's LSN is above those of all rows on disk, so an iterator that counts up
\* meets rows in the order of their appends, across restarts.
THEOREM NextLsnIsFresh == Spec => []RowsBelowNext
<1>1. IInv => RowsBelowNext
  BY DEF IInv, Below, RowIn, RowsBelowNext, LiveRow
<1> QED
  BY <1>1, Invariance, PTL

-----------------------------------------------------------------------------
(* Wal implements RowLog.                                                  *)

\* The step Wal's actions map to.
LogStep == [Log!Next]_(Log!vars)

\* Frame i of file f in directory d, as a row of the log.
Entry(d, f, i) == [lsn |-> d[f].frames[i].lsn, row |-> d[f].frames[i].row]

\* All rows in s are the row of call k.
RowsAre(s, k) == \A i \in DOMAIN s : s[i].kind = "ROW" => s[i].row = k

-----------------------------------------------------------------------------
(* Rows of a directory.                                                    *)

\* A row of the directory is a decodable row frame of some file.
LEMMA RowsOfMember ==
    ASSUME NEW d, NEW e
    PROVE  e \in RowsOf(d) <=> \E f, i : RowIn(d, f, i) /\ e = Entry(d, f, i)
<1>1. ASSUME e \in RowsOf(d)
      PROVE  \E f, i : RowIn(d, f, i) /\ e = Entry(d, f, i)
  <2>1. PICK f \in DOMAIN d :
          e \in {[lsn |-> d[f].frames[i].lsn, row |-> d[f].frames[i].row]
                   : i \in {j \in DOMAIN d[f].frames :
                              Live(d[f].frames, j) /\ d[f].frames[j].kind = "ROW"}}
    BY <1>1 DEF RowsOf
  <2> QED
    BY <2>1 DEF RowIn, Entry
<1>2. ASSUME NEW f, NEW i, RowIn(d, f, i), e = Entry(d, f, i)
      PROVE  e \in RowsOf(d)
  <2>1. i \in {j \in DOMAIN d[f].frames : Live(d[f].frames, j) /\ d[f].frames[j].kind = "ROW"}
    BY <1>2 DEF RowIn, Live
  <2>2. f \in DOMAIN d
    BY <1>2 DEF RowIn
  <2> QED
    BY <1>2, <2>1, <2>2 DEF RowsOf, Entry
<1> QED
  BY <1>1, <1>2

\* Fewer rows, at the same places, make a smaller log.
LEMMA FewerEntries ==
    ASSUME NEW d, NEW e,
           \A f, i : RowIn(e, f, i) => RowIn(d, f, i) /\ e[f].frames[i] = d[f].frames[i]
    PROVE  RowsOf(e) \subseteq RowsOf(d)
<1> SUFFICES ASSUME NEW x \in RowsOf(e) PROVE x \in RowsOf(d)
  OBVIOUS
<1>1. PICK f, i : RowIn(e, f, i) /\ x = Entry(e, f, i)
  BY RowsOfMember
<1>2. RowIn(d, f, i) /\ x = Entry(d, f, i)
  BY <1>1 DEF Entry
<1> QED
  BY <1>2, RowsOfMember

\* Writing behind a file's frames hides none of them, and adds what is written at most.
LEMMA StoreEntries ==
    ASSUME DiskType(disk), NEW f \in FileName, NEW new \in Seq(Frame), NEW fs \in BOOLEAN
    PROVE  /\ RowsOf(disk) \subseteq RowsOf(Store(f, new, fs))
           /\ \A x \in RowsOf(Store(f, new, fs)) :
                \/ x \in RowsOf(disk)
                \/ \E i \in DOMAIN new :
                     new[i].kind = "ROW" /\ x = [lsn |-> new[i].lsn, row |-> new[i].row]
<1> DEFINE d == Store(f, new, fs)
           old == IF f \in DOMAIN disk THEN disk[f].frames ELSE <<>>
<1>1. /\ DOMAIN d = DOMAIN disk \cup {f}
      /\ d[f].frames = old \o new
      /\ \A g \in DOMAIN disk : g # f => d[g] = disk[g]
  BY DEF Store, Empty
<1>2. old \in Seq(Frame)
  BY DEF DiskType, File
<1>3. /\ DOMAIN (old \o new) = 1 .. Len(old) + Len(new)
      /\ \A i \in 1 .. Len(old) : (old \o new)[i] = old[i]
      /\ \A i \in Len(old) + 1 .. Len(old) + Len(new) :
           (old \o new)[i] = new[i - Len(old)] /\ i - Len(old) \in DOMAIN new
  BY <1>2
<1>4. f \in DOMAIN disk => old = disk[f].frames
  OBVIOUS
<1> HIDE DEF d
<1>5. ASSUME NEW x \in RowsOf(disk)
      PROVE  x \in RowsOf(d)
  <2>1. PICK g, i : RowIn(disk, g, i) /\ x = Entry(disk, g, i)
    BY RowsOfMember
  <2>2. CASE g # f
    <3>1. RowIn(d, g, i) /\ x = Entry(d, g, i)
      BY <1>1, <2>1, <2>2 DEF RowIn, Entry
    <3> QED
      BY <3>1, RowsOfMember
  <2>3. CASE g = f
    <3>1. i \in 1 .. Len(old) /\ Live(old, i) /\ old[i].kind = "ROW"
      BY <1>2, <1>4, <2>1, <2>3 DEF RowIn, Live
    <3>2. Live(old \o new, i) /\ (old \o new)[i] = old[i]
      BY <1>2, <1>3, <3>1 DEF Live
    <3>3. RowIn(d, f, i) /\ x = Entry(d, f, i)
      BY <1>1, <1>4, <2>1, <2>3, <3>1, <3>2 DEF RowIn, Entry
    <3> QED
      BY <3>3, RowsOfMember
  <2> QED
    BY <2>2, <2>3
<1>6. ASSUME NEW x \in RowsOf(d)
      PROVE  \/ x \in RowsOf(disk)
             \/ \E i \in DOMAIN new :
                  new[i].kind = "ROW" /\ x = [lsn |-> new[i].lsn, row |-> new[i].row]
  <2>1. PICK g, i : RowIn(d, g, i) /\ x = Entry(d, g, i)
    BY RowsOfMember
  <2>2. CASE g # f
    <3>1. RowIn(disk, g, i) /\ x = Entry(disk, g, i)
      BY <1>1, <2>1, <2>2 DEF RowIn, Entry
    <3> QED
      BY <3>1, RowsOfMember
  <2>3. CASE g = f /\ i \in 1 .. Len(old)
    <3>1. Live(old \o new, i) /\ (old \o new)[i].kind = "ROW"
      BY <1>1, <2>1, <2>3 DEF RowIn
    <3>2. Live(old, i) /\ (old \o new)[i] = old[i]
      BY <1>2, <1>3, <2>3, <3>1 DEF Live
    <3>3. f \in DOMAIN disk
      BY <2>3
    <3>4. RowIn(disk, f, i) /\ x = Entry(disk, f, i)
      BY <1>1, <1>4, <2>1, <2>3, <3>1, <3>2, <3>3 DEF RowIn, Entry
    <3> QED
      BY <3>4, RowsOfMember
  <2>4. CASE g = f /\ i \in Len(old) + 1 .. Len(old) + Len(new)
    <3>1. /\ i - Len(old) \in DOMAIN new
          /\ (old \o new)[i] = new[i - Len(old)]
      BY <1>3, <2>4
    <3>2. /\ new[i - Len(old)].kind = "ROW"
          /\ x = [lsn |-> new[i - Len(old)].lsn, row |-> new[i - Len(old)].row]
      BY <1>1, <2>1, <2>4, <3>1 DEF RowIn, Entry
    <3> QED
      BY <3>1, <3>2
  <2>5. g = f => i \in 1 .. Len(old) + Len(new)
    BY <1>1, <1>3, <2>1 DEF RowIn, Live
  <2> QED
    BY <1>2, <2>2, <2>3, <2>4, <2>5
<1> QED
  BY <1>5, <1>6 DEF d

-----------------------------------------------------------------------------
(* One write of a WAL object.                                              *)

\* The outcome of a write on the log: its one row is added above all others, or nothing.
WriteLogs(d, k) ==
    \/ RowsOf(d) = RowsOf(disk)
    \/ \E e : /\ e \in Log!Entry
              /\ e.row = k
              /\ \A x \in RowsOf(disk) : x.lsn < e.lsn
              /\ RowsOf(d) = RowsOf(disk) \cup {e}

LEMMA WriteEntries ==
    ASSUME IInv, up, NEW f \in FileName \cup {Unlinked}, NEW new \in Seq(Frame),
           NEW fs \in BOOLEAN, NEW m, OneRow(new, next_lsn, m), NEW k \in Nat, RowsAre(new, k)
    PROVE  /\ WriteLogs(StoreFd(f, new, fs), k)
           /\ NoRow(new) => RowsOf(StoreFd(f, new, fs)) = RowsOf(disk)
<1>1. CASE f = Unlinked
  BY <1>1 DEF StoreFd, WriteLogs
<1>2. CASE f # Unlinked
  <2> DEFINE d == Store(f, new, fs)
  <2>1. f \in FileName /\ StoreFd(f, new, fs) = d /\ DiskType(disk) /\ next_lsn \in Nat
    BY <1>2 DEF StoreFd, IInv, TypeOK, CatalogueType
  <2>2. /\ RowsOf(disk) \subseteq RowsOf(d)
        /\ \A x \in RowsOf(d) :
             \/ x \in RowsOf(disk)
             \/ \E i \in DOMAIN new :
                  new[i].kind = "ROW" /\ x = [lsn |-> new[i].lsn, row |-> new[i].row]
    BY <2>1, StoreEntries
  <2> HIDE DEF d
  <2>3. CASE RowsOf(d) = RowsOf(disk)
    BY <2>1, <2>3 DEF WriteLogs
  <2>4. CASE RowsOf(d) # RowsOf(disk)
    <3>1. PICK i \in DOMAIN new : new[i].kind = "ROW"
                /\ [lsn |-> new[i].lsn, row |-> new[i].row] \in RowsOf(d)
      BY <2>2, <2>4
    <3> DEFINE e == [lsn |-> new[i].lsn, row |-> new[i].row]
    <3>2. RowsOf(d) = RowsOf(disk) \cup {e}
      BY <2>2, <3>1 DEF OneRow
    <3>3. e \in Log!Entry /\ e.row = k /\ next_lsn <= e.lsn /\ e.lsn \in Nat
      <4>1. new[i] \in Frame
        BY <3>1
      <4> QED
        BY <3>1, <4>1 DEF OneRow, RowsAre, Frame, Log!Entry
    <3>4. ASSUME NEW x \in RowsOf(disk) PROVE x.lsn < e.lsn
      <4>1. PICK g, j : RowIn(disk, g, j) /\ x = Entry(disk, g, j)
        BY RowsOfMember
      <4>2. disk[g].frames[j] \in Frame
        BY <2>1, <4>1 DEF RowIn, Live, DiskType, File
      <4>3. x.lsn \in Nat /\ x.lsn < next_lsn
        BY <4>1, <4>2 DEF Entry, Frame, IInv, Below
      <4> QED
        BY <2>1, <3>3, <4>3
    <3>5. ~NoRow(new)
      BY <3>1 DEF NoRow
    <3> QED
      BY <2>1, <3>2, <3>3, <3>4, <3>5 DEF WriteLogs
  <2> QED
    BY <2>3, <2>4
<1> QED
  BY <1>1, <1>2

\* A write of no row at all.
LEMMA NoEntry ==
    ASSUME IInv, up, NEW f \in FileName \cup {Unlinked}, NEW new \in Seq(Frame),
           NEW fs \in BOOLEAN, NoRow(new)
    PROVE  RowsOf(StoreFd(f, new, fs)) = RowsOf(disk)
<1>1. OneRow(new, next_lsn, next_lsn) /\ RowsAre(new, 0)
  BY NoRowOneRow DEF NoRow, RowsAre
<1> QED
  BY <1>1, WriteEntries

\* A write by an append call, as a step of the log.
LEMMA CallStep ==
    ASSUME nrows' = nrows + 1, WriteLogs(disk', nrows + 1)
    PROVE  LogStep
<1>1. CASE RowsOf(disk') = RowsOf(disk)
  BY <1>1 DEF LogStep, Log!Next, Log!Refuse
<1>2. CASE RowsOf(disk') # RowsOf(disk)
  <2>1. PICK e : /\ e \in Log!Entry
                 /\ e.row = nrows + 1
                 /\ \A x \in RowsOf(disk) : x.lsn < e.lsn
                 /\ RowsOf(disk') = RowsOf(disk) \cup {e}
    BY <1>2 DEF WriteLogs
  <2>2. Log!Add
    BY <2>1 DEF Log!Add
  <2> QED
    BY <2>2 DEF LogStep, Log!Next
<1> QED
  BY <1>1, <1>2

\* A step that neither calls append nor touches the rows.
LEMMA QuietStep ==
    ASSUME RowsOf(disk') = RowsOf(disk), nrows' = nrows
    PROVE  LogStep
  BY DEF LogStep, Log!vars

\* A step that takes rows away where that may happen.
LEMMA LossyStep ==
    ASSUME RowsOf(disk') \subseteq RowsOf(disk), nrows' = nrows,
           PruneWorker \/ "power" \in Faults
    PROVE  LogStep
  BY DEF LogStep, Log!Next, Log!Lose

-----------------------------------------------------------------------------
(* The actions.                                                            *)

\* A row between frames that are none is the only one.
LEMMA RowsBetween ==
    ASSUME NEW s \in Seq(Frame), NEW t \in Seq(Frame), NoRow(s), NoRow(t), NEW fr \in Frame
    PROVE  RowsAre(s \o <<fr>> \o t, fr.row)
<1> DEFINE w == s \o <<fr>> \o t
<1>1. w \in Seq(Frame) /\ Len(w) = Len(s) + 1 + Len(t)
  OBVIOUS
<1>2. \A i \in 1 .. Len(s) : w[i] = s[i]
  OBVIOUS
<1>3. w[Len(s) + 1] = fr
  OBVIOUS
<1>4. ASSUME NEW i \in Len(s) + 2 .. Len(w)
      PROVE  w[i] = t[i - (Len(s) + 1)] /\ i - (Len(s) + 1) \in DOMAIN t
  OBVIOUS
<1> HIDE DEF w
<1>5. ASSUME NEW i \in DOMAIN w, w[i].kind = "ROW"
      PROVE  i = Len(s) + 1
  <2>1. CASE i \in 1 .. Len(s)
    BY <1>2, <1>5, <2>1 DEF NoRow
  <2>2. CASE i \in Len(s) + 2 .. Len(w)
    BY <1>4, <1>5, <2>2 DEF NoRow
  <2> QED
    BY <1>1, <2>1, <2>2
<1>6. RowsAre(w, fr.row)
  BY <1>1, <1>3, <1>5 DEF RowsAre
<1> QED
  BY <1>6 DEF w

\* The row of an append call, between frames that are no rows.
LEMMA RowAmong ==
    ASSUME IInv, up, NEW oh \in WriteOutcome, NEW o, o = AfterOpen(oh),
           NEW t \in Seq(Frame), NoRow(t)
    PROVE  LET new == o.wrote \o <<Row(o.lsn)>> \o t
           IN  /\ new \in Seq(Frame)
               /\ OneRow(new, next_lsn, o.lsn + 1)
               /\ RowsAre(new, nrows + 1)
<1> DEFINE new == o.wrote \o <<Row(o.lsn)>> \o t
<1>1. o.wrote \in Seq(Frame) /\ NoRow(o.wrote) /\ o.lsn \in Nat /\ next_lsn <= o.lsn
  BY AfterOpenType DEF IInv
<1>2. Row(o.lsn) \in Frame /\ Row(o.lsn).lsn = o.lsn /\ Row(o.lsn).row = nrows + 1
  BY <1>1, RowType DEF IInv, Row, Fr
<1>3. next_lsn \in Nat
  BY DEF IInv, TypeOK, CatalogueType
<1>4. new \in Seq(Frame) /\ OneRow(new, next_lsn, o.lsn + 1)
  BY <1>1, <1>2, <1>3, RowBetween
<1>5. RowsAre(new, nrows + 1)
  BY <1>1, <1>2, RowsBetween
<1> QED
  BY <1>4, <1>5

LEMMA SealFrame ==
    ASSUME NEW lsn \in Nat, NEW os \in WriteOutcome
    PROVE  /\ Bytes(Fr("SEAL", lsn, 0), os) \in Seq(Frame)
           /\ NoRow(Bytes(Fr("SEAL", lsn, 0), os))
  BY MarkerType

LEMMA AppendLogs == IInv /\ AppendStep => LogStep
<1> SUFFICES ASSUME IInv, AppendStep PROVE LogStep
  OBVIOUS
<1>1. up /\ nrows' = nrows + 1 /\ nrows + 1 \in Nat
  <2>1. AppendCall
    BY DEF AppendStep, AppendFails, AppendRow, AppendSeals, AppendSealUnsynced
  <2>2. nrows \in Nat
    BY DEF IInv, TypeOK, CallsType
  <2> QED
    BY <2>1, <2>2 DEF AppendCall
<1>2. ASSUME NEW oh \in WriteOutcome, NEW t \in Seq(Frame), NoRow(t), NEW fs \in BOOLEAN,
             disk' = StoreFd(AfterOpen(oh).file,
                             AfterOpen(oh).wrote \o <<Row(AfterOpen(oh).lsn)>> \o t, fs)
      PROVE  LogStep
  <2> DEFINE o == AfterOpen(oh)
             new == o.wrote \o <<Row(o.lsn)>> \o t
  <2>1. o.file \in FileName \cup {Unlinked}
    BY AfterOpenType DEF IInv
  <2>2. /\ new \in Seq(Frame)
        /\ OneRow(new, next_lsn, o.lsn + 1)
        /\ RowsAre(new, nrows + 1)
    BY <1>1, <1>2, RowAmong
  <2>3. disk' = StoreFd(o.file, new, fs)
    BY <1>2
  <2> HIDE DEF o, new
  <2>4. WriteLogs(disk', nrows + 1)
    BY <1>1, <2>1, <2>2, <2>3, WriteEntries
  <2> QED
    BY <1>1, <2>4, CallStep
<1>3. CASE AppendFails
  <2>1. PICK oh \in WriteOutcome, ow \in WriteOutcome \ {"ok"} :
          disk' = StoreFd(AfterOpen(oh).file,
                          AfterOpen(oh).wrote \o Bytes(Row(AfterOpen(oh).lsn), ow), FALSE)
    BY <1>3 DEF AppendFails
  <2> DEFINE o == AfterOpen(oh)
             new == o.wrote \o Bytes(Row(o.lsn), ow)
  <2>2. /\ o.file \in FileName \cup {Unlinked} /\ o.wrote \in Seq(Frame) /\ NoRow(o.wrote)
        /\ o.lsn \in Nat
    BY AfterOpenType DEF IInv
  <2>3. Bytes(Row(o.lsn), ow) \in Seq(Frame) /\ NoRow(Bytes(Row(o.lsn), ow))
    BY <2>2, RowType, BytesType, OutcomeType DEF IInv
  <2>4. disk' = StoreFd(o.file, new, FALSE)
    BY <2>1
  <2> HIDE DEF o
  <2>5. new \in Seq(Frame) /\ NoRow(new)
    BY <2>2, <2>3, NoRowConcat
  <2> HIDE DEF new
  <2>6. RowsOf(disk') = RowsOf(disk)
    BY <1>1, <2>2, <2>4, <2>5, NoEntry
  <2> QED
    BY <1>1, <2>6, CallStep DEF WriteLogs
<1>4. CASE AppendRow
  <2>1. PICK oh \in WriteOutcome :
          disk' = StoreFd(AfterOpen(oh).file,
                          AfterOpen(oh).wrote \o <<Row(AfterOpen(oh).lsn)>>, FALSE)
    BY <1>4 DEF AppendRow
  <2>2. AfterOpen(oh).wrote \in Seq(Frame) /\ Row(AfterOpen(oh).lsn) \in Frame
    BY AfterOpenType, RowType DEF IInv
  <2>3. AfterOpen(oh).wrote \o <<Row(AfterOpen(oh).lsn)>> \o <<>>
          = AfterOpen(oh).wrote \o <<Row(AfterOpen(oh).lsn)>>
    BY <2>2
  <2>4. <<>> \in Seq(Frame) /\ NoRow(<<>>)
    BY DEF NoRow
  <2> QED
    BY <1>2, <2>1, <2>3, <2>4
<1>5. CASE AppendSeals
  <2>1. PICK oh, os \in WriteOutcome :
          disk' = StoreFd(AfterOpen(oh).file,
                          AfterOpen(oh).wrote \o <<Row(AfterOpen(oh).lsn)>>
                            \o Bytes(Fr("SEAL", AfterOpen(oh).lsn + 1, 0), os),
                          Strategy = "ALWAYS")
    BY <1>5 DEF AppendSeals
  <2>2. AfterOpen(oh).lsn + 1 \in Nat
    BY AfterOpenType DEF IInv
  <2>3. /\ Bytes(Fr("SEAL", AfterOpen(oh).lsn + 1, 0), os) \in Seq(Frame)
        /\ NoRow(Bytes(Fr("SEAL", AfterOpen(oh).lsn + 1, 0), os))
    BY <2>2, SealFrame
  <2> QED
    BY <1>2, <2>1, <2>3
<1>6. CASE AppendSealUnsynced
  <2>1. PICK oh, os \in WriteOutcome :
          disk' = StoreFd(AfterOpen(oh).file,
                          AfterOpen(oh).wrote \o <<Row(AfterOpen(oh).lsn)>>
                            \o Bytes(Fr("SEAL", AfterOpen(oh).lsn + 1, 0), os),
                          FALSE)
    BY <1>6 DEF AppendSealUnsynced
  <2>2. AfterOpen(oh).lsn + 1 \in Nat
    BY AfterOpenType DEF IInv
  <2>3. /\ Bytes(Fr("SEAL", AfterOpen(oh).lsn + 1, 0), os) \in Seq(Frame)
        /\ NoRow(Bytes(Fr("SEAL", AfterOpen(oh).lsn + 1, 0), os))
    BY <2>2, SealFrame
  <2> QED
    BY <1>2, <2>1, <2>3
<1> QED
  BY <1>3, <1>4, <1>5, <1>6 DEF AppendStep

\* sync, checkpoint and the shutdown seal write no rows.
LEMMA MarkersLog == IInv /\ (Sync \/ Checkpoint \/ ShutdownSeal) => LogStep
<1> SUFFICES ASSUME IInv, Sync \/ Checkpoint \/ ShutdownSeal PROVE LogStep
  OBVIOUS
<1>1. up /\ nrows' = nrows /\ next_lsn \in Nat
  BY DEF Sync, Checkpoint, ShutdownSeal, counters, IInv, TypeOK, CatalogueType
<1>2. active_fd # NoFile => active_fd \in FileName \cup {Unlinked}
  BY DEF IInv, TypeOK, CatalogueType
<1>3. RowsOf(disk') = RowsOf(disk)
  <2>1. CASE Sync
    <3>1. <<>> \in Seq(Frame) /\ NoRow(<<>>)
      BY DEF NoRow
    <3> QED
      BY <1>1, <1>2, <2>1, <3>1, NoEntry DEF Sync
  <2>2. CASE Checkpoint
    <3> DEFINE f == [id |-> segment_id, base |-> current_base_lsn]
    <3>1. f \in FileName /\ f # Unlinked
      BY DEF IInv, TypeOK, CatalogueType, FileName, Unlinked
    <3>2. PICK o \in WriteOutcome :
            disk' = Store(f, Bytes(Fr("CHECKPOINT", next_lsn, 0), o), FALSE)
      BY <2>2 DEF Checkpoint
    <3> HIDE DEF f
    <3>3. disk' = StoreFd(f, Bytes(Fr("CHECKPOINT", next_lsn, 0), o), FALSE)
      BY <3>1, <3>2 DEF StoreFd
    <3> QED
      BY <1>1, <3>1, <3>3, MarkerType, NoEntry
  <2>3. CASE ShutdownSeal
    <3>1. CASE active_fd = NoFile
      BY <2>3, <3>1 DEF ShutdownSeal
    <3>2. CASE active_fd # NoFile
      <4>1. PICK o \in WriteOutcome, fs \in FsyncOutcome :
              disk' = StoreFd(active_fd, Bytes(Fr("SHUTDOWN", next_lsn, 0), o), fs)
        BY <2>3, <3>2 DEF ShutdownSeal
      <4> QED
        BY <1>1, <1>2, <3>2, <4>1, MarkerType, NoEntry, OutcomeType
    <3> QED
      BY <3>1, <3>2
  <2> QED
    BY <2>1, <2>2, <2>3
<1> QED
  BY <1>1, <1>3, QuietStep

\* Pruning takes whole files away, where the worker runs.
LEMMA PruneLogs == IInv /\ Prune => LogStep
<1> SUFFICES ASSUME IInv, Prune PROVE LogStep
  OBVIOUS
<1>1. PruneWorker /\ nrows' = nrows
  BY DEF Prune, counters
<1>2. PICK m \in Pins :
        disk' = [f \in DOMAIN disk \ {e.file : e \in Gone(m)} |-> disk[f]]
  BY DEF Prune
<1>3. \A f, i : RowIn(disk', f, i) => RowIn(disk, f, i) /\ disk'[f].frames[i] = disk[f].frames[i]
  BY <1>2 DEF RowIn
<1> QED
  BY <1>1, <1>3, FewerEntries, LossyStep

\* Recovery and a crash inside it truncate what cannot be decoded, and nothing else.
LEMMA TruncateEntries ==
    ASSUME IInv, NEW cut \in SUBSET DOMAIN disk, NEW fs \in BOOLEAN, Truncate(cut, fs)
    PROVE  RowsOf(disk') = RowsOf(disk)
<1>1. \A f, i : RowIn(disk', f, i) => RowIn(disk, f, i) /\ disk'[f].frames[i] = disk[f].frames[i]
  BY TruncateStep, FewerFrames
<1>2. /\ DOMAIN disk' = DOMAIN disk
      /\ \A f \in DOMAIN disk : f \notin cut => disk'[f] = disk[f]
      /\ \A f \in cut : disk'[f].frames = Kept(f)
  BY DEF Truncate
<1>3. ASSUME NEW f, NEW i, RowIn(disk, f, i)
      PROVE  RowIn(disk', f, i) /\ disk[f].frames[i] = disk'[f].frames[i]
  <2>1. f \in DOMAIN disk /\ disk[f].frames \in Seq(Frame)
    BY <1>3 DEF RowIn, IInv, TypeOK, DiskType, File
  <2>2. CASE f \notin cut
    BY <1>2, <1>3, <2>1, <2>2 DEF RowIn
  <2>3. CASE f \in cut
    <3>1. /\ \A j \in 1 .. Len(Kept(f)) : Kept(f)[j] = disk[f].frames[j]
          /\ \A j : Live(disk[f].frames, j) => j \in DOMAIN Kept(f)
          /\ Kept(f) \in Seq(Frame)
      BY <2>1, DecodablePrefix DEF Kept
    <3>2. Live(disk[f].frames, i) /\ i \in 1 .. Len(Kept(f))
      BY <1>3, <3>1 DEF RowIn
    <3>3. Live(Kept(f), i)
      BY <3>1, <3>2 DEF Live
    <3>4. f \in DOMAIN disk' /\ disk'[f].frames = Kept(f)
      BY <1>2, <2>1, <2>3
    <3>5. disk[f].frames[i] = Kept(f)[i] /\ disk[f].frames[i].kind = "ROW"
      BY <1>3, <3>1, <3>2 DEF RowIn
    <3> QED
      BY <3>3, <3>4, <3>5 DEF RowIn
  <2> QED
    BY <2>2, <2>3
<1>4. RowsOf(disk') \subseteq RowsOf(disk)
  BY <1>1, FewerEntries
<1>5. RowsOf(disk) \subseteq RowsOf(disk')
  BY <1>3, FewerEntries
<1> QED
  BY <1>4, <1>5

LEMMA RecoverLogs == IInv /\ (Recover \/ CrashInRecovery) => LogStep
<1> SUFFICES ASSUME IInv, Recover \/ CrashInRecovery PROVE LogStep
  OBVIOUS
<1>1. PICK cut \in SUBSET DOMAIN disk, fs \in BOOLEAN : Truncate(cut, fs)
  BY OutcomeType DEF Recover, CrashInRecovery, Damaged
<1>2. nrows' = nrows
  BY DEF Recover, CrashInRecovery, counters
<1> QED
  BY <1>1, <1>2, TruncateEntries, QuietStep

\* A write cut short leaves its row, if it has one, or none.
LEMMA PrefixRowsAre ==
    ASSUME NEW w \in Seq(Frame), NEW k \in 0 .. Len(w), NEW torn \in BOOLEAN,
           NEW row, RowsAre(w, row)
    PROVE  RowsAre(SubSeq(w, 1, k) \o (IF torn THEN <<Torn>> ELSE <<>>), row)
<1> DEFINE p == SubSeq(w, 1, k) \o (IF torn THEN <<Torn>> ELSE <<>>)
<1>1. Torn \in Frame /\ Torn.kind # "ROW"
  BY FrameType DEF Torn, Fr
<1>2. /\ SubSeq(w, 1, k) \in Seq(Frame)
      /\ Len(SubSeq(w, 1, k)) = k
      /\ \A i \in 1 .. k : SubSeq(w, 1, k)[i] = w[i] /\ i \in DOMAIN w
  OBVIOUS
<1>3. CASE torn
  <2>1. p = SubSeq(w, 1, k) \o <<Torn>>
    BY <1>3
  <2>2. p \in Seq(Frame) /\ Len(p) = k + 1 /\ p[k + 1] = Torn
    BY <1>1, <1>2, <2>1
  <2>3. \A i \in 1 .. k : p[i] = w[i]
    BY <1>2, <2>1
  <2> HIDE DEF p
  <2>4. RowsAre(p, row)
    BY <1>1, <1>2, <2>2, <2>3 DEF RowsAre
  <2> QED
    BY <2>4 DEF p
<1>4. CASE ~torn
  <2>1. p = SubSeq(w, 1, k)
    BY <1>2, <1>4
  <2>2. RowsAre(SubSeq(w, 1, k), row)
    BY <1>2 DEF RowsAre
  <2> QED
    BY <2>1, <2>2
<1> QED
  BY <1>3, <1>4

LEMMA CrashInAppendLogs == IInv /\ CrashInAppend => LogStep
<1> SUFFICES ASSUME IInv, CrashInAppend PROVE LogStep
  OBVIOUS
<1> DEFINE o == AfterOpen("ok")
           seal == IF o.space + 1 >= MaxSegSize THEN <<Fr("SEAL", o.lsn + 1, 0)>> ELSE <<>>
           w == o.wrote \o <<Row(o.lsn)>> \o seal
<1>1. "ok" \in WriteOutcome
  BY DEF WriteOutcome
<1>2. o.file \in FileName \cup {Unlinked} /\ o.lsn \in Nat
  BY <1>1, AfterOpenType DEF IInv
<1>3. up /\ Interrupted(o.file, w) /\ nrows' = nrows + 1 /\ nrows + 1 \in Nat
  BY DEF CrashInAppend, Down, IInv, TypeOK, CallsType
<1>4. seal \in Seq(Frame) /\ NoRow(seal)
  <2>1. Fr("SEAL", o.lsn + 1, 0) \in Frame /\ Fr("SEAL", o.lsn + 1, 0).kind # "ROW"
    BY <1>2, FrameType DEF Kinds, Fr
  <2> QED
    BY <2>1 DEF NoRow
<1> HIDE DEF seal
<1>5. /\ w \in Seq(Frame)
      /\ OneRow(w, next_lsn, o.lsn + 1)
      /\ RowsAre(w, nrows + 1)
  BY <1>1, <1>3, <1>4, RowAmong
<1> HIDE DEF w, o
<1>6. PICK t \in 0 .. Len(w), torn \in BOOLEAN :
        disk' = StoreFd(o.file, SubSeq(w, 1, t) \o (IF torn THEN <<Torn>> ELSE <<>>), FALSE)
  BY <1>3 DEF Interrupted
<1> DEFINE p == SubSeq(w, 1, t) \o (IF torn THEN <<Torn>> ELSE <<>>)
<1>7. next_lsn \in Nat /\ o.lsn + 1 \in Nat
  BY <1>2 DEF IInv, TypeOK, CatalogueType
<1>8. p \in Seq(Frame) /\ OneRow(p, next_lsn, o.lsn + 1) /\ RowsAre(p, nrows + 1)
  BY <1>5, <1>7, PrefixRow, PrefixRowsAre
<1>9. disk' = StoreFd(o.file, p, FALSE)
  BY <1>6
<1> HIDE DEF p
<1>10. WriteLogs(disk', nrows + 1)
  BY <1>2, <1>3, <1>8, <1>9, WriteEntries
<1> QED
  BY <1>3, <1>10, CallStep

\* A crash while a frame that is no row is written adds none.
LEMMA CrashInMarkerLogs ==
    ASSUME IInv, Down, UNCHANGED nrows, NEW f \in FileName \cup {Unlinked},
           NEW kind \in {"CHECKPOINT", "SHUTDOWN"},
           Interrupted(f, <<Fr(kind, next_lsn, 0)>>)
    PROVE  LogStep
<1> DEFINE w == <<Fr(kind, next_lsn, 0)>>
<1>1. next_lsn \in Nat /\ up
  BY DEF IInv, TypeOK, CatalogueType, Down
<1>2. Fr(kind, next_lsn, 0) \in Frame /\ Fr(kind, next_lsn, 0).kind # "ROW"
  BY <1>1, FrameType DEF Kinds, Fr
<1>3. w \in Seq(Frame) /\ OneRow(w, next_lsn, next_lsn) /\ NoRow(w)
  BY <1>2, NoRowOneRow DEF NoRow
<1> HIDE DEF w
<1>4. PICK t \in 0 .. Len(w), torn \in BOOLEAN :
        disk' = StoreFd(f, SubSeq(w, 1, t) \o (IF torn THEN <<Torn>> ELSE <<>>), FALSE)
  BY DEF Interrupted, w
<1> DEFINE p == SubSeq(w, 1, t) \o (IF torn THEN <<Torn>> ELSE <<>>)
<1>5. p \in Seq(Frame) /\ OneRow(p, next_lsn, next_lsn)
  BY <1>1, <1>3, PrefixRow
<1>6. disk' = StoreFd(f, p, FALSE)
  BY <1>4
<1> HIDE DEF p
<1>7. NoRow(p)
  <2>1. \A i \in DOMAIN p : p[i] \in Frame
    BY <1>5
  <2> QED
    BY <1>1, <1>5, <2>1 DEF OneRow, NoRow, Frame
<1> QED
  BY <1>1, <1>5, <1>6, <1>7, NoEntry, QuietStep

LEMMA StopLogs == IInv /\ Stop => LogStep
<1> SUFFICES ASSUME IInv, Stop PROVE LogStep
  OBVIOUS
<1>1. CASE ProcessEnds
  BY <1>1, QuietStep DEF ProcessEnds
<1>2. CASE CrashInCheckpoint
  <2>1. [id |-> segment_id, base |-> current_base_lsn] \in FileName
    BY DEF IInv, TypeOK, CatalogueType, FileName
  <2> QED
    BY <1>2, <2>1, CrashInMarkerLogs DEF CrashInCheckpoint
<1>3. CASE CrashInShutdown
  <2>1. active_fd \in FileName \cup {Unlinked}
    BY <1>3 DEF IInv, TypeOK, CatalogueType, CrashInShutdown
  <2> QED
    BY <1>3, <2>1, CrashInMarkerLogs DEF CrashInShutdown
<1>4. CASE PowerLoss
  <2>1. "power" \in Faults /\ nrows' = nrows
    BY <1>4 DEF PowerLoss
  <2>2. RowsOf(disk') \subseteq RowsOf(disk)
    <3>1. \A f, i : FrameIn(disk', f, i)
            => FrameIn(disk, f, i) /\ disk'[f].frames[i] = disk[f].frames[i]
      BY <1>4, PowerLossFrames
    <3>2. \A f, i : RowIn(disk', f, i)
            => RowIn(disk, f, i) /\ disk'[f].frames[i] = disk[f].frames[i]
      BY <3>1, FewerFrames
    <3> QED
      BY <3>2, FewerEntries
  <2> QED
    BY <2>1, <2>2, LossyStep
<1> QED
  BY <1>1, <1>2, <1>3, <1>4, CrashInAppendLogs, RecoverLogs DEF Stop

-----------------------------------------------------------------------------
(* The refinement.                                                         *)

LEMMA InitLogs == Init => Log!Init
<1> SUFFICES ASSUME Init PROVE Log!Init
  OBVIOUS
<1>1. DOMAIN disk = {} /\ nrows = 0
  BY DEF Init
<1> QED
  BY <1>1 DEF Log!Init, RowsOf

LEMMA NextLogs == IInv /\ [Next]_vars => LogStep
<1> SUFFICES ASSUME IInv, [Next]_vars PROVE LogStep
  OBVIOUS
<1>1. CASE ShutdownFlag \/ (\E r \in Readers : ReaderStep(r)) \/ UNCHANGED vars
  <2>1. disk' = disk /\ nrows' = nrows
    BY <1>1 DEF ShutdownFlag, ReaderStep, Attach, NextCall, NextRead, NextAdvance, TailWait,
                Detach, IteratorStep, counters, vars
  <2> QED
    BY <2>1, QuietStep
<1> QED
  BY <1>1, AppendLogs, MarkersLog, PruneLogs, RecoverLogs, StopLogs DEF Next

\* The directory of a WAL, through every crash and fault, is a RowLog: rows are added in
\* LSN order, never moved or brought back, and lost by pruning or power loss only.
THEOREM Refinement == Spec => ImplementsRowLog
<1>1. Spec => Log!Init
  BY InitLogs DEF Spec
<1>2. IInv /\ [Next]_vars => [Log!Next]_(Log!vars)
  BY NextLogs DEF LogStep
<1> QED
  BY <1>1, <1>2, Invariance, PTL DEF Spec, ImplementsRowLog, Log!Spec

\* Hence the LSNs of the rows on disk are in the order of the append calls that wrote them,
\* in every reachable state: recovery and retried rollovers included.
THEOREM LsnsInAppendOrder == Spec => []Log!AppendOrder
<1>1. Log!Spec => []Log!AppendOrder
  BY Log!Ordered
<1> QED
  BY <1>1, Refinement DEF ImplementsRowLog
=============================================================================
