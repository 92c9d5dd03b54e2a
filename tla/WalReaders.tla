----------------------------- MODULE WalReaders -----------------------------
(***************************************************************************)
(* Theorems about the iterators of Wal: what next() returns while rows are *)
(* appended, segments pruned and writes lost.                              *)
(***************************************************************************)
EXTENDS WalProofs

-----------------------------------------------------------------------------
(* No row is missed.                                                       *)

\* The LSN of the next row: behind a header if append has to open a segment.
NextRow == IF active_fd = NoFile THEN next_lsn + 1 ELSE next_lsn

\* No frame that can be decoded shares its LSN with a row.
Apart(d) ==
    \A f, g, i, j :
       /\ RowIn(d, f, i)
       /\ FrameIn(d, g, j)
       /\ d[f].frames[i].lsn = d[g].frames[j].lsn
       => f = g /\ i = j

FramesBelow(d, n) == \A f, i : FrameIn(d, f, i) => d[f].frames[i].lsn < n

\* An iterator has moved only over LSNs no row can take any more; the record it holds is the row
\* of that LSN if there is one; and the rows it has passed it has returned.
Follows(r) ==
    LET it == reader[r]
    IN  /\ it.current_lsn = it.from \/ is_shutdown \/ it.current_lsn <= NextRow
        /\ it.pc = "advance" =>
             /\ is_shutdown \/ it.current_lsn < NextRow
             /\ \A f, i : RowIn(disk, f, i) /\ disk[f].frames[i].lsn = it.current_lsn
                  => disk[f].frames[i] = it.record
        /\ \A f, i : /\ RowIn(disk, f, i)
                     /\ it.from <= disk[f].frames[i].lsn
                     /\ disk[f].frames[i].lsn < it.current_lsn
             => disk[f].frames[i].row \in it.got

(* The inductive invariant.  A seal whose fsync failed keeps the LSN that  *)
(* the next header takes, and a shutdown frame takes next_lsn without      *)
(* moving it: frames other than rows may lie above next_lsn, by one.  So   *)
(* may an iterator that has read them, and the next row must lie higher.   *)
RInv ==
    /\ IInv
    /\ Apart(disk)
    /\ up /\ ~is_shutdown => FramesBelow(disk, NextRow)
    /\ \A r \in Readers : reader[r].pc # "out" => up /\ Follows(r)

\* The types of the facts about LSNs.
LEMMA RowFrame ==
    ASSUME DiskType(disk), NEW f, NEW i, FrameIn(disk, f, i)
    PROVE  disk[f].frames[i] \in Frame /\ disk[f].frames[i].lsn \in Nat
  BY FrameOf DEF FrameIn, Live, DiskType, File

\* A write by a WAL object whose rows lie above all frames keeps rows apart from other frames.
LEMMA WriteApart ==
    ASSUME IInv, up, Apart(disk),
           NEW f \in FileName \cup {Unlinked}, NEW new \in Seq(Frame), NEW fs \in BOOLEAN,
           NEW m \in Nat, Span(new, next_lsn, m),
           NoRow(new) \/ (FramesBelow(disk, NextRow) /\ OneRow(new, NextRow, m)),
           NEW d, d = StoreFd(f, new, fs)
    PROVE  /\ Apart(d)
           /\ FramesBelow(disk, NextRow) /\ NextRow <= m => FramesBelow(d, m)
           /\ \A g, i : RowIn(d, g, i) =>
                \/ RowIn(disk, g, i) /\ d[g].frames[i] = disk[g].frames[i]
                \/ ~NoRow(new) /\ NextRow <= d[g].frames[i].lsn
<1>1. DiskType(disk) /\ Below(disk, next_lsn) /\ next_lsn \in Nat /\ NextRow \in Nat
  BY DEF IInv, TypeOK, CatalogueType, NextRow
<1> DEFINE Old(g, i) == FrameIn(disk, g, i) /\ d[g].frames[i] = disk[g].frames[i]
           New(g, i) == /\ g = f
                        /\ \E k \in DOMAIN new :
                             /\ i = Len(FramesOf(f)) + k
                             /\ d[g].frames[i] = new[k] /\ new[k].kind # "TORN"
<1>2. \A g, i : FrameIn(d, g, i) => Old(g, i) \/ New(g, i)
  <2> DEFINE Stored(dd, ff, nn) ==
        \A g, i : FrameIn(dd, g, i) =>
          \/ FrameIn(disk, g, i) /\ dd[g].frames[i] = disk[g].frames[i]
          \/ /\ g = ff /\ ff # Unlinked
             /\ \E k \in DOMAIN nn :
                  /\ i = Len(FramesOf(ff)) + k
                  /\ dd[g].frames[i] = nn[k] /\ nn[k].kind # "TORN"
  <2>1. \A ff \in FileName \cup {Unlinked} : \A nn \in Seq(Frame) : \A b \in BOOLEAN :
          Stored(StoreFd(ff, nn, b), ff, nn)
    BY <1>1, StoreFrames
  <2>2. Stored(d, f, new)
    <3> HIDE DEF Stored
    <3> QED
      BY <2>1
  <2> QED
    BY <2>2
<1>3. ASSUME NEW g, NEW i, New(g, i)
      PROVE  /\ d[g].frames[i].lsn \in Nat
             /\ next_lsn <= d[g].frames[i].lsn /\ d[g].frames[i].lsn < m
             /\ d[g].frames[i].kind = "ROW" =>
                  ~NoRow(new) /\ NextRow <= d[g].frames[i].lsn
  BY <1>3, FrameOf DEF Span, NoRow, OneRow
<1>4. ASSUME NEW g, NEW i, Old(g, i)
      PROVE  /\ d[g].frames[i].lsn \in Nat
             /\ d[g].frames[i].kind = "ROW" => d[g].frames[i].lsn < next_lsn /\ RowIn(disk, g, i)
             /\ FramesBelow(disk, NextRow) => d[g].frames[i].lsn < NextRow
  BY <1>1, <1>4, RowFrame DEF Below, RowIn, FrameIn, FramesBelow
<1>5. Apart(d)
  <2> SUFFICES ASSUME NEW g, NEW h, NEW i, NEW j, RowIn(d, g, i), FrameIn(d, h, j),
                      d[g].frames[i].lsn = d[h].frames[j].lsn
               PROVE  g = h /\ i = j
    BY DEF Apart
  <2>1. FrameIn(d, g, i) /\ d[g].frames[i].kind = "ROW"
    BY DEF RowIn, FrameIn
  <2>2. CASE Old(g, i) /\ Old(h, j)
    BY <1>4, <2>1, <2>2 DEF Apart
  <2>3. CASE Old(g, i) /\ New(h, j)
    <3>1. d[g].frames[i].lsn \in Nat /\ d[g].frames[i].lsn < next_lsn
      BY <1>4, <2>1, <2>3
    <3>2. d[h].frames[j].lsn \in Nat /\ next_lsn <= d[h].frames[j].lsn
      BY <1>3, <2>3
    <3> QED
      BY <1>1, <3>1, <3>2
  <2>4. CASE New(g, i) /\ Old(h, j)
    <3>1. FramesBelow(disk, NextRow)
      BY <1>3, <2>1, <2>4
    <3>2. d[h].frames[j].lsn \in Nat /\ d[h].frames[j].lsn < NextRow
      BY <1>4, <2>4, <3>1
    <3>3. d[g].frames[i].lsn \in Nat /\ NextRow <= d[g].frames[i].lsn
      BY <1>3, <2>1, <2>4
    <3> QED
      BY <1>1, <3>2, <3>3
  <2>5. CASE New(g, i) /\ New(h, j)
    <3>1. PICK k \in DOMAIN new :
            i = Len(FramesOf(f)) + k /\ d[g].frames[i] = new[k] /\ new[k].kind # "TORN"
      BY <2>5
    <3>2. PICK l \in DOMAIN new :
            j = Len(FramesOf(f)) + l /\ d[h].frames[j] = new[l] /\ new[l].kind # "TORN"
      BY <2>5
    <3>3. k = l
      BY <3>1, <3>2 DEF Span
    <3> QED
      BY <2>5, <3>1, <3>2, <3>3
  <2> QED
    BY <1>2, <2>1, <2>2, <2>3, <2>4, <2>5
<1>6. ASSUME FramesBelow(disk, NextRow), NextRow <= m
      PROVE  FramesBelow(d, m)
  BY <1>1, <1>2, <1>3, <1>4, <1>6 DEF FramesBelow
<1>7. \A g, i : RowIn(d, g, i) =>
        \/ RowIn(disk, g, i) /\ d[g].frames[i] = disk[g].frames[i]
        \/ ~NoRow(new) /\ NextRow <= d[g].frames[i].lsn
  <2> SUFFICES ASSUME NEW g, NEW i, RowIn(d, g, i)
               PROVE  \/ RowIn(disk, g, i) /\ d[g].frames[i] = disk[g].frames[i]
                      \/ ~NoRow(new) /\ NextRow <= d[g].frames[i].lsn
    OBVIOUS
  <2>1. FrameIn(d, g, i) /\ d[g].frames[i].kind = "ROW"
    BY DEF RowIn, FrameIn
  <2> QED
    BY <1>2, <1>3, <1>4, <2>1
<1> QED
  BY <1>5, <1>6, <1>7

\* A step that moves no iterator and whose new rows lie at NextRow or above leaves them following.
LEMMA StillFollows ==
    ASSUME RInv, reader' = reader, up', is_shutdown => is_shutdown',
           is_shutdown' \/ NextRow <= NextRow', NextRow' \in Nat,
           \A f, i : RowIn(disk', f, i) =>
                \/ RowIn(disk, f, i) /\ disk'[f].frames[i] = disk[f].frames[i]
                \/ ~is_shutdown /\ NextRow <= disk'[f].frames[i].lsn,
           DiskType(disk')
    PROVE  \A r \in Readers : reader'[r].pc # "out" => up' /\ Follows(r)'
<1> SUFFICES ASSUME NEW r \in Readers, reader[r].pc # "out"
             PROVE  Follows(r)'
  OBVIOUS
<1> DEFINE it == reader[r]
<1>1. it.current_lsn \in Nat /\ it.from \in Nat /\ NextRow \in Nat /\ DiskType(disk)
  BY DEF RInv, IInv, TypeOK, ReadersType, CatalogueType, NextRow
<1>2. Follows(r)
  BY DEF RInv
<1>3. \A f, i : RowIn(disk', f, i) => disk'[f].frames[i].lsn \in Nat
  BY FrameOf DEF RowIn, Live, DiskType, File
<1>4. it.current_lsn = it.from \/ is_shutdown' \/ it.current_lsn <= NextRow'
  BY <1>1, <1>2 DEF Follows
<1>5. ASSUME it.pc = "advance"
      PROVE  /\ is_shutdown' \/ it.current_lsn < NextRow'
             /\ \A f, i : RowIn(disk', f, i) /\ disk'[f].frames[i].lsn = it.current_lsn
                  => disk'[f].frames[i] = it.record
  <2>1. is_shutdown \/ it.current_lsn < NextRow
    BY <1>2, <1>5 DEF Follows
  <2>2. ASSUME NEW f, NEW i, RowIn(disk', f, i), disk'[f].frames[i].lsn = it.current_lsn
        PROVE  disk'[f].frames[i] = it.record
    <3>1. RowIn(disk, f, i) /\ disk'[f].frames[i] = disk[f].frames[i]
      BY <1>1, <1>3, <2>1, <2>2
    <3> QED
      BY <1>2, <1>5, <2>2, <3>1 DEF Follows
  <2> QED
    BY <1>1, <2>1, <2>2
<1>6. ASSUME NEW f, NEW i, RowIn(disk', f, i), it.from <= disk'[f].frames[i].lsn,
             disk'[f].frames[i].lsn < it.current_lsn
      PROVE  disk'[f].frames[i].row \in it.got
  <2>1. disk'[f].frames[i].lsn \in Nat
    BY <1>3, <1>6
  <2>2. is_shutdown \/ it.current_lsn <= NextRow
    BY <1>1, <1>2, <1>6, <2>1 DEF Follows
  <2>3. RowIn(disk, f, i) /\ disk'[f].frames[i] = disk[f].frames[i]
    BY <1>1, <1>6, <2>1, <2>2
  <2> QED
    BY <1>2, <1>6, <2>3 DEF Follows
<1> QED
  BY <1>4, <1>5, <1>6 DEF Follows

\* A write that leaves the next row above everything keeps the invariant.
LEMMA WriteFollows ==
    ASSUME RInv, IInv', up, up', reader' = reader, is_shutdown => is_shutdown',
           NEW f \in FileName \cup {Unlinked}, NEW new \in Seq(Frame), NEW fs \in BOOLEAN,
           disk' = StoreFd(f, new, fs),
           NEW m \in Nat, Span(new, next_lsn, m),
           NoRow(new) \/ (~is_shutdown /\ OneRow(new, NextRow, m)),
           is_shutdown' \/ (NextRow <= m /\ m <= NextRow')
    PROVE  RInv'
<1>1. IInv /\ Apart(disk) /\ (~is_shutdown => FramesBelow(disk, NextRow)) /\ DiskType(disk')
  BY DEF RInv, IInv, TypeOK
<1>2. NextRow \in Nat /\ NextRow' \in Nat
  BY DEF RInv, IInv, TypeOK, CatalogueType, NextRow
<1>3. /\ Apart(disk')
      /\ FramesBelow(disk, NextRow) /\ NextRow <= m => FramesBelow(disk', m)
      /\ \A g, i : RowIn(disk', g, i) =>
           \/ RowIn(disk, g, i) /\ disk'[g].frames[i] = disk[g].frames[i]
           \/ ~NoRow(new) /\ NextRow <= disk'[g].frames[i].lsn
  BY <1>1, WriteApart
<1>4. ASSUME ~is_shutdown' PROVE FramesBelow(disk', NextRow')
  <2>1. FramesBelow(disk', m) /\ m <= NextRow'
    BY <1>1, <1>3, <1>4
  <2>2. \A g, i : FrameIn(disk', g, i) => disk'[g].frames[i].lsn \in Nat
    BY <1>1, FrameOf DEF FrameIn, Live, DiskType, File
  <2> QED
    BY <1>2, <2>1, <2>2 DEF FramesBelow
<1>5. \A g, i : RowIn(disk', g, i) =>
        \/ RowIn(disk, g, i) /\ disk'[g].frames[i] = disk[g].frames[i]
        \/ ~is_shutdown /\ NextRow <= disk'[g].frames[i].lsn
  BY <1>3
<1>6. is_shutdown' \/ NextRow <= NextRow'
  BY <1>2
<1>7. \A r \in Readers : reader'[r].pc # "out" => up' /\ Follows(r)'
  BY <1>1, <1>2, <1>5, <1>6, StillFollows
<1> QED
  BY <1>3, <1>4, <1>7 DEF RInv

\* append's first block writes a header below the row to come, or nothing.
LEMMA AfterOpenSpan ==
    ASSUME TypeOK, NEW oh \in WriteOutcome, NEW o, o = AfterOpen(oh)
    PROVE  o.lsn = NextRow /\ Span(o.wrote, next_lsn, o.lsn)
<1>1. next_lsn \in Nat
  BY DEF TypeOK, CatalogueType
<1>2. CASE active_fd # NoFile
  <2>1. o.wrote = <<>> /\ o.lsn = next_lsn
    BY <1>2 DEF AfterOpen
  <2> QED
    BY <1>2, <2>1 DEF NextRow, Span
<1>3. CASE active_fd = NoFile
  <2>1. o.wrote = Bytes(Fr("HEADER", next_lsn, 0), oh) /\ o.lsn = next_lsn + 1
    BY <1>3 DEF AfterOpen
  <2>2. Fr("HEADER", next_lsn, 0) \in Frame /\ Fr("HEADER", next_lsn, 0).lsn = next_lsn
    BY <1>1, FrameType DEF Fr, Kinds
  <2>3. oh \in {"ok", "none", "part"}
    BY OutcomeType
  <2>4. Span(o.wrote, next_lsn, next_lsn + 1)
    BY <2>1, <2>2, <2>3, SpanOne
  <2> QED
    BY <1>3, <2>1, <2>4 DEF NextRow
<1> QED
  BY <1>2, <1>3

\* The frames of an append whose row is written: a header perhaps, the row, a seal perhaps.
LEMMA AppendSpan ==
    ASSUME IInv, NEW oh \in WriteOutcome, NEW o, o = AfterOpen(oh),
           NEW seal \in Seq(Frame), NoRow(seal), NEW m \in Nat, o.lsn < m, Span(seal, o.lsn + 1, m)
    PROVE  LET new == o.wrote \o <<Row(o.lsn)>> \o seal
           IN  /\ new \in Seq(Frame)
               /\ Span(new, next_lsn, m)
               /\ OneRow(new, NextRow, m)
<1> DEFINE row == <<Row(o.lsn)>>
           new == o.wrote \o row \o seal
<1>1. /\ o.wrote \in Seq(Frame) /\ NoRow(o.wrote) /\ o.lsn \in Nat /\ next_lsn <= o.lsn
      /\ next_lsn \in Nat
  BY AfterOpenType DEF IInv, TypeOK, CatalogueType
<1>2. o.lsn = NextRow /\ Span(o.wrote, next_lsn, o.lsn)
  BY AfterOpenSpan DEF IInv
<1>3. Row(o.lsn) \in Frame /\ Row(o.lsn).lsn = o.lsn
  BY <1>1, RowType DEF IInv
<1>4. row \in Seq(Frame) /\ Span(row, o.lsn, o.lsn + 1)
  BY <1>1, <1>3 DEF Span
<1>5. new \in Seq(Frame) /\ OneRow(new, o.lsn, o.lsn + 1)
  BY <1>1, <1>3, RowBetween
<1> HIDE DEF row
<1>6. o.wrote \o row \in Seq(Frame) /\ Span(o.wrote \o row, next_lsn, o.lsn + 1)
  BY <1>1, <1>2, <1>4, SpanConcat
<1>7. Span(new, next_lsn, m)
  <2> DEFINE head == o.wrote \o row
  <2>1. head \in Seq(Frame) /\ Span(head, next_lsn, o.lsn + 1)
    BY <1>6
  <2>2. o.lsn + 1 \in Nat /\ next_lsn <= o.lsn + 1 /\ o.lsn + 1 <= m
    BY <1>1
  <2> HIDE DEF head
  <2>3. Span(head \o seal, next_lsn, m)
    BY <1>1, <2>1, <2>2, SpanConcat
  <2> QED
    BY <2>3 DEF head
<1> HIDE DEF new
<1>8. OneRow(new, NextRow, m)
  <2>1. \A i \in DOMAIN new : new[i].lsn \in Nat
    BY <1>5, FrameOf
  <2> QED
    BY <1>1, <1>2, <1>5, <2>1 DEF OneRow
<1> QED
  BY <1>5, <1>7, <1>8 DEF new, row

\* What one frame that is no row leaves, whatever becomes of its write.
LEMMA MarkerSpan ==
    ASSUME NEW kind \in Kinds \ {"ROW"}, NEW lsn \in Nat, NEW o \in WriteOutcome
    PROVE  /\ Bytes(Fr(kind, lsn, 0), o) \in Seq(Frame)
           /\ NoRow(Bytes(Fr(kind, lsn, 0), o))
           /\ Span(Bytes(Fr(kind, lsn, 0), o), lsn, lsn + 1)
<1>1. Fr(kind, lsn, 0) \in Frame /\ Fr(kind, lsn, 0).lsn = lsn /\ Fr(kind, lsn, 0).kind # "ROW"
  BY FrameType DEF Fr
<1> QED
  BY <1>1, OutcomeType, BytesType, SpanOne

-----------------------------------------------------------------------------
(* The actions keep the invariant.                                         *)

LEMMA AppendFailsFollows == RInv /\ IInv' /\ AppendFails => RInv'
<1> SUFFICES ASSUME RInv, IInv', AppendFails PROVE RInv'
  OBVIOUS
<1>1. PICK oh \in WriteOutcome, ow \in WriteOutcome \ {"ok"} :
        LET o == AfterOpen(oh)
        IN  /\ disk' = StoreFd(o.file, o.wrote \o Bytes(Row(o.lsn), ow), FALSE)
            /\ active_fd' = o.file
            /\ next_lsn' = o.lsn
  BY DEF AppendFails
<1> DEFINE o == AfterOpen(oh)
           row == Bytes(Row(o.lsn), ow)
           new == o.wrote \o row
<1>2. IInv /\ up /\ up' /\ ~is_shutdown /\ is_shutdown' = is_shutdown /\ reader' = reader
  BY DEF AppendFails, AppendCall, RInv
<1>3. /\ o.file \in FileName \cup {Unlinked} /\ o.wrote \in Seq(Frame) /\ NoRow(o.wrote)
      /\ o.lsn \in Nat /\ next_lsn \in Nat /\ next_lsn <= o.lsn
  BY <1>2, AfterOpenType DEF IInv, TypeOK, CatalogueType
<1>4. o.lsn = NextRow /\ Span(o.wrote, next_lsn, o.lsn)
  BY <1>2, AfterOpenSpan DEF IInv
<1>5. row \in Seq(Frame) /\ NoRow(row) /\ Span(row, o.lsn, o.lsn)
  BY <1>2, <1>3, RowType, OutcomeType, BytesType, SpanOne DEF IInv
<1>6. disk' = StoreFd(o.file, new, FALSE) /\ NextRow' = o.lsn
  <2>1. o.file # NoFile
    BY <1>3 DEF FileName, NoFile, Unlinked
  <2> QED
    BY <1>1, <2>1 DEF NextRow
<1> HIDE DEF o, row
<1>7. new \in Seq(Frame) /\ NoRow(new) /\ Span(new, next_lsn, o.lsn)
  BY <1>3, <1>4, <1>5, NoRowConcat, SpanConcat
<1>8. NextRow <= o.lsn /\ o.lsn <= NextRow'
  BY <1>3, <1>4, <1>6
<1> HIDE DEF new
<1> QED
  BY <1>2, <1>3, <1>6, <1>7, <1>8, WriteFollows

LEMMA AppendRowFollows == RInv /\ IInv' /\ AppendRow => RInv'
<1> SUFFICES ASSUME RInv, IInv', AppendRow PROVE RInv'
  OBVIOUS
<1>1. PICK oh \in WriteOutcome :
        LET o == AfterOpen(oh)
        IN  /\ disk' = StoreFd(o.file, o.wrote \o <<Row(o.lsn)>>, FALSE)
            /\ active_fd' = o.file
            /\ next_lsn' = o.lsn + 1
  BY DEF AppendRow
<1> DEFINE o == AfterOpen(oh)
           new == o.wrote \o <<Row(o.lsn)>> \o <<>>
<1>2. IInv /\ up /\ up' /\ ~is_shutdown /\ is_shutdown' = is_shutdown /\ reader' = reader
  BY DEF AppendRow, AppendCall, RInv
<1>3. o.file \in FileName \cup {Unlinked} /\ o.wrote \in Seq(Frame) /\ o.lsn \in Nat
  BY <1>2, AfterOpenType DEF IInv
<1>4. o.lsn = NextRow /\ Row(o.lsn) \in Frame
  BY <1>2, <1>3, AfterOpenSpan, RowType DEF IInv
<1>5. new = o.wrote \o <<Row(o.lsn)>>
  BY <1>3, <1>4
<1>6. disk' = StoreFd(o.file, new, FALSE) /\ NextRow' = o.lsn + 1
  <2>1. o.file # NoFile
    BY <1>3 DEF FileName, NoFile, Unlinked
  <2> QED
    BY <1>1, <1>5, <2>1 DEF NextRow
<1>7. o = AfterOpen(oh)
  OBVIOUS
<1> HIDE DEF o
<1>8. <<>> \in Seq(Frame) /\ NoRow(<<>>) /\ Span(<<>>, o.lsn + 1, o.lsn + 1) /\ o.lsn + 1 \in Nat
  BY <1>3 DEF NoRow, Span
<1>9. new \in Seq(Frame) /\ Span(new, next_lsn, o.lsn + 1) /\ OneRow(new, NextRow, o.lsn + 1)
  <2>1. o.lsn < o.lsn + 1
    BY <1>3
  <2> QED
    BY <1>2, <1>3, <1>8, <1>7, <2>1, AppendSpan
<1>10. NextRow <= o.lsn + 1 /\ o.lsn + 1 <= NextRow'
  BY <1>3, <1>4, <1>6
<1> HIDE DEF new
<1> QED
  BY <1>2, <1>3, <1>6, <1>8, <1>9, <1>10, WriteFollows

\* The frames of an append that fills its segment.
LEMMA SealFollows ==
    ASSUME RInv, IInv', AppendCall, NEW oh \in WriteOutcome, NEW os \in WriteOutcome,
           NEW fs \in BOOLEAN, NEW o, o = AfterOpen(oh), NextRow' >= o.lsn + 2,
           disk' = StoreFd(o.file, o.wrote \o <<Row(o.lsn)>> \o Bytes(Fr("SEAL", o.lsn + 1, 0), os), fs)
    PROVE  RInv'
<1> DEFINE seal == Bytes(Fr("SEAL", o.lsn + 1, 0), os)
           new == o.wrote \o <<Row(o.lsn)>> \o seal
<1>1. IInv /\ up /\ up' /\ ~is_shutdown /\ is_shutdown' = is_shutdown /\ reader' = reader
  BY DEF AppendCall, RInv
<1>2. o.file \in FileName \cup {Unlinked} /\ o.lsn \in Nat /\ o.lsn + 2 \in Nat
  BY <1>1, AfterOpenType DEF IInv
<1>3. o.lsn = NextRow /\ NextRow <= o.lsn + 2
  BY <1>1, <1>2, AfterOpenSpan DEF IInv
<1>4. seal \in Seq(Frame) /\ NoRow(seal) /\ Span(seal, o.lsn + 1, o.lsn + 2)
  <2>1. "SEAL" \in Kinds \ {"ROW"} /\ o.lsn + 1 \in Nat /\ (o.lsn + 1) + 1 = o.lsn + 2
    BY <1>2 DEF Kinds
  <2> QED
    BY <2>1, MarkerSpan
<1> HIDE DEF seal
<1>5. new \in Seq(Frame) /\ Span(new, next_lsn, o.lsn + 2) /\ OneRow(new, NextRow, o.lsn + 2)
  BY <1>1, <1>2, <1>4, AppendSpan
<1>6. disk' = StoreFd(o.file, new, fs) /\ o.lsn + 2 <= NextRow'
  <2>1. NextRow' \in Nat
    BY DEF IInv, TypeOK, CatalogueType, NextRow
  <2> QED
    BY <1>2, <2>1 DEF seal
<1> HIDE DEF new
<1> QED
  BY <1>1, <1>2, <1>3, <1>5, <1>6, WriteFollows

LEMMA AppendSealsFollows == RInv /\ IInv' /\ AppendSeals => RInv'
<1> SUFFICES ASSUME RInv, IInv', AppendSeals PROVE RInv'
  OBVIOUS
<1>1. PICK oh, os \in WriteOutcome :
        LET o    == AfterOpen(oh)
            seal == Bytes(Fr("SEAL", o.lsn + 1, 0), os)
        IN  /\ disk' = StoreFd(o.file, o.wrote \o <<Row(o.lsn)>> \o seal, Strategy = "ALWAYS")
            /\ next_lsn' = o.lsn + 2
  BY DEF AppendSeals
<1> DEFINE o == AfterOpen(oh)
<1>2. o.lsn \in Nat
  BY AfterOpenType DEF RInv, IInv
<1>3. NextRow' >= o.lsn + 2 /\ AppendCall /\ (Strategy = "ALWAYS") \in BOOLEAN
  BY <1>1, <1>2 DEF AppendSeals, NextRow
<1>4. disk' = StoreFd(o.file, o.wrote \o <<Row(o.lsn)>> \o Bytes(Fr("SEAL", o.lsn + 1, 0), os),
                      Strategy = "ALWAYS")
  BY <1>1
<1> HIDE DEF o
<1> QED
  BY <1>3, <1>4, SealFollows DEF o

LEMMA AppendSealUnsyncedFollows == RInv /\ IInv' /\ AppendSealUnsynced => RInv'
<1> SUFFICES ASSUME RInv, IInv', AppendSealUnsynced PROVE RInv'
  OBVIOUS
<1>1. PICK oh, os \in WriteOutcome :
        LET o    == AfterOpen(oh)
            seal == Bytes(Fr("SEAL", o.lsn + 1, 0), os)
        IN  /\ disk' = StoreFd(o.file, o.wrote \o <<Row(o.lsn)>> \o seal, FALSE)
            /\ next_lsn' = o.lsn + 1
  BY DEF AppendSealUnsynced
<1> DEFINE o == AfterOpen(oh)
<1>2. o.lsn \in Nat
  BY AfterOpenType DEF RInv, IInv
<1>3. NextRow' >= o.lsn + 2 /\ AppendCall
  BY <1>1, <1>2 DEF AppendSealUnsynced, NextRow
<1>4. disk' = StoreFd(o.file, o.wrote \o <<Row(o.lsn)>> \o Bytes(Fr("SEAL", o.lsn + 1, 0), os),
                      FALSE)
  BY <1>1
<1> HIDE DEF o
<1> QED
  BY <1>3, <1>4, SealFollows DEF o

LEMMA SyncFollows == RInv /\ IInv' /\ Sync => RInv'
<1> SUFFICES ASSUME RInv, IInv', Sync PROVE RInv'
  OBVIOUS
<1>1. up /\ up' /\ is_shutdown' = is_shutdown /\ reader' = reader /\ NextRow' = NextRow
  BY DEF Sync, catalogue, NextRow
<1>2. active_fd \in FileName \cup {Unlinked} /\ NextRow \in Nat /\ next_lsn \in Nat /\ next_lsn <= NextRow
  BY DEF Sync, RInv, IInv, TypeOK, CatalogueType, NextRow
<1> DEFINE new == <<>>
<1>3. new \in Seq(Frame) /\ NoRow(new) /\ Span(new, next_lsn, NextRow)
  BY DEF NoRow, Span
<1>4. disk' = StoreFd(active_fd, new, TRUE) /\ TRUE \in BOOLEAN
  BY DEF Sync
<1>5. NextRow <= NextRow /\ NextRow <= NextRow'
  BY <1>1, <1>2
<1> HIDE DEF new
<1> QED
  BY <1>1, <1>2, <1>3, <1>4, <1>5, WriteFollows

LEMMA ShutdownFlagFollows == RInv /\ IInv' /\ ShutdownFlag => RInv'
<1> SUFFICES ASSUME RInv, IInv', ShutdownFlag PROVE RInv'
  OBVIOUS
<1>1. /\ disk' = disk /\ up /\ up' /\ is_shutdown' /\ reader' = reader /\ NextRow' = NextRow
  BY DEF ShutdownFlag, catalogue, NextRow, RInv, IInv, TypeOK, FlagsType
<1>2. NextRow' \in Nat /\ DiskType(disk')
  BY DEF RInv, IInv, TypeOK, CatalogueType, NextRow
<1>3. \A r \in Readers : reader'[r].pc # "out" => up' /\ Follows(r)'
  BY <1>1, <1>2, StillFollows
<1> QED
  BY <1>1, <1>3 DEF RInv

LEMMA ShutdownSealFollows == RInv /\ IInv' /\ ShutdownSeal => RInv'
<1> SUFFICES ASSUME RInv, IInv', ShutdownSeal PROVE RInv'
  OBVIOUS
<1>1. up /\ up' /\ is_shutdown /\ is_shutdown' /\ reader' = reader /\ next_lsn \in Nat
  BY DEF ShutdownSeal, RInv, IInv, TypeOK, CatalogueType
<1>2. CASE active_fd = NoFile
  <2>1. disk' = disk /\ NextRow' \in Nat /\ DiskType(disk')
    BY <1>2 DEF ShutdownSeal, RInv, IInv, TypeOK, CatalogueType, NextRow
  <2>2. \A r \in Readers : reader'[r].pc # "out" => up' /\ Follows(r)'
    BY <1>1, <2>1, StillFollows
  <2> QED
    BY <1>1, <2>1, <2>2 DEF RInv
<1>3. CASE active_fd # NoFile
  <2>1. PICK o \in WriteOutcome, fs \in FsyncOutcome :
          disk' = StoreFd(active_fd, Bytes(Fr("SHUTDOWN", next_lsn, 0), o), fs)
    BY <1>3 DEF ShutdownSeal
  <2> DEFINE new == Bytes(Fr("SHUTDOWN", next_lsn, 0), o)
  <2>2. new \in Seq(Frame) /\ NoRow(new) /\ Span(new, next_lsn, next_lsn + 1)
    <3>1. "SHUTDOWN" \in Kinds \ {"ROW"}
      BY DEF Kinds
    <3> QED
      BY <1>1, <3>1, MarkerSpan
  <2>3. disk' = StoreFd(active_fd, new, fs) /\ fs \in BOOLEAN /\ next_lsn + 1 \in Nat
    BY <1>1, <2>1, OutcomeType
  <2>4. active_fd \in FileName \cup {Unlinked}
    BY <1>3 DEF RInv, IInv, TypeOK, CatalogueType
  <2> HIDE DEF new
  <2> QED
    BY <1>1, <2>2, <2>3, <2>4, WriteFollows
<1> QED
  BY <1>2, <1>3

\* Where no checkpoint is taken there is none to write and none to be cut short.
LEMMA NoCheckpoint ==
    ASSUME MaxCheckpoints = 0, IInv
    PROVE  ~Checkpoint /\ ~CrashInCheckpoint
<1>1. ncheckpoints \in Nat
  BY DEF IInv, TypeOK, CallsType
<1>2. ~(ncheckpoints < MaxCheckpoints)
  BY <1>1
<1> QED
  BY <1>2 DEF Checkpoint, CrashInCheckpoint

\* Fewer frames leave rows apart and below.
LEMMA FewerApart ==
    ASSUME NEW d, NEW e,
           \A f, i : FrameIn(e, f, i) => FrameIn(d, f, i) /\ e[f].frames[i] = d[f].frames[i]
    PROVE  /\ Apart(d) => Apart(e)
           /\ \A n : FramesBelow(d, n) => FramesBelow(e, n)
<1>1. \A f, i : RowIn(e, f, i) => RowIn(d, f, i) /\ e[f].frames[i] = d[f].frames[i]
  BY FewerFrames
<1>2. ASSUME Apart(d) PROVE Apart(e)
  <2> SUFFICES ASSUME NEW f, NEW g, NEW i, NEW j, RowIn(e, f, i), FrameIn(e, g, j),
                      e[f].frames[i].lsn = e[g].frames[j].lsn
               PROVE  f = g /\ i = j
    BY DEF Apart
  <2>1. RowIn(d, f, i) /\ e[f].frames[i] = d[f].frames[i]
    BY <1>1
  <2>2. FrameIn(d, g, j) /\ e[g].frames[j] = d[g].frames[j]
    OBVIOUS
  <2> QED
    BY <1>2, <2>1, <2>2 DEF Apart
<1>3. \A n : FramesBelow(d, n) => FramesBelow(e, n)
  BY DEF FramesBelow
<1> QED
  BY <1>2, <1>3

LEMMA PruneFollows == RInv /\ IInv' /\ Prune => RInv'
<1> SUFFICES ASSUME RInv, IInv', Prune PROVE RInv'
  OBVIOUS
<1>1. /\ up /\ up' /\ is_shutdown' = is_shutdown /\ reader' = reader /\ next_lsn' = next_lsn
  BY DEF Prune
<1>2. PICK m \in Pins :
        /\ disk' = [f \in DOMAIN disk \ {e.file : e \in Gone(m)} |-> disk[f]]
        /\ active_fd' = IF active_fd \in {e.file : e \in Gone(m)} THEN Unlinked ELSE active_fd
  BY DEF Prune
<1>3. \A f, i : FrameIn(disk', f, i) => FrameIn(disk, f, i) /\ disk'[f].frames[i] = disk[f].frames[i]
  BY <1>2 DEF FrameIn
<1>4. NextRow' = NextRow
  <2>1. \A e \in Gone(m) : e.file \in FileName
    BY DEF Gone, Removable, RInv, IInv, TypeOK, CatalogueType, ListType, SegmentInfo
  <2>2. active_fd = NoFile <=> active_fd' = NoFile
    BY <1>2, <2>1 DEF FileName, NoFile, Unlinked
  <2> QED
    BY <1>1, <2>2 DEF NextRow
<1>5. NextRow' \in Nat /\ DiskType(disk')
  BY DEF RInv, IInv, TypeOK, CatalogueType, NextRow
<1>6. \A r \in Readers : reader'[r].pc # "out" => up' /\ Follows(r)'
  <2>1. \A f, i : RowIn(disk', f, i) => RowIn(disk, f, i) /\ disk'[f].frames[i] = disk[f].frames[i]
    BY <1>3, FewerFrames
  <2>2. NextRow <= NextRow'
    BY <1>4, <1>5
  <2> QED
    BY <1>1, <1>5, <2>1, <2>2, StillFollows
<1>7. Apart(disk') /\ (~is_shutdown' => FramesBelow(disk', NextRow'))
  BY <1>1, <1>3, <1>4, FewerApart DEF RInv
<1> QED
  BY <1>6, <1>7 DEF RInv

\* What read_record_at_lsn gives is a frame of the directory, with that LSN.
LEMMA ReadAtFrame ==
    ASSUME TypeOK, NEW lsn, NEW fr \in ReadAt(lsn)
    PROVE  \E f, i : FrameIn(disk, f, i) /\ disk[f].frames[i] = fr /\ fr.lsn = lsn
<1>1. PICK e \in segment_list : \E i \in DOMAIN Decodable(FramesOf(e.file)) :
        fr = Decodable(FramesOf(e.file))[i] /\ fr.lsn = lsn
  BY DEF ReadAt, Holding
<1> DEFINE s == FramesOf(e.file)
<1>2. s \in Seq(Frame)
  BY DEF TypeOK, DiskType, FramesOf, File
<1>3. PICK i \in DOMAIN Decodable(s) : fr = Decodable(s)[i] /\ fr.lsn = lsn
  BY <1>1
<1>4. s # <<>> => e.file \in DOMAIN disk /\ s = disk[e.file].frames
  BY DEF FramesOf
<1> HIDE DEF s
<1>5. /\ i \in 1 .. Len(s) /\ fr = s[i]
      /\ \A j \in 1 .. i : s[j].kind # "TORN"
  BY <1>2, <1>3, DecodablePrefix
<1>6. Live(s, i) /\ s # <<>>
  BY <1>2, <1>5 DEF Live
<1>7. FrameIn(disk, e.file, i) /\ disk[e.file].frames[i] = fr
  BY <1>4, <1>5, <1>6 DEF FrameIn
<1> QED
  BY <1>3, <1>7

LEMMA ReaderStepFollows ==
    ASSUME NEW r \in Readers
    PROVE  RInv /\ IInv' /\ ReaderStep(r) => RInv'
<1> SUFFICES ASSUME RInv, IInv', ReaderStep(r) PROVE RInv'
  OBVIOUS
<1> DEFINE it == reader[r]
<1>1. /\ up /\ up' /\ UNCHANGED <<disk, is_shutdown>> /\ NextRow' = NextRow
  <2>1. \E pc : IteratorStep(r, pc)
    BY DEF ReaderStep, Attach, NextCall, NextRead, NextAdvance, TailWait, Detach
  <2>2. up /\ UNCHANGED <<disk, up, active_fd, next_lsn, is_shutdown>>
    BY <2>1 DEF IteratorStep, catalogue
  <2> QED
    BY <2>2 DEF NextRow
<1>2. /\ it.current_lsn \in Nat /\ it.from \in Nat /\ NextRow \in Nat /\ DiskType(disk)
      /\ \A q \in Readers \ {r} : reader'[q] = reader[q]
  <2>1. DiskType(disk) /\ ReadersType /\ NextRow \in Nat
    BY DEF RInv, IInv, TypeOK, CatalogueType, NextRow
  <2>2. \A q \in Readers \ {r} : reader'[q] = reader[q]
    BY <2>1 DEF ReadersType, ReaderStep, Attach, NextCall, NextRead, NextAdvance, TailWait, Detach
  <2> QED
    BY <2>1, <2>2 DEF ReadersType
<1>3. ASSUME NEW q \in Readers \ {r}, reader'[q].pc # "out"
      PROVE  Follows(q)'
  <2>1. Follows(q) /\ reader'[q] = reader[q]
    BY <1>2, <1>3 DEF RInv
  <2> QED
    BY <1>1, <2>1 DEF Follows
<1>4. \A f, i : RowIn(disk, f, i) => disk[f].frames[i].lsn \in Nat /\ FrameIn(disk, f, i)
  BY <1>2, FrameOf DEF RowIn, FrameIn, Live, DiskType, File
<1>5. CASE Attach(r)
  <2>1. PICK l \in StartLsns :
          reader'[r] = [Out EXCEPT !.pc = "idle", !.from = l, !.current_lsn = l]
    BY <1>5 DEF Attach, RInv, IInv, TypeOK, ReadersType
  <2>2. l \in Nat /\ reader'[r].pc = "idle" /\ reader'[r].from = l /\ reader'[r].current_lsn = l
    BY <2>1, WalAssumption DEF Out
  <2>3. Follows(r)'
    BY <1>1, <1>4, <2>2 DEF Follows
  <2> QED
    BY <1>1, <1>3, <2>3 DEF RInv
<1>6. CASE NextCall(r) \/ TailWait(r)
  <2>1. /\ it.pc # "out" /\ reader'[r].pc # "advance"
        /\ reader'[r].from = it.from /\ reader'[r].current_lsn = it.current_lsn
        /\ reader'[r].got = it.got
    BY <1>6 DEF NextCall, TailWait, IteratorStep, RInv, IInv, TypeOK, ReadersType
  <2>2. Follows(r)
    BY <2>1 DEF RInv
  <2>3. Follows(r)'
    BY <1>1, <2>1, <2>2 DEF Follows
  <2> QED
    BY <1>1, <1>3, <2>3 DEF RInv
<1>7. CASE NextRead(r)
  <2>1. /\ it.pc # "out"
        /\ reader'[r].from = it.from /\ reader'[r].current_lsn = it.current_lsn
        /\ reader'[r].got = it.got
        /\ reader'[r].pc = "advance" => reader'[r].record \in ReadAt(it.current_lsn)
    <3>1. CASE ReadAt(it.current_lsn) = {}
      BY <1>7, <3>1 DEF NextRead, IteratorStep, RInv, IInv, TypeOK, ReadersType
    <3>2. CASE ReadAt(it.current_lsn) # {}
      BY <1>7, <3>2 DEF NextRead, IteratorStep, RInv, IInv, TypeOK, ReadersType
    <3> QED
      BY <3>1, <3>2
  <2>2. Follows(r)
    BY <2>1 DEF RInv
  <2>3. ASSUME reader'[r].pc = "advance"
        PROVE  /\ is_shutdown \/ it.current_lsn < NextRow
               /\ \A f, i : RowIn(disk, f, i) /\ disk[f].frames[i].lsn = it.current_lsn
                    => disk[f].frames[i] = reader'[r].record
    <3>1. PICK g, j : /\ FrameIn(disk, g, j)
                      /\ disk[g].frames[j] = reader'[r].record
                      /\ reader'[r].record.lsn = it.current_lsn
      BY <2>1, <2>3, ReadAtFrame DEF RInv, IInv
    <3>2. is_shutdown \/ it.current_lsn < NextRow
      BY <1>1, <3>1 DEF RInv, FramesBelow
    <3>3. \A f, i : RowIn(disk, f, i) /\ disk[f].frames[i].lsn = it.current_lsn
            => disk[f].frames[i] = reader'[r].record
      BY <3>1 DEF RInv, Apart
    <3> QED
      BY <3>2, <3>3
  <2>4. Follows(r)'
    BY <1>1, <2>1, <2>2, <2>3 DEF Follows
  <2> QED
    BY <1>1, <1>3, <2>4 DEF RInv
<1>8. CASE NextAdvance(r)
  <2>1. it.pc = "advance" /\ reader'[r] = Returned(it)
    BY <1>8 DEF NextAdvance, IteratorStep, RInv, IInv, TypeOK, ReadersType
  <2>2. /\ reader'[r].pc = "idle" /\ reader'[r].from = it.from
        /\ reader'[r].current_lsn = it.current_lsn + 1
        /\ it.got \subseteq reader'[r].got
        /\ it.record.kind = "ROW" => it.record.row \in reader'[r].got
    <3>1. it \in [pc : {"out", "idle", "read", "advance", "wait"},
                  from : Nat, current_lsn : Nat, record : Frame, got : SUBSET Nat]
      BY DEF RInv, IInv, TypeOK, ReadersType
    <3> HIDE DEF it
    <3> QED
      BY <2>1, <3>1 DEF Returned
  <2>3. Follows(r)
    BY <2>1 DEF RInv
  <2>4. ASSUME NEW f, NEW i, RowIn(disk, f, i), it.from <= disk[f].frames[i].lsn,
               disk[f].frames[i].lsn < it.current_lsn + 1
        PROVE  disk[f].frames[i].row \in reader'[r].got
    <3>1. CASE disk[f].frames[i].lsn = it.current_lsn
      <4>1. disk[f].frames[i] = it.record /\ disk[f].frames[i].kind = "ROW"
        BY <2>1, <2>3, <2>4, <3>1 DEF Follows, RowIn
      <4> QED
        BY <2>2, <4>1
    <3>2. CASE disk[f].frames[i].lsn # it.current_lsn
      <4>1. disk[f].frames[i].lsn < it.current_lsn
        BY <1>2, <1>4, <2>4, <3>2
      <4> QED
        BY <2>2, <2>3, <2>4, <4>1 DEF Follows
    <3> QED
      BY <3>1, <3>2
  <2>5. is_shutdown \/ it.current_lsn + 1 <= NextRow
    BY <1>2, <2>1, <2>3 DEF Follows
  <2>6. Follows(r)'
    BY <1>1, <2>2, <2>4, <2>5 DEF Follows
  <2> QED
    BY <1>1, <1>3, <2>6 DEF RInv
<1>9. CASE Detach(r)
  <2>1. reader'[r].pc = "out"
    BY <1>9 DEF Detach, Out, RInv, IInv, TypeOK, ReadersType
  <2> QED
    BY <1>1, <1>3, <2>1 DEF RInv
<1> QED
  BY <1>5, <1>6, <1>7, <1>8, <1>9 DEF ReaderStep

-----------------------------------------------------------------------------
(* The process ends and starts.                                            *)

LEMMA RecoverFollows == RInv /\ IInv' /\ Recover => RInv'
<1> SUFFICES ASSUME RInv, IInv', Recover PROVE RInv'
  OBVIOUS
<1>1. PICK cut \in SUBSET Damaged, fs \in FsyncOutcome : Truncate(cut, fs)
  BY DEF Recover
<1>2. \A f, i : FrameIn(disk', f, i) => FrameIn(disk, f, i) /\ disk'[f].frames[i] = disk[f].frames[i]
  BY <1>1, OutcomeType, TruncateStep DEF RInv, Damaged
<1>3. ~up /\ up' /\ reader' = reader /\ \A l \in Lsns : l < next_lsn'
  BY DEF Recover
<1>4. next_lsn' \in Nat /\ DiskType(disk)
  BY DEF RInv, IInv, TypeOK, CatalogueType
<1>5. FramesBelow(disk', NextRow')
  <2> SUFFICES ASSUME NEW f, NEW i, FrameIn(disk', f, i)
               PROVE  disk'[f].frames[i].lsn < NextRow'
    BY DEF FramesBelow
  <2>1. FrameIn(disk, f, i) /\ disk'[f].frames[i] = disk[f].frames[i]
    BY <1>2
  <2>2. f \in DOMAIN disk /\ disk[f].frames \in Seq(Frame) /\ disk[f].frames[i].lsn \in Nat
    BY <1>4, <2>1, RowFrame DEF FrameIn, DiskType, File
  <2>3. i \in DOMAIN Kept(f) /\ Kept(f)[i] = disk[f].frames[i]
    BY <2>1, <2>2, DecodablePrefix DEF Kept, FrameIn
  <2>4. disk[f].frames[i].lsn \in Lsns
    BY <2>2, <2>3 DEF Lsns, LsnsIn
  <2>5. disk[f].frames[i].lsn < next_lsn'
    BY <1>3, <2>4
  <2> QED
    BY <1>4, <2>1, <2>2, <2>5 DEF NextRow
<1>6. Apart(disk')
  BY <1>2, FewerApart DEF RInv
<1> QED
  BY <1>3, <1>5, <1>6 DEF RInv

\* Without a WAL object there are no iterators.
LEMMA DownFollows ==
    ASSUME Down, IInv', Apart(disk')
    PROVE  RInv'
<1>1. ~up' /\ reader' = [r \in Readers |-> Out] /\ Out.pc = "out"
  BY DEF Down, Out
<1> QED
  BY <1>1 DEF RInv

\* A call cut short writes the first of its frames, and perhaps a part of the next.
LEMMA PrefixFrames ==
    ASSUME NEW w \in Seq(Frame), NEW k \in 0 .. Len(w), NEW torn \in BOOLEAN,
           NEW p, p = SubSeq(w, 1, k) \o (IF torn THEN <<Torn>> ELSE <<>>)
    PROVE  /\ p \in Seq(Frame)
           /\ \A i \in DOMAIN p : (i \in DOMAIN w /\ p[i] = w[i]) \/ p[i].kind = "TORN"
<1>1. Torn \in Frame /\ Torn.kind = "TORN"
  BY FrameType DEF Torn, Fr
<1>2. /\ SubSeq(w, 1, k) \in Seq(Frame)
      /\ Len(SubSeq(w, 1, k)) = k
      /\ \A i \in 1 .. k : SubSeq(w, 1, k)[i] = w[i]
  OBVIOUS
<1>3. CASE torn
  <2>1. p = SubSeq(w, 1, k) \o <<Torn>>
    BY <1>3
  <2>2. p \in Seq(Frame) /\ Len(p) = k + 1 /\ p[k + 1] = Torn
    BY <1>1, <1>2, <2>1
  <2>3. \A i \in 1 .. k : p[i] = w[i]
    BY <1>2, <2>1
  <2> QED
    BY <1>1, <2>2, <2>3
<1>4. CASE ~torn
  <2>1. p = SubSeq(w, 1, k)
    BY <1>2, <1>4
  <2> QED
    BY <1>2, <2>1
<1> QED
  BY <1>3, <1>4

LEMMA PrefixSpan ==
    ASSUME NEW w \in Seq(Frame), NEW k \in 0 .. Len(w), NEW torn \in BOOLEAN,
           NEW lo, NEW hi, Span(w, lo, hi)
    PROVE  Span(SubSeq(w, 1, k) \o (IF torn THEN <<Torn>> ELSE <<>>), lo, hi)
<1> DEFINE p == SubSeq(w, 1, k) \o (IF torn THEN <<Torn>> ELSE <<>>)
<1>1. \A i \in DOMAIN p : (i \in DOMAIN w /\ p[i] = w[i]) \/ p[i].kind = "TORN"
  BY PrefixFrames
<1> HIDE DEF p
<1>2. Span(p, lo, hi)
  BY <1>1 DEF Span
<1> QED
  BY <1>2 DEF p

\* A call cut short leaves the rows apart from the other frames.
LEMMA InterruptedApart ==
    ASSUME RInv, up, NEW f \in FileName \cup {Unlinked}, NEW w \in Seq(Frame), NEW m \in Nat,
           Span(w, next_lsn, m), Interrupted(f, w),
           NoRow(w) \/ (~is_shutdown /\ OneRow(w, NextRow, m))
    PROVE  Apart(disk')
<1>1. PICK t \in 0 .. Len(w), torn \in BOOLEAN :
        disk' = StoreFd(f, SubSeq(w, 1, t) \o (IF torn THEN <<Torn>> ELSE <<>>), FALSE)
  BY DEF Interrupted
<1> DEFINE p == SubSeq(w, 1, t) \o (IF torn THEN <<Torn>> ELSE <<>>)
<1>2. NextRow \in Nat /\ IInv /\ Apart(disk) /\ (~is_shutdown => FramesBelow(disk, NextRow))
  BY DEF RInv, IInv, TypeOK, CatalogueType, NextRow
<1>3. p \in Seq(Frame) /\ (OneRow(w, NextRow, m) => OneRow(p, NextRow, m))
  <2>1. OneRow(w, NextRow, m) => p \in Seq(Frame) /\ OneRow(p, NextRow, m)
    BY <1>2, PrefixRow
  <2>2. NoRow(w) => OneRow(w, NextRow, m)
    BY NoRowOneRow
  <2> QED
    BY <2>1, <2>2
<1>4. NoRow(w) => NoRow(p)
  <2> SUFFICES ASSUME NoRow(w) PROVE NoRow(p)
    OBVIOUS
  <2>1. OneRow(w, 0, 0)
    BY NoRowOneRow
  <2>2. OneRow(p, 0, 0)
    BY <2>1, PrefixRow
  <2>3. \A i \in DOMAIN p : p[i].lsn \in Nat
    BY <1>3, FrameOf
  <2> HIDE DEF p
  <2> QED
    BY <2>2, <2>3 DEF NoRow, OneRow
<1>5. Span(p, next_lsn, m)
  BY PrefixSpan
<1>6. disk' = StoreFd(f, p, FALSE) /\ FALSE \in BOOLEAN
  BY <1>1
<1> HIDE DEF p
<1> QED
  BY <1>2, <1>3, <1>4, <1>5, <1>6, WriteApart

LEMMA StopFollows == MaxCheckpoints = 0 /\ RInv /\ IInv' /\ Stop => RInv'
<1> SUFFICES ASSUME MaxCheckpoints = 0, RInv, IInv', Stop PROVE RInv'
  OBVIOUS
<1>1. CASE ProcessEnds
  BY <1>1, DownFollows DEF ProcessEnds, RInv
<1>2. CASE CrashInAppend
  <2> DEFINE o == AfterOpen("ok")
             seal == IF o.space + 1 >= MaxSegSize THEN <<Fr("SEAL", o.lsn + 1, 0)>> ELSE <<>>
             new == o.wrote \o <<Row(o.lsn)>> \o seal
  <2>1. "ok" \in WriteOutcome
    BY DEF WriteOutcome
  <2>2. o.file \in FileName \cup {Unlinked} /\ o.lsn \in Nat
    BY <2>1, AfterOpenType DEF RInv, IInv
  <2>3. Down /\ up /\ ~is_shutdown /\ Interrupted(o.file, new)
    BY <1>2 DEF CrashInAppend, Down
  <2>4. o = AfterOpen("ok")
    OBVIOUS
  <2> HIDE DEF o
  <2>5. seal \in Seq(Frame) /\ NoRow(seal) /\ Span(seal, o.lsn + 1, o.lsn + 2)
    <3>1. Fr("SEAL", o.lsn + 1, 0) \in Frame /\ Fr("SEAL", o.lsn + 1, 0).kind # "ROW"
          /\ Fr("SEAL", o.lsn + 1, 0).lsn = o.lsn + 1
      BY <2>2, FrameType DEF Kinds, Fr
    <3> QED
      BY <2>2, <3>1 DEF NoRow, Span
  <2>6. o.lsn + 2 \in Nat /\ o.lsn < o.lsn + 2
    BY <2>2
  <2> HIDE DEF seal
  <2>7. new \in Seq(Frame) /\ Span(new, next_lsn, o.lsn + 2) /\ OneRow(new, NextRow, o.lsn + 2)
    BY <2>1, <2>4, <2>5, <2>6, AppendSpan DEF RInv
  <2> HIDE DEF new
  <2>8. Apart(disk')
    BY <2>2, <2>3, <2>6, <2>7, InterruptedApart
  <2> QED
    BY <2>3, <2>8, DownFollows
<1>3. CASE CrashInCheckpoint
  BY <1>3, NoCheckpoint DEF RInv
<1>4. CASE CrashInShutdown
  <2> DEFINE new == <<Fr("SHUTDOWN", next_lsn, 0)>>
  <2>1. Down /\ up /\ active_fd \in FileName \cup {Unlinked} /\ next_lsn \in Nat
        /\ next_lsn + 1 \in Nat /\ Interrupted(active_fd, new)
    BY <1>4 DEF CrashInShutdown, Down, RInv, IInv, TypeOK, CatalogueType
  <2>2. Fr("SHUTDOWN", next_lsn, 0) \in Frame /\ Fr("SHUTDOWN", next_lsn, 0).kind # "ROW"
        /\ Fr("SHUTDOWN", next_lsn, 0).lsn = next_lsn
    BY <2>1, FrameType DEF Kinds, Fr
  <2>3. new \in Seq(Frame) /\ NoRow(new) /\ Span(new, next_lsn, next_lsn + 1)
    BY <2>1, <2>2 DEF NoRow, Span
  <2> HIDE DEF new
  <2>4. Apart(disk')
    BY <2>1, <2>3, InterruptedApart
  <2> QED
    BY <2>1, <2>4, DownFollows
<1>5. CASE CrashInRecovery
  <2>1. PICK cut \in SUBSET Damaged : Truncate(cut, TRUE)
    BY <1>5 DEF CrashInRecovery
  <2>2. \A f, i : FrameIn(disk', f, i) => FrameIn(disk, f, i) /\ disk'[f].frames[i] = disk[f].frames[i]
    BY <2>1, TruncateStep DEF RInv, Damaged
  <2>3. Apart(disk')
    BY <2>2, FewerApart DEF RInv
  <2>4. ~up /\ ~up' /\ reader' = reader
    BY <1>5 DEF CrashInRecovery
  <2> QED
    BY <2>3, <2>4 DEF RInv
<1>6. CASE PowerLoss
  <2>1. Apart(disk')
    BY <1>6, PowerLossFrames, FewerApart DEF RInv
  <2> QED
    BY <1>6, <2>1, DownFollows DEF PowerLoss
<1> QED
  BY <1>1, <1>2, <1>3, <1>4, <1>5, <1>6 DEF Stop

-----------------------------------------------------------------------------
(* The invariant.                                                          *)

LEMMA InitRInv == Init => RInv
<1> SUFFICES ASSUME Init PROVE RInv
  OBVIOUS
<1>1. IInv
  BY InitIInv
<1>2. ~up /\ DOMAIN disk = {} /\ reader = [r \in Readers |-> Out] /\ Out.pc = "out"
  BY DEF Init, Out
<1>3. Apart(disk)
  BY <1>2 DEF Apart, RowIn
<1> QED
  BY <1>1, <1>2, <1>3 DEF RInv

LEMMA NextRInv == MaxCheckpoints = 0 /\ RInv /\ IInv' /\ [Next]_vars => RInv'
<1> SUFFICES ASSUME MaxCheckpoints = 0, RInv, IInv', [Next]_vars PROVE RInv'
  OBVIOUS
<1>1. CASE AppendStep
  BY <1>1, AppendFailsFollows, AppendRowFollows, AppendSealsFollows, AppendSealUnsyncedFollows
     DEF AppendStep
<1>2. CASE Checkpoint
  BY <1>2, NoCheckpoint DEF RInv
<1>3. CASE \E r \in Readers : ReaderStep(r)
  BY <1>3, ReaderStepFollows
<1>4. CASE UNCHANGED vars
  <2>1. UNCHANGED <<disk, up, active_fd, next_lsn, is_shutdown, reader>>
    BY <1>4 DEF vars, catalogue
  <2>2. NextRow' = NextRow /\ \A r \in Readers : Follows(r) => Follows(r)'
    BY <2>1 DEF NextRow, Follows
  <2> QED
    BY <2>1, <2>2 DEF RInv
<1> QED
  BY <1>1, <1>2, <1>3, <1>4, SyncFollows, ShutdownFlagFollows, ShutdownSealFollows, PruneFollows,
     RecoverFollows, StopFollows DEF Next

\* An iterator returns every row between its start and its position, whatever segments the
\* writer seals, the worker prunes and shutdown closes between two of its calls, and whatever
\* writes and fsyncs fail: next() never steps over a row.  Where checkpoint() is called this
\* is false: its record takes the LSN of the row to come, and may be returned in its place.
THEOREM IteratorsMissNoRow == MaxCheckpoints = 0 => (Spec => []ReaderMissesNoRow)
<1> SUFFICES ASSUME MaxCheckpoints = 0 PROVE Spec => []ReaderMissesNoRow
  OBVIOUS
<1>1. RInv => ReaderMissesNoRow
  BY DEF RInv, Follows, ReaderMissesNoRow, LiveRow, RowIn
<1>2. RInv /\ IInv' /\ [Next]_vars => RInv'
  BY NextRInv
<1> QED
  BY <1>1, <1>2, InitRInv, Invariance, PTL DEF Spec

-----------------------------------------------------------------------------
(* What is unread stays readable.                                          *)

\* An entry is known by its file and first LSN, and positions lie within the vector.
Listed(l) ==
    /\ \A d, e \in l : d.file = e.file /\ d.base_lsn = e.base_lsn => d = e
    /\ \A e \in l : e.pos <= Cardinality(l)

FilesOnce(l) == \A d, e \in l : d.file = e.file => d = e

(* The inductive invariant.  What read_record_at_lsn gives for an LSN      *)
(* depends on the first entry that covers it: a new entry must go behind   *)
(* the others and differ from them, so base LSNs stay below next_lsn, and  *)
(* do so when recovery takes them from the file names.  The worker removes *)
(* files by entries below the least pin, so an iterator's pin must be its  *)
(* position, and a file must not have two entries: as long as no fsync     *)
(* fails, the id of a segment to be opened is new.                         *)
UInv ==
    /\ IInv
    /\ Listed(segment_list)
    /\ \A e \in segment_list : e.base_lsn < next_lsn
    /\ "fsync" \notin Faults =>
         /\ FilesOnce(segment_list)
         /\ \A e \in segment_list : e.file.id <= segment_id
         /\ active_fd = NoFile /\ ~is_shutdown => \A e \in segment_list : e.file.id < segment_id
    /\ \A r \in Readers : reader[r].pc # "out" =>
         /\ up
         /\ r \in DOMAIN registered_readers
         /\ registered_readers[r] = reader[r].current_lsn

\* read_record_at_lsn of any directory and vector.
Covers(l, lsn) == {e \in l : e.base_lsn <= lsn /\ lsn <= e.last_lsn}
FirstOf(l, lsn) == {h \in Covers(l, lsn) : \A d \in Covers(l, lsn) : h.pos <= d.pos}
ReadFrom(d, l, lsn) ==
    UNION {LET s == Decodable(IF e.file \in DOMAIN d THEN d[e.file].frames ELSE <<>>)
           IN  {s[i] : i \in {j \in DOMAIN s :
                  s[j].lsn = lsn /\ \A k \in 1 .. j - 1 : s[k].lsn # lsn}}
           : e \in FirstOf(l, lsn)}

\* Frame i is the first of file f with that LSN.
FirstWith(d, f, lsn, i) ==
    /\ FrameIn(d, f, i)
    /\ d[f].frames[i].lsn = lsn
    /\ \A k \in 1 .. i - 1 : d[f].frames[k].lsn # lsn

LEMMA ReadAtIsReadFrom ==
    /\ \A lsn : ReadAt(lsn) = ReadFrom(disk, segment_list, lsn)
    /\ \A lsn : ReadAt(lsn)' = ReadFrom(disk', segment_list', lsn)
  BY DEF ReadAt, ReadFrom, Holding, FirstOf, Covers, FramesOf

\* What is read is the first frame with that LSN in the first entry that covers it.
LEMMA ReadFromMember ==
    ASSUME NEW d, DiskType(d), NEW l, NEW lsn, NEW fr
    PROVE  fr \in ReadFrom(d, l, lsn) <=>
             \E h \in FirstOf(l, lsn) : \E i :
                FirstWith(d, h.file, lsn, i) /\ fr = d[h.file].frames[i]
<1> DEFINE s(h) == IF h.file \in DOMAIN d THEN d[h.file].frames ELSE <<>>
           At(h) == {Decodable(s(h))[i] : i \in {j \in DOMAIN Decodable(s(h)) :
                       /\ Decodable(s(h))[j].lsn = lsn
                       /\ \A k \in 1 .. j - 1 : Decodable(s(h))[k].lsn # lsn}}
<1>1. fr \in ReadFrom(d, l, lsn) <=> \E h \in FirstOf(l, lsn) : fr \in At(h)
  BY DEF ReadFrom
<1>2. ASSUME NEW h
      PROVE  fr \in At(h) <=>
               \E i : FirstWith(d, h.file, lsn, i) /\ fr = d[h.file].frames[i]
  <2> DEFINE t == s(h)
             p == Decodable(t)
  <2>1. t \in Seq(Frame)
    BY DEF DiskType, File
  <2>2. /\ h.file \in DOMAIN d => t = d[h.file].frames
        /\ h.file \notin DOMAIN d => t = <<>>
    OBVIOUS
  <2>3. fr \in At(h) <=> \E i \in DOMAIN p : /\ fr = p[i] /\ p[i].lsn = lsn
                                             /\ \A k \in 1 .. i - 1 : p[k].lsn # lsn
    OBVIOUS
  <2> HIDE DEF t, At
  <2>4. /\ p \in Seq(Frame) /\ Len(p) <= Len(t)
        /\ \A i \in 1 .. Len(p) : p[i] = t[i] /\ t[i].kind # "TORN"
        /\ \A i : Live(t, i) => i \in 1 .. Len(p)
    BY <2>1, DecodablePrefix
  <2> HIDE DEF p
  <2>5. \A i : i \in DOMAIN p <=> FrameIn(d, h.file, i)
    <3>1. ASSUME NEW i \in DOMAIN p PROVE FrameIn(d, h.file, i)
      <4>1. i \in 1 .. Len(p) /\ i \in 1 .. Len(t)
        BY <2>1, <2>4
      <4>2. \A j \in 1 .. i : t[j].kind # "TORN"
        BY <2>4, <4>1
      <4>3. Live(t, i) /\ t # <<>>
        BY <2>1, <4>1, <4>2 DEF Live
      <4> QED
        BY <2>2, <4>3 DEF FrameIn
    <3>2. ASSUME NEW i, FrameIn(d, h.file, i) PROVE i \in DOMAIN p
      BY <2>2, <2>4, <3>2 DEF FrameIn
    <3> QED
      BY <3>1, <3>2
  <2>6. \A i : FrameIn(d, h.file, i) =>
          /\ p[i] = d[h.file].frames[i]
          /\ \A k \in 1 .. i - 1 : p[k] = d[h.file].frames[k]
    <3> SUFFICES ASSUME NEW i, FrameIn(d, h.file, i)
                 PROVE  /\ p[i] = d[h.file].frames[i]
                        /\ \A k \in 1 .. i - 1 : p[k] = d[h.file].frames[k]
      OBVIOUS
    <3>1. i \in 1 .. Len(p) /\ t = d[h.file].frames
      BY <2>2, <2>4, <2>5 DEF FrameIn
    <3> QED
      BY <2>4, <3>1
  <2> QED
    BY <2>3, <2>5, <2>6 DEF FirstWith
<1> QED
  BY <1>1, <1>2

\* If the first entry for an LSN stays the first, of a file that keeps its frames, what is
\* read for the LSN stays the same.
LEMMA ReadKept ==
    ASSUME NEW d, DiskType(d), NEW e, DiskType(e), NEW l, NEW m, NEW lsn,
           \A h \in FirstOf(l, lsn) : \E k \in FirstOf(m, lsn) :
              /\ k.file = h.file
              /\ \A i : FrameIn(d, h.file, i) =>
                   FrameIn(e, h.file, i) /\ e[h.file].frames[i] = d[h.file].frames[i]
    PROVE  ReadFrom(d, l, lsn) \subseteq ReadFrom(e, m, lsn)
<1> SUFFICES ASSUME NEW fr \in ReadFrom(d, l, lsn) PROVE fr \in ReadFrom(e, m, lsn)
  OBVIOUS
<1>1. PICK h, i :
        h \in FirstOf(l, lsn) /\ FirstWith(d, h.file, lsn, i) /\ fr = d[h.file].frames[i]
  BY ReadFromMember
<1>2. PICK k \in FirstOf(m, lsn) :
        /\ k.file = h.file
        /\ \A j : FrameIn(d, h.file, j) =>
             FrameIn(e, h.file, j) /\ e[h.file].frames[j] = d[h.file].frames[j]
  BY <1>1
<1>3. \A j \in 1 .. i : FrameIn(d, h.file, j)
  <2>1. FrameIn(d, h.file, i) /\ d[h.file].frames \in Seq(Frame)
    BY <1>1 DEF FirstWith, FrameIn, DiskType, File
  <2> QED
    BY <2>1 DEF FrameIn, Live
<1>4. i \in Nat \ {0}
  BY <1>1 DEF FirstWith, FrameIn, Live, DiskType, File
<1>5. FirstWith(e, k.file, lsn, i) /\ fr = e[k.file].frames[i]
  BY <1>1, <1>2, <1>3, <1>4 DEF FirstWith
<1> QED
  BY <1>5, ReadFromMember

-----------------------------------------------------------------------------
(* The vector.                                                             *)

\* Changing entries other than in file and first LSN changes neither their number nor which
\* file is whose.
LEMMA ListedImage ==
    ASSUME NEW l, ListType(l), Listed(l),
           NEW g, g = [e \in l |-> g[e]],
           \A e \in l : g[e].file = e.file /\ g[e].base_lsn = e.base_lsn,
           NEW m, m = {g[e] : e \in l},
           \A e \in l : g[e].pos <= Cardinality(l)
    PROVE  Listed(m) /\ (FilesOnce(l) => FilesOnce(m))
<1>1. g \in Surjection(l, m)
  BY DEF Surjection
<1>2. \A d, e \in l : g[d] = g[e] => d = e
  BY DEF Listed
<1>3. g \in Injection(l, m)
  BY <1>1, <1>2 DEF Surjection, Injection, IsInjective
<1>4. Cardinality(m) = Cardinality(l)
  BY <1>1, <1>3, FS_Surjection DEF ListType
<1>5. \A d, e \in m : d.file = e.file /\ d.base_lsn = e.base_lsn => d = e
  BY DEF Listed
<1>6. \A e \in m : e.pos <= Cardinality(m)
  BY <1>4
<1>7. FilesOnce(l) => FilesOnce(m)
  BY DEF FilesOnce
<1> QED
  BY <1>5, <1>6, <1>7 DEF Listed

LEMMA PushBackListed ==
    ASSUME NEW l, ListType(l), Listed(l), NEW f, NEW n \in Nat, \A e \in l : e.base_lsn < n
    PROVE  /\ Listed(PushBack(l, f, n))
           /\ FilesOnce(l) /\ (\A e \in l : e.file # f) => FilesOnce(PushBack(l, f, n))
           /\ \A lsn \in Nat : lsn < n => FirstOf(l, lsn) \subseteq FirstOf(PushBack(l, f, n), lsn)
<1> DEFINE new == [pos |-> Cardinality(l) + 1, file |-> f, base_lsn |-> n, last_lsn |-> n]
<1>1. PushBack(l, f, n) = l \cup {new}
  BY DEF PushBack
<1>2. /\ new.file = f /\ new.pos = Cardinality(l) + 1 /\ new.base_lsn = n
      /\ \A e \in l : /\ e.pos \in Nat /\ e.pos <= Cardinality(l)
                      /\ e.base_lsn \in Nat /\ e.base_lsn # n
  BY DEF Listed, ListType, SegmentInfo
<1> HIDE DEF new
<1>3. Cardinality(l) \in Nat /\ Cardinality(l \cup {new}) = Cardinality(l) + 1
  <2>1. new \notin l
    BY <1>2
  <2> QED
    BY <2>1, FS_AddElement, FS_CardinalityType DEF ListType
<1>4. Listed(PushBack(l, f, n))
  <2>1. \A e \in l \cup {new} : e.pos <= Cardinality(l \cup {new})
    BY <1>2, <1>3
  <2>2. \A d, e \in l \cup {new} : d.file = e.file /\ d.base_lsn = e.base_lsn => d = e
    BY <1>2 DEF Listed
  <2> QED
    BY <1>1, <2>1, <2>2 DEF Listed
<1>5. ASSUME NEW lsn \in Nat, lsn < n, NEW h \in FirstOf(l, lsn)
      PROVE  h \in FirstOf(PushBack(l, f, n), lsn)
  BY <1>1, <1>2, <1>3, <1>5 DEF FirstOf, Covers
<1>6. FilesOnce(l) /\ (\A e \in l : e.file # f) => FilesOnce(PushBack(l, f, n))
  BY <1>1, <1>2 DEF FilesOnce
<1> QED
  BY <1>4, <1>5, <1>6

LEMMA BackLastListed ==
    ASSUME NEW l, ListType(l), Listed(l), NEW n \in Nat
    PROVE  /\ Listed(BackLast(l, n))
           /\ FilesOnce(l) => FilesOnce(BackLast(l, n))
           /\ \A e \in BackLast(l, n) : \E d \in l : d.file = e.file /\ d.base_lsn = e.base_lsn
           /\ \A lsn \in Nat : lsn <= n =>
                \A h \in FirstOf(l, lsn) : \E k \in FirstOf(BackLast(l, n), lsn) : k.file = h.file
<1> DEFINE g == [e \in l |-> IF IsBack(l, e) THEN [e EXCEPT !.last_lsn = n] ELSE e]
<1>1. BackLast(l, n) = {g[e] : e \in l} /\ g = [e \in l |-> g[e]]
  BY DEF BackLast
<1>2. \A e \in l : /\ e.pos \in Nat /\ e.base_lsn \in Nat /\ e.last_lsn \in Nat
                   /\ g[e].file = e.file /\ g[e].pos = e.pos /\ g[e].base_lsn = e.base_lsn
                   /\ IsBack(l, e) => g[e].last_lsn = n
                   /\ ~IsBack(l, e) => g[e].last_lsn = e.last_lsn
  BY DEF ListType, SegmentInfo
<1> HIDE DEF g
<1>3. Listed(BackLast(l, n)) /\ (FilesOnce(l) => FilesOnce(BackLast(l, n)))
  <2>1. \A e \in l : g[e].pos <= Cardinality(l)
    BY <1>2 DEF Listed
  <2> QED
    BY <1>1, <1>2, <2>1, ListedImage
<1>4. \A e \in BackLast(l, n) : \E d \in l : d.file = e.file /\ d.base_lsn = e.base_lsn
  BY <1>1, <1>2
<1>5. ASSUME NEW lsn \in Nat, lsn <= n, NEW h \in FirstOf(l, lsn)
      PROVE  \E k \in FirstOf(BackLast(l, n), lsn) : k.file = h.file
  <2>1. h \in l /\ g[h] \in BackLast(l, n) /\ h.base_lsn <= lsn /\ lsn <= h.last_lsn
    BY <1>1 DEF FirstOf, Covers
  <2>2. g[h] \in Covers(BackLast(l, n), lsn)
    BY <1>2, <1>5, <2>1 DEF Covers
  <2>3. ASSUME NEW d \in l, g[d] \in Covers(BackLast(l, n), lsn)
        PROVE  h.pos <= d.pos
    <3>1. CASE IsBack(l, d)
      BY <2>1, <3>1 DEF IsBack
    <3>2. CASE ~IsBack(l, d)
      <4>1. d \in Covers(l, lsn)
        BY <1>2, <2>3, <3>2 DEF Covers
      <4> QED
        BY <4>1 DEF FirstOf
    <3> QED
      BY <3>1, <3>2
  <2>4. \A d \in Covers(BackLast(l, n), lsn) : g[h].pos <= d.pos
    BY <1>1, <1>2, <2>1, <2>3 DEF Covers
  <2> QED
    BY <1>2, <2>1, <2>2, <2>4 DEF FirstOf
<1> QED
  BY <1>3, <1>4, <1>5

LEMMA EraseListed ==
    ASSUME NEW l, ListType(l), Listed(l), NEW gone
    PROVE  /\ Listed(Erase(l, gone))
           /\ FilesOnce(l) => FilesOnce(Erase(l, gone))
           /\ \A e \in Erase(l, gone) :
                \E d \in l \ gone : d.file = e.file /\ d.base_lsn = e.base_lsn
           /\ \A lsn : \A h \in FirstOf(l, lsn) \ gone :
                \E k \in FirstOf(Erase(l, gone), lsn) : k.file = h.file
<1> DEFINE left == l \ gone
           upto(e) == {d \in left : d.pos <= e.pos}
           g == [e \in left |-> [e EXCEPT !.pos = Cardinality(upto(e))]]
<1>1. Erase(l, gone) = {g[e] : e \in left} /\ g = [e \in left |-> g[e]]
  BY DEF Erase
<1>2. \A e \in left : /\ e.pos \in Nat /\ g[e].pos = Cardinality(upto(e))
                      /\ g[e].file = e.file
                      /\ g[e].base_lsn = e.base_lsn /\ g[e].last_lsn = e.last_lsn
  BY DEF ListType, SegmentInfo
<1> HIDE DEF g
<1>3. ListType(left) /\ IsFiniteSet(left)
  BY FS_Subset DEF ListType
<1>4. \A e \in left : /\ IsFiniteSet(upto(e)) /\ upto(e) \in SUBSET left
                      /\ Cardinality(upto(e)) <= Cardinality(left)
  BY <1>3, FS_Subset
<1>5. Listed(Erase(l, gone)) /\ (FilesOnce(l) => FilesOnce(Erase(l, gone)))
  <2>1. FilesOnce(l) => FilesOnce(left)
    BY DEF FilesOnce
  <2>2. \A e \in left : g[e].pos <= Cardinality(left)
    BY <1>2, <1>4
  <2>3. \A d, e \in left : d.file = e.file /\ d.base_lsn = e.base_lsn => d = e
    BY DEF Listed
  <2> HIDE DEF left, upto
  <2>4. g \in Surjection(left, Erase(l, gone))
    BY <1>1 DEF Surjection
  <2>5. g \in Injection(left, Erase(l, gone))
    BY <1>2, <2>3, <2>4 DEF Surjection, Injection, IsInjective
  <2>6. Cardinality(Erase(l, gone)) = Cardinality(left)
    BY <1>3, <2>4, <2>5, FS_Surjection
  <2>7. \A e \in Erase(l, gone) : e.pos <= Cardinality(Erase(l, gone))
    BY <1>1, <2>2, <2>6
  <2>8. \A d, e \in Erase(l, gone) : d.file = e.file /\ d.base_lsn = e.base_lsn => d = e
    BY <1>1, <1>2, <2>3
  <2>9. FilesOnce(left) => FilesOnce(Erase(l, gone))
    BY <1>1, <1>2 DEF FilesOnce
  <2> QED
    BY <2>1, <2>7, <2>8, <2>9 DEF Listed
<1>6. \A e \in Erase(l, gone) : \E d \in left : d.file = e.file /\ d.base_lsn = e.base_lsn
  BY <1>1, <1>2
<1>7. ASSUME NEW lsn, NEW h \in FirstOf(l, lsn) \ gone
      PROVE  \E k \in FirstOf(Erase(l, gone), lsn) : k.file = h.file
  <2>1. h \in left /\ g[h] \in Erase(l, gone)
    BY <1>1 DEF FirstOf, Covers
  <2>2. g[h] \in Covers(Erase(l, gone), lsn)
    BY <1>2, <1>7, <2>1 DEF FirstOf, Covers
  <2>3. ASSUME NEW d \in left, g[d] \in Covers(Erase(l, gone), lsn)
        PROVE  g[h].pos <= g[d].pos
    <3>1. d \in Covers(l, lsn)
      BY <1>2, <2>3 DEF Covers
    <3>2. h.pos <= d.pos
      BY <3>1 DEF FirstOf
    <3>3. ASSUME NEW e \in left, e.pos <= h.pos PROVE e.pos <= d.pos
      <4>1. e.pos \in Nat /\ h.pos \in Nat /\ d.pos \in Nat
        BY <1>2, <2>1
      <4> QED
        BY <3>2, <3>3, <4>1
    <3>4. upto(h) \in SUBSET upto(d)
      BY <3>3
    <3>5. Cardinality(upto(h)) <= Cardinality(upto(d))
      BY <1>4, <3>4, FS_Subset
    <3> QED
      BY <1>2, <2>1, <3>5
  <2>4. \A d \in Covers(Erase(l, gone), lsn) : g[h].pos <= d.pos
    BY <1>1, <2>3 DEF Covers
  <2> QED
    BY <1>2, <2>1, <2>2, <2>4 DEF FirstOf
<1> QED
  BY <1>5, <1>6, <1>7

-----------------------------------------------------------------------------
(* Headers.                                                                *)

\* A segment's header lies no lower than the base in the segment's name.
HeadersAbove(d) ==
    \A f, i : FrameIn(d, f, i) /\ d[f].frames[i].kind = "HEADER"
                => f.base <= d[f].frames[i].lsn

\* Inductive because a segment is named by current_base_lsn and its header carries next_lsn.
HInv == IInv /\ HeadersAbove(disk) /\ current_base_lsn <= next_lsn

NoHeader(s) == \A i \in DOMAIN s : s[i].kind # "HEADER"
HeadersFrom(s, n) == \A i \in DOMAIN s : s[i].kind = "HEADER" => n <= s[i].lsn

\* A write keeps headers above the bases of their files if those it writes are.
LEMMA WriteHeaders ==
    ASSUME DiskType(disk), NEW f \in FileName \cup {Unlinked}, NEW new \in Seq(Frame),
           NEW fs \in BOOLEAN, NEW d, d = StoreFd(f, new, fs)
    PROVE  HeadersAbove(disk)
             /\ (f = Unlinked \/ HeadersFrom(new, f.base))
           => HeadersAbove(d)
<1>1. \A h, j : FrameIn(d, h, j) =>
         \/ FrameIn(disk, h, j) /\ d[h].frames[j] = disk[h].frames[j]
         \/ /\ h = f /\ f # Unlinked
            /\ \E k \in DOMAIN new :
                 /\ j = Len(FramesOf(f)) + k
                 /\ d[h].frames[j] = new[k] /\ new[k].kind # "TORN"
  BY StoreFrames, SMTT(40)
<1> QED
  BY <1>1 DEF HeadersAbove, HeadersFrom

\* Two sequences without headers make one; and a frame that is none makes one.
LEMMA HeaderConcat ==
    ASSUME NEW s \in Seq(Frame), NEW t \in Seq(Frame), NEW n,
           HeadersFrom(s, n), NoHeader(t)
    PROVE  HeadersFrom(s \o t, n)
<1>1. \A i \in DOMAIN (s \o t) :
         \/ i \in DOMAIN s /\ (s \o t)[i] = s[i]
         \/ i - Len(s) \in DOMAIN t /\ (s \o t)[i] = t[i - Len(s)]
  OBVIOUS
<1> QED
  BY <1>1 DEF NoHeader, HeadersFrom

LEMMA HeaderBytes ==
    ASSUME NEW fr \in Frame, NEW o \in {"ok", "none", "part"}
    PROVE  /\ \A i \in DOMAIN Bytes(fr, o) :
                Bytes(fr, o)[i].kind = "HEADER" => fr.kind = "HEADER" /\ Bytes(fr, o)[i].lsn = fr.lsn
           /\ fr.kind # "HEADER" => NoHeader(Bytes(fr, o))
<1>1. Torn.kind # "HEADER"
  BY DEF Torn, Fr
<1>2. CASE o = "ok"
  BY <1>2 DEF Bytes, NoHeader
<1>3. CASE o = "none"
  BY <1>3 DEF Bytes, NoHeader
<1>4. CASE o = "part"
  BY <1>1, <1>4 DEF Bytes, NoHeader
<1> QED
  BY <1>2, <1>3, <1>4

\* append's header carries next_lsn, which is no lower than the base of the file it opens.
LEMMA AfterOpenHeaders ==
    ASSUME HInv, NEW oh \in WriteOutcome, NEW o, o = AfterOpen(oh)
    PROVE  HeadersFrom(o.wrote, o.file.base)
<1>1. next_lsn \in Nat /\ current_base_lsn <= next_lsn
  BY DEF HInv, IInv, TypeOK, CatalogueType
<1>2. CASE active_fd # NoFile
  <2>1. o.wrote = <<>>
    BY <1>2 DEF AfterOpen
  <2> QED
    BY <2>1 DEF HeadersFrom
<1>3. CASE active_fd = NoFile
  <2>1. o.wrote = Bytes(Fr("HEADER", next_lsn, 0), oh) /\ o.file.base = current_base_lsn
    BY <1>3 DEF AfterOpen
  <2>2. Fr("HEADER", next_lsn, 0) \in Frame /\ Fr("HEADER", next_lsn, 0).lsn = next_lsn
    BY <1>1, FrameType DEF Kinds, Fr
  <2> QED
    BY <1>1, <2>1, <2>2, OutcomeType, HeaderBytes DEF HeadersFrom
<1> QED
  BY <1>2, <1>3

\* Fewer frames are fewer headers.
LEMMA FewerHeaders ==
    ASSUME NEW d, NEW e, HeadersAbove(d),
           \A f, i : FrameIn(e, f, i) => FrameIn(d, f, i) /\ e[f].frames[i] = d[f].frames[i]
    PROVE  HeadersAbove(e)
  BY DEF HeadersAbove

\* What append writes: perhaps a header, a row and perhaps a seal.
LEMMA AppendHeaders ==
    ASSUME HInv, NEW oh \in WriteOutcome, NEW o, o = AfterOpen(oh),
           NEW row \in Seq(Frame), NoHeader(row), NEW seal \in Seq(Frame), NoHeader(seal)
    PROVE  /\ o.file \in FileName \cup {Unlinked}
           /\ o.wrote \o row \in Seq(Frame) /\ HeadersFrom(o.wrote \o row, o.file.base)
           /\ o.wrote \o row \o seal \in Seq(Frame)
           /\ HeadersFrom(o.wrote \o row \o seal, o.file.base)
<1> DEFINE one == o.wrote \o row
<1>1. o.file \in FileName \cup {Unlinked} /\ o.wrote \in Seq(Frame)
  BY AfterOpenType DEF HInv, IInv
<1>2. HeadersFrom(o.wrote, o.file.base)
  BY AfterOpenHeaders
<1>3. one \in Seq(Frame) /\ HeadersFrom(one, o.file.base)
  BY <1>1, <1>2, HeaderConcat
<1> HIDE DEF one
<1>4. one \o seal \in Seq(Frame) /\ HeadersFrom(one \o seal, o.file.base)
  BY <1>3, HeaderConcat
<1> QED
  BY <1>1, <1>3, <1>4 DEF one

LEMMA NoHeaderFrames ==
    /\ \A lsn \in Nat : IInv => <<Row(lsn)>> \in Seq(Frame) /\ NoHeader(<<Row(lsn)>>)
    /\ \A lsn \in Nat, kind \in {"SEAL", "CHECKPOINT", "SHUTDOWN"} :
         /\ <<Fr(kind, lsn, 0)>> \in Seq(Frame) /\ NoHeader(<<Fr(kind, lsn, 0)>>)
         /\ \A o \in WriteOutcome : Bytes(Fr(kind, lsn, 0), o) \in Seq(Frame)
                                    /\ NoHeader(Bytes(Fr(kind, lsn, 0), o))
    /\ \A lsn \in Nat, o \in WriteOutcome : IInv =>
         Bytes(Row(lsn), o) \in Seq(Frame) /\ NoHeader(Bytes(Row(lsn), o))
<1>1. ASSUME NEW fr \in Frame, fr.kind # "HEADER"
      PROVE  /\ <<fr>> \in Seq(Frame) /\ NoHeader(<<fr>>)
             /\ \A o \in WriteOutcome : Bytes(fr, o) \in Seq(Frame) /\ NoHeader(Bytes(fr, o))
  <2>1. <<fr>> \in Seq(Frame) /\ NoHeader(<<fr>>)
    BY <1>1 DEF NoHeader
  <2> QED
    BY <1>1, <2>1, OutcomeType, BytesType, HeaderBytes
<1>2. \A lsn \in Nat : IInv => Row(lsn) \in Frame /\ Row(lsn).kind # "HEADER"
  BY RowType DEF Row, Fr, IInv
<1>3. \A lsn \in Nat, kind \in {"SEAL", "CHECKPOINT", "SHUTDOWN"} :
        Fr(kind, lsn, 0) \in Frame /\ Fr(kind, lsn, 0).kind # "HEADER"
  BY FrameType DEF Kinds, Fr
<1> QED
  BY <1>1, <1>2, <1>3

LEMMA AppendStepHeaders == HInv /\ IInv' /\ AppendStep => HInv'
<1> SUFFICES ASSUME HInv, IInv', AppendStep PROVE HInv'
  OBVIOUS
<1>1. /\ IInv /\ DiskType(disk) /\ HeadersAbove(disk)
      /\ next_lsn \in Nat /\ current_base_lsn \in Nat /\ current_base_lsn <= next_lsn
  BY DEF HInv, IInv, TypeOK, CatalogueType
<1>2. ASSUME NEW oh \in WriteOutcome, NEW o, o = AfterOpen(oh),
             NEW row \in Seq(Frame), NoHeader(row), NEW seal \in Seq(Frame), NoHeader(seal),
             NEW fs \in BOOLEAN,
             \/ disk' = StoreFd(o.file, o.wrote \o row, fs)
             \/ disk' = StoreFd(o.file, o.wrote \o row \o seal, fs)
      PROVE  HeadersAbove(disk')
  <2>1. /\ o.file \in FileName \cup {Unlinked}
        /\ o.wrote \o row \in Seq(Frame) /\ HeadersFrom(o.wrote \o row, o.file.base)
        /\ o.wrote \o row \o seal \in Seq(Frame)
        /\ HeadersFrom(o.wrote \o row \o seal, o.file.base)
    BY <1>2, AppendHeaders
  <2> QED
    BY <1>1, <1>2, <2>1, WriteHeaders
<1>3. \A oh \in WriteOutcome : AfterOpen(oh).lsn \in Nat /\ next_lsn <= AfterOpen(oh).lsn
  BY <1>1, AfterOpenType DEF IInv
<1>4. CASE AppendFails
  <2>1. PICK oh \in WriteOutcome, ow \in WriteOutcome \ {"ok"} :
          /\ disk' = StoreFd(AfterOpen(oh).file,
                             AfterOpen(oh).wrote \o Bytes(Row(AfterOpen(oh).lsn), ow), FALSE)
          /\ next_lsn' = AfterOpen(oh).lsn
    BY <1>4 DEF AppendFails
  <2> DEFINE row == Bytes(Row(AfterOpen(oh).lsn), ow)
  <2>2. row \in Seq(Frame) /\ NoHeader(row)
    BY <1>1, <1>3, NoHeaderFrames
  <2>3. disk' = StoreFd(AfterOpen(oh).file, AfterOpen(oh).wrote \o row, FALSE)
    BY <2>1
  <2> HIDE DEF row
  <2>4. HeadersAbove(disk')
    BY <1>2, <2>2, <2>3
  <2>5. current_base_lsn' <= next_lsn'
    BY <1>1, <1>3, <1>4, <2>1 DEF AppendFails
  <2> QED
    BY <2>4, <2>5 DEF HInv
<1>5. CASE AppendRow
  <2>1. PICK oh \in WriteOutcome :
          /\ disk' = StoreFd(AfterOpen(oh).file,
                             AfterOpen(oh).wrote \o <<Row(AfterOpen(oh).lsn)>>, FALSE)
          /\ next_lsn' = AfterOpen(oh).lsn + 1
    BY <1>5 DEF AppendRow
  <2> DEFINE row == <<Row(AfterOpen(oh).lsn)>>
  <2>2. row \in Seq(Frame) /\ NoHeader(row)
    BY <1>1, <1>3, NoHeaderFrames
  <2>3. disk' = StoreFd(AfterOpen(oh).file, AfterOpen(oh).wrote \o row, FALSE)
    BY <2>1
  <2> HIDE DEF row
  <2>4. HeadersAbove(disk')
    BY <1>2, <2>2, <2>3
  <2>5. current_base_lsn' <= next_lsn'
    BY <1>1, <1>3, <1>5, <2>1 DEF AppendRow
  <2> QED
    BY <2>4, <2>5 DEF HInv
<1>6. CASE AppendSeals \/ AppendSealUnsynced
  <2>1. PICK oh \in WriteOutcome, os \in WriteOutcome, fs \in BOOLEAN :
          disk' = StoreFd(AfterOpen(oh).file,
                          AfterOpen(oh).wrote \o <<Row(AfterOpen(oh).lsn)>>
                            \o Bytes(Fr("SEAL", AfterOpen(oh).lsn + 1, 0), os), fs)
          /\ \/ next_lsn' = AfterOpen(oh).lsn + 2 /\ current_base_lsn' = AfterOpen(oh).lsn + 2
             \/ next_lsn' = AfterOpen(oh).lsn + 1 /\ current_base_lsn' = current_base_lsn
    <3>1. CASE AppendSeals
      <4>1. (Strategy = "ALWAYS") \in BOOLEAN
        OBVIOUS
      <4> QED
        BY <3>1, <4>1 DEF AppendSeals
    <3>2. CASE AppendSealUnsynced
      BY <3>2 DEF AppendSealUnsynced
    <3> QED
      BY <1>6, <3>1, <3>2
  <2> DEFINE row == <<Row(AfterOpen(oh).lsn)>>
             seal == Bytes(Fr("SEAL", AfterOpen(oh).lsn + 1, 0), os)
  <2>2. AfterOpen(oh).lsn + 1 \in Nat
    BY <1>3
  <2>3. row \in Seq(Frame) /\ NoHeader(row) /\ seal \in Seq(Frame) /\ NoHeader(seal)
    BY <1>1, <1>3, <2>2, NoHeaderFrames
  <2>4. disk' = StoreFd(AfterOpen(oh).file, AfterOpen(oh).wrote \o row \o seal, fs)
    BY <2>1
  <2> HIDE DEF row, seal
  <2>5. HeadersAbove(disk')
    BY <1>2, <2>3, <2>4
  <2>6. current_base_lsn' <= next_lsn'
    BY <1>1, <1>3, <2>1
  <2> QED
    BY <2>5, <2>6 DEF HInv
<1> QED
  BY <1>4, <1>5, <1>6 DEF AppendStep

\* What sync, checkpoint and the shutdown seal write carries no header.
LEMMA MarkerWrites ==
    ASSUME IInv, Sync \/ Checkpoint \/ ShutdownSeal
    PROVE  \E f \in FileName \cup {Unlinked}, new \in Seq(Frame), fs \in BOOLEAN :
              NoHeader(new) /\ disk' = StoreFd(f, new, fs)
<1>1. next_lsn \in Nat /\ (active_fd # NoFile => active_fd \in FileName \cup {Unlinked})
  BY DEF IInv, TypeOK, CatalogueType
<1>2. CASE Sync
  <2> DEFINE new == <<>>
  <2>1. /\ disk' = StoreFd(active_fd, new, TRUE) /\ new \in Seq(Frame) /\ NoHeader(new)
        /\ active_fd # NoFile
    BY <1>2 DEF Sync, NoHeader
  <2> HIDE DEF new
  <2> QED
    BY <1>1, <2>1
<1>3. CASE Checkpoint
  <2> DEFINE f == [id |-> segment_id, base |-> current_base_lsn]
  <2>1. f \in FileName /\ f # Unlinked
    BY DEF IInv, TypeOK, CatalogueType, FileName, Unlinked
  <2>2. PICK o \in WriteOutcome :
          disk' = Store(f, Bytes(Fr("CHECKPOINT", next_lsn, 0), o), FALSE)
    BY <1>3 DEF Checkpoint
  <2> HIDE DEF f
  <2>3. disk' = StoreFd(f, Bytes(Fr("CHECKPOINT", next_lsn, 0), o), FALSE)
    BY <2>1, <2>2 DEF StoreFd
  <2>4. Bytes(Fr("CHECKPOINT", next_lsn, 0), o) \in Seq(Frame)
        /\ NoHeader(Bytes(Fr("CHECKPOINT", next_lsn, 0), o))
    BY <1>1, NoHeaderFrames
  <2> QED
    BY <2>1, <2>3, <2>4
<1>4. CASE ShutdownSeal
  <2>1. CASE active_fd = NoFile
    <3> DEFINE new == <<>>
    <3>1. disk' = StoreFd(Unlinked, new, FALSE) /\ new \in Seq(Frame) /\ NoHeader(new)
      BY <1>4, <2>1 DEF ShutdownSeal, StoreFd, NoHeader
    <3> HIDE DEF new
    <3> QED
      BY <3>1
  <2>2. CASE active_fd # NoFile
    <3>1. PICK o \in WriteOutcome, fs \in FsyncOutcome :
            disk' = StoreFd(active_fd, Bytes(Fr("SHUTDOWN", next_lsn, 0), o), fs)
      BY <1>4, <2>2 DEF ShutdownSeal
    <3>2. /\ Bytes(Fr("SHUTDOWN", next_lsn, 0), o) \in Seq(Frame)
          /\ NoHeader(Bytes(Fr("SHUTDOWN", next_lsn, 0), o))
          /\ fs \in BOOLEAN
      BY <1>1, NoHeaderFrames, OutcomeType
    <3> QED
      BY <1>1, <2>2, <3>1, <3>2
  <2> QED
    BY <2>1, <2>2
<1> QED
  BY <1>2, <1>3, <1>4

LEMMA InterruptedHeaders ==
    ASSUME HInv, NEW f \in FileName \cup {Unlinked}, NEW w \in Seq(Frame),
           HeadersFrom(w, f.base), Interrupted(f, w)
    PROVE  HeadersAbove(disk')
<1>1. PICK t \in 0 .. Len(w), torn \in BOOLEAN :
        disk' = StoreFd(f, SubSeq(w, 1, t) \o (IF torn THEN <<Torn>> ELSE <<>>), FALSE)
  BY DEF Interrupted
<1> DEFINE p == SubSeq(w, 1, t) \o (IF torn THEN <<Torn>> ELSE <<>>)
<1>2. p \in Seq(Frame) /\ \A i \in DOMAIN p : (i \in DOMAIN w /\ p[i] = w[i]) \/ p[i].kind = "TORN"
  BY PrefixFrames
<1>3. disk' = StoreFd(f, p, FALSE) /\ FALSE \in BOOLEAN
  BY <1>1
<1> HIDE DEF p
<1>4. HeadersFrom(p, f.base)
  BY <1>2 DEF HeadersFrom
<1> QED
  BY <1>2, <1>3, <1>4, WriteHeaders DEF HInv, IInv, TypeOK

\* Recovery finds the base of every file with a header below the LSN it gives next.
LEMMA HeadedBelow ==
    ASSUME HInv, Recover
    PROVE  /\ Headed \subseteq FileName /\ IsFiniteSet(Headed) /\ Open \subseteq Headed
           /\ next_lsn' \in Nat
           /\ \A f \in Headed : f.base < next_lsn'
<1>1. DiskType(disk) /\ HeadersAbove(disk)
  BY DEF HInv, IInv, TypeOK
<1>2. Headed \subseteq FileName /\ IsFiniteSet(Headed) /\ Open \subseteq Headed
  <2>1. Headed \in SUBSET DOMAIN disk
    BY DEF Headed
  <2> QED
    BY <1>1, <2>1, FS_Subset DEF DiskType, Open
<1>3. /\ next_lsn' \in {0} \cup {l + 1 : l \in Lsns}
      /\ \A l \in Lsns : l < next_lsn'
  BY DEF Recover
<1>4. ASSUME NEW f \in DOMAIN disk
      PROVE  /\ Kept(f) \in Seq(Frame)
             /\ \A i \in DOMAIN Kept(f) : FrameIn(disk, f, i) /\ Kept(f)[i] = disk[f].frames[i]
  <2> DEFINE s == disk[f].frames
  <2>1. s \in Seq(Frame) /\ Kept(f) = Decodable(s)
    BY <1>1 DEF DiskType, File, Kept
  <2> HIDE DEF s
  <2>2. /\ Kept(f) \in Seq(Frame) /\ Len(Kept(f)) <= Len(s)
        /\ \A i \in 1 .. Len(Kept(f)) : Kept(f)[i] = s[i] /\ s[i].kind # "TORN"
    BY <2>1, DecodablePrefix
  <2>3. \A i \in DOMAIN Kept(f) : Live(s, i)
    BY <2>1, <2>2 DEF Live
  <2> QED
    BY <2>2, <2>3 DEF FrameIn, s
<1>5. Lsns \subseteq Nat
  BY <1>1, <1>4, RowFrame DEF Lsns, LsnsIn
<1>6. next_lsn' \in Nat
  BY <1>3, <1>5
<1>7. ASSUME NEW f \in Headed PROVE f.base < next_lsn'
  <2>1. PICK i \in DOMAIN Kept(f) : Kept(f)[i].kind = "HEADER"
    BY DEF Headed, Has
  <2>2. f \in DOMAIN disk /\ f.base \in Nat
    BY <1>2 DEF Headed, FileName
  <2>3. Kept(f)[i].lsn \in Lsns
    BY <2>2 DEF Lsns, LsnsIn
  <2>4. f.base <= Kept(f)[i].lsn
    BY <1>1, <1>4, <2>1, <2>2 DEF HeadersAbove
  <2>5. Kept(f)[i].lsn \in Nat /\ Kept(f)[i].lsn < next_lsn'
    BY <1>3, <1>5, <2>3
  <2> HIDE DEF Kept
  <2> QED
    BY <1>6, <2>2, <2>4, <2>5
<1> QED
  BY <1>2, <1>6, <1>7

LEMMA RecoverHeaders == HInv /\ IInv' /\ Recover => HInv'
<1> SUFFICES ASSUME HInv, IInv', Recover PROVE HInv'
  OBVIOUS
<1>1. PICK cut \in SUBSET Damaged, fs \in FsyncOutcome : Truncate(cut, fs)
  BY DEF Recover
<1>2. \A f, i : FrameIn(disk', f, i) => FrameIn(disk, f, i) /\ disk'[f].frames[i] = disk[f].frames[i]
  BY <1>1, OutcomeType, TruncateStep DEF HInv, Damaged
<1>3. HeadersAbove(disk')
  BY <1>2, FewerHeaders DEF HInv
<1>4. current_base_lsn' <= next_lsn'
  <2>1. /\ next_lsn' \in Nat /\ \A f \in Open : f.base < next_lsn' /\ f.base \in Nat
    BY HeadedBelow DEF FileName
  <2>2. \/ current_base_lsn' = 0
        \/ current_base_lsn' = next_lsn'
        \/ \E f \in Open : current_base_lsn' = f.base
    BY DEF Recover
  <2> QED
    BY <2>1, <2>2
<1> QED
  BY <1>3, <1>4 DEF HInv

LEMMA StopHeaders == HInv /\ IInv' /\ Stop => HInv'
<1> SUFFICES ASSUME HInv, IInv', Stop PROVE HInv'
  OBVIOUS
<1>1. next_lsn \in Nat /\ IInv
  BY DEF HInv, IInv, TypeOK, CatalogueType
<1>2. Down => current_base_lsn' <= next_lsn'
  BY DEF Down
<1>3. ASSUME NEW f \in FileName \cup {Unlinked}, NEW kind \in {"CHECKPOINT", "SHUTDOWN"},
             Interrupted(f, <<Fr(kind, next_lsn, 0)>>)
      PROVE  HeadersAbove(disk')
  <2> DEFINE w == <<Fr(kind, next_lsn, 0)>>
  <2>1. w \in Seq(Frame) /\ NoHeader(w)
    BY <1>1, NoHeaderFrames
  <2>2. Interrupted(f, w)
    BY <1>3
  <2> HIDE DEF w
  <2>3. HeadersFrom(w, f.base)
    BY <2>1 DEF NoHeader, HeadersFrom
  <2> QED
    BY <2>1, <2>2, <2>3, InterruptedHeaders
<1>4. CASE ProcessEnds
  BY <1>2, <1>4 DEF ProcessEnds, HInv
<1>5. CASE CrashInAppend
  <2> DEFINE o == AfterOpen("ok")
             row == <<Row(o.lsn)>>
             seal == IF o.space + 1 >= MaxSegSize THEN <<Fr("SEAL", o.lsn + 1, 0)>> ELSE <<>>
  <2>1. "ok" \in WriteOutcome
    BY DEF WriteOutcome
  <2>2. o.lsn \in Nat /\ o.lsn + 1 \in Nat /\ o = AfterOpen("ok")
    BY <1>1, <2>1, AfterOpenType DEF IInv
  <2>3. Down /\ Interrupted(o.file, o.wrote \o row \o seal)
    BY <1>5 DEF CrashInAppend
  <2>4. row \in Seq(Frame) /\ NoHeader(row)
    BY <1>1, <2>2, NoHeaderFrames
  <2>5. seal \in Seq(Frame) /\ NoHeader(seal)
    <3>1. <<Fr("SEAL", o.lsn + 1, 0)>> \in Seq(Frame) /\ NoHeader(<<Fr("SEAL", o.lsn + 1, 0)>>)
      BY <2>2, NoHeaderFrames
    <3>2. << >> \in Seq(Frame) /\ NoHeader(<< >>)
      BY DEF NoHeader
    <3> QED
      BY <3>1, <3>2
  <2> HIDE DEF o, row, seal
  <2>6. /\ o.file \in FileName \cup {Unlinked}
        /\ o.wrote \o row \o seal \in Seq(Frame)
        /\ HeadersFrom(o.wrote \o row \o seal, o.file.base)
    BY <2>1, <2>2, <2>4, <2>5, AppendHeaders
  <2>7. HeadersAbove(disk')
    BY <2>3, <2>6, InterruptedHeaders
  <2> QED
    BY <1>2, <2>3, <2>7 DEF HInv
<1>6. CASE CrashInCheckpoint
  <2>1. [id |-> segment_id, base |-> current_base_lsn] \in FileName
    BY <1>1 DEF IInv, TypeOK, CatalogueType, FileName
  <2> QED
    BY <1>2, <1>3, <1>6, <2>1 DEF CrashInCheckpoint, HInv
<1>7. CASE CrashInShutdown
  <2>1. active_fd \in FileName \cup {Unlinked}
    BY <1>1, <1>7 DEF IInv, TypeOK, CatalogueType, CrashInShutdown
  <2> QED
    BY <1>2, <1>3, <1>7, <2>1 DEF CrashInShutdown, HInv
<1>8. CASE CrashInRecovery
  <2>1. PICK cut \in SUBSET Damaged : Truncate(cut, TRUE)
    BY <1>8 DEF CrashInRecovery
  <2>2. \A f, i : FrameIn(disk', f, i) => FrameIn(disk, f, i) /\ disk'[f].frames[i] = disk[f].frames[i]
    BY <1>1, <2>1, TruncateStep DEF Damaged
  <2>3. HeadersAbove(disk')
    BY <2>2, FewerHeaders DEF HInv
  <2>4. UNCHANGED <<next_lsn, current_base_lsn>>
    BY <1>8 DEF CrashInRecovery, catalogue
  <2> QED
    BY <2>3, <2>4 DEF HInv
<1>9. CASE PowerLoss
  <2>1. HeadersAbove(disk')
    BY <1>1, <1>9, PowerLossFrames, FewerHeaders DEF HInv
  <2> QED
    BY <1>2, <1>9, <2>1 DEF PowerLoss, HInv
<1> QED
  BY <1>4, <1>5, <1>6, <1>7, <1>8, <1>9 DEF Stop

LEMMA InitHInv == Init => HInv
<1> SUFFICES ASSUME Init PROVE HInv
  OBVIOUS
<1>1. HeadersAbove(disk) /\ current_base_lsn <= next_lsn
  BY DEF Init, HeadersAbove, FrameIn
<1> QED
  BY <1>1, InitIInv DEF HInv

LEMMA NextHInv == HInv /\ IInv' /\ [Next]_vars => HInv'
<1> SUFFICES ASSUME HInv, IInv', [Next]_vars PROVE HInv'
  OBVIOUS
<1>1. CASE Sync \/ Checkpoint \/ ShutdownSeal
  <2>1. PICK f \in FileName \cup {Unlinked}, new \in Seq(Frame), fs \in BOOLEAN :
          NoHeader(new) /\ disk' = StoreFd(f, new, fs)
    BY <1>1, MarkerWrites DEF HInv
  <2>2. HeadersFrom(new, f.base)
    BY <2>1 DEF NoHeader, HeadersFrom
  <2>3. HeadersAbove(disk')
    BY <2>1, <2>2, WriteHeaders DEF HInv, IInv, TypeOK
  <2>4. UNCHANGED <<next_lsn, current_base_lsn>>
    BY <1>1 DEF Sync, Checkpoint, ShutdownSeal, catalogue
  <2> QED
    BY <2>3, <2>4 DEF HInv
<1>2. CASE Prune
  <2>1. PICK m \in Pins :
          disk' = [f \in DOMAIN disk \ {e.file : e \in Gone(m)} |-> disk[f]]
    BY <1>2 DEF Prune
  <2>2. HeadersAbove(disk')
    BY <2>1 DEF HInv, HeadersAbove, FrameIn
  <2>3. UNCHANGED <<next_lsn, current_base_lsn>>
    BY <1>2 DEF Prune
  <2> QED
    BY <2>2, <2>3 DEF HInv
<1>3. CASE ShutdownFlag \/ (\E r \in Readers : ReaderStep(r)) \/ UNCHANGED vars
  <2>1. UNCHANGED <<disk, next_lsn, current_base_lsn>>
    <3>1. CASE ShutdownFlag
      BY <3>1 DEF ShutdownFlag, catalogue
    <3>2. CASE \E r \in Readers : ReaderStep(r)
      <4>1. \E r \in Readers : \E pc : IteratorStep(r, pc)
        BY <3>2 DEF ReaderStep, Attach, NextCall, NextRead, NextAdvance, TailWait, Detach
      <4> QED
        BY <4>1 DEF IteratorStep, catalogue
    <3>3. CASE UNCHANGED vars
      BY <3>3 DEF vars, catalogue
    <3> QED
      BY <1>3, <3>1, <3>2, <3>3
  <2> QED
    BY <2>1 DEF HInv
<1> QED
  BY <1>1, <1>2, <1>3, AppendStepHeaders, RecoverHeaders, StopHeaders DEF Next

LEMMA HeadersInvariance == Spec => []HInv
<1>1. HInv /\ IInv' /\ [Next]_vars => HInv'
  BY NextHInv
<1> QED
  BY <1>1, InitHInv, Invariance, PTL DEF Spec

-----------------------------------------------------------------------------
(* The actions keep what is unread.                                        *)

\* A step of UnreadStaysReadable.
Unread ==
    \A r \in Readers : reader[r].pc # "out" /\ reader'[r].pc # "out" =>
       \A l \in reader[r].current_lsn .. next_lsn - 1 : ReadAt(l) \subseteq ReadAt(l)'

\* The iterators have their pins, and stay below them.
LEMMA PinsStay ==
    ASSUME UInv, up', UNCHANGED <<reader, registered_readers>>
    PROVE  \A r \in Readers : reader'[r].pc # "out" =>
             /\ up'
             /\ r \in DOMAIN registered_readers'
             /\ registered_readers'[r] = reader'[r].current_lsn
  BY DEF UInv

\* A write leaves what is read for an LSN given before as it is, if the vector does.
LEMMA WriteKeeps ==
    ASSUME IInv, IInv',
           NEW f \in FileName \cup {Unlinked}, NEW new \in Seq(Frame), NEW fs \in BOOLEAN,
           disk' = StoreFd(f, new, fs),
           \A lsn \in Nat : lsn < next_lsn =>
              \A h \in FirstOf(segment_list, lsn) :
                 \E k \in FirstOf(segment_list', lsn) : k.file = h.file
    PROVE  Unread
<1>1. DiskType(disk) /\ DiskType(disk') /\ ReadersType /\ next_lsn \in Nat
  BY DEF IInv, TypeOK, CatalogueType
<1>2. \A g, i : FrameIn(disk, g, i) =>
         FrameIn(disk', g, i) /\ disk'[g].frames[i] = disk[g].frames[i]
  BY <1>1, StoreFrames, SMTT(40)
<1> SUFFICES ASSUME NEW r \in Readers, NEW l \in reader[r].current_lsn .. next_lsn - 1
             PROVE  ReadAt(l) \subseteq ReadAt(l)'
  BY DEF Unread
<1>3. l \in Nat /\ l < next_lsn
  BY <1>1 DEF ReadersType
<1>4. ReadFrom(disk, segment_list, l) \subseteq ReadFrom(disk', segment_list', l)
  BY <1>1, <1>2, <1>3, ReadKept
<1> QED
  BY <1>4, ReadAtIsReadFrom

\* A new segment goes to the back, and is of a new file unless an fsync has failed.
LEMMA AfterOpenListed ==
    ASSUME UInv, ~is_shutdown, NEW oh \in WriteOutcome, NEW o, o = AfterOpen(oh)
    PROVE  /\ Listed(o.segs)
           /\ \A e \in o.segs : e.base_lsn < o.lsn
           /\ "fsync" \notin Faults =>
                FilesOnce(o.segs) /\ \A e \in o.segs : e.file.id <= segment_id
           /\ \A lsn \in Nat : lsn < next_lsn =>
                FirstOf(segment_list, lsn) \subseteq FirstOf(o.segs, lsn)
<1>1. ListType(segment_list) /\ segment_id \in Nat /\ next_lsn \in Nat
  BY DEF UInv, IInv, TypeOK, CatalogueType
<1>2. CASE active_fd # NoFile
  <2>1. o.segs = segment_list /\ o.lsn = next_lsn
    BY <1>2 DEF AfterOpen
  <2> QED
    BY <2>1 DEF UInv
<1>3. CASE active_fd = NoFile
  <2> DEFINE f == [id |-> segment_id, base |-> current_base_lsn]
  <2>1. o.segs = PushBack(segment_list, f, next_lsn) /\ o.lsn = next_lsn + 1
    BY <1>3 DEF AfterOpen
  <2>2. "fsync" \notin Faults => \A e \in segment_list : e.file # f
    <3>1. "fsync" \notin Faults =>
            \A e \in segment_list : e.file.id \in Nat /\ e.file.id < segment_id
      BY <1>1, <1>3 DEF UInv, ListType, SegmentInfo, FileName
    <3> QED
      BY <1>1, <3>1
  <2>3. \A e \in o.segs : e \in segment_list \/ (e.file.id = segment_id /\ e.base_lsn = next_lsn)
    BY <2>1 DEF PushBack
  <2> HIDE DEF f
  <2>4. /\ Listed(o.segs)
        /\ FilesOnce(segment_list) /\ (\A e \in segment_list : e.file # f) => FilesOnce(o.segs)
        /\ \A lsn \in Nat : lsn < next_lsn =>
             FirstOf(segment_list, lsn) \subseteq FirstOf(o.segs, lsn)
    BY <1>1, <2>1, PushBackListed DEF UInv
  <2>5. \A e \in o.segs : e.base_lsn < o.lsn
    <3>1. \A e \in segment_list : e.base_lsn \in Nat /\ e.base_lsn < next_lsn
      BY <1>1 DEF UInv, ListType, SegmentInfo
    <3> QED
      BY <1>1, <2>1, <2>3, <3>1
  <2>6. "fsync" \notin Faults => \A e \in o.segs : e.file.id <= segment_id
    BY <1>1, <2>3 DEF UInv
  <2> QED
    BY <2>2, <2>4, <2>5, <2>6 DEF UInv
<1> QED
  BY <1>2, <1>3

\* An append, whatever it writes, with the vector and the file it leaves.
LEMMA AppendKeeps ==
    ASSUME UInv, IInv', AppendCall, NEW oh \in WriteOutcome, NEW o, o = AfterOpen(oh),
           NEW new \in Seq(Frame), NEW fs \in BOOLEAN, disk' = StoreFd(o.file, new, fs),
           NEW n \in Nat, next_lsn <= n, segment_list' \in {o.segs, BackLast(o.segs, n)},
           o.lsn <= next_lsn',
           \/ active_fd' = o.file /\ segment_id' = segment_id
           \/ active_fd' = NoFile /\ segment_id' = segment_id + 1
           \/ "fsync" \in Faults
    PROVE  UInv' /\ Unread
<1>1. IInv /\ up /\ up' /\ ~is_shutdown /\ UNCHANGED <<reader, registered_readers>>
  BY DEF AppendCall, UInv
<1>2. /\ o.file \in FileName \cup {Unlinked} /\ ListType(o.segs) /\ segment_id \in Nat
      /\ next_lsn \in Nat /\ o.lsn \in Nat /\ next_lsn' \in Nat
  BY <1>1, AfterOpenType DEF IInv, TypeOK, CatalogueType
<1>3. /\ Listed(o.segs)
      /\ \A e \in o.segs : e.base_lsn \in Nat /\ e.base_lsn < o.lsn
      /\ "fsync" \notin Faults =>
           FilesOnce(o.segs) /\ \A e \in o.segs : e.file.id \in Nat /\ e.file.id <= segment_id
      /\ \A lsn \in Nat : lsn < next_lsn =>
           FirstOf(segment_list, lsn) \subseteq FirstOf(o.segs, lsn)
  BY <1>1, <1>2, AfterOpenListed DEF ListType, SegmentInfo, FileName
<1>4. /\ Listed(segment_list')
      /\ FilesOnce(o.segs) => FilesOnce(segment_list')
      /\ \A e \in segment_list' : \E d \in o.segs : d.file = e.file /\ d.base_lsn = e.base_lsn
      /\ \A lsn \in Nat : lsn < next_lsn =>
           \A h \in FirstOf(segment_list, lsn) :
              \E k \in FirstOf(segment_list', lsn) : k.file = h.file
  <2>1. CASE segment_list' = o.segs
    BY <1>3, <2>1
  <2>2. CASE segment_list' = BackLast(o.segs, n)
    <3>1. /\ Listed(segment_list')
          /\ FilesOnce(o.segs) => FilesOnce(segment_list')
          /\ \A e \in segment_list' : \E d \in o.segs : d.file = e.file /\ d.base_lsn = e.base_lsn
          /\ \A lsn \in Nat : lsn <= n =>
               \A h \in FirstOf(o.segs, lsn) : \E k \in FirstOf(segment_list', lsn) : k.file = h.file
      BY <1>2, <1>3, <2>2, BackLastListed
    <3>2. \A lsn \in Nat : lsn < next_lsn => lsn <= n
      BY <1>2
    <3> QED
      BY <1>3, <3>1, <3>2
  <2> QED
    BY <2>1, <2>2
<1>5. Unread
  BY <1>1, <1>2, <1>4, WriteKeeps
<1>6. \A e \in segment_list' : e.base_lsn < next_lsn'
  BY <1>2, <1>3, <1>4
<1>7. "fsync" \notin Faults =>
        /\ FilesOnce(segment_list')
        /\ \A e \in segment_list' : e.file.id <= segment_id'
        /\ active_fd' = NoFile => \A e \in segment_list' : e.file.id < segment_id'
  <2> SUFFICES ASSUME "fsync" \notin Faults
               PROVE  /\ FilesOnce(segment_list')
                      /\ \A e \in segment_list' : e.file.id <= segment_id'
                      /\ active_fd' = NoFile => \A e \in segment_list' : e.file.id < segment_id'
    OBVIOUS
  <2>1. \A e \in segment_list' : e.file.id \in Nat /\ e.file.id <= segment_id
    BY <1>3, <1>4
  <2>2. o.file # NoFile
    BY <1>2 DEF FileName, NoFile, Unlinked
  <2> QED
    BY <1>2, <1>3, <1>4, <2>1, <2>2
<1>8. \A r \in Readers : reader'[r].pc # "out" =>
        /\ up'
        /\ r \in DOMAIN registered_readers'
        /\ registered_readers'[r] = reader'[r].current_lsn
  BY <1>1, PinsStay
<1> QED
  BY <1>4, <1>5, <1>6, <1>7, <1>8 DEF UInv

LEMMA AppendStepKeeps == UInv /\ IInv' /\ AppendStep => UInv' /\ Unread
<1> SUFFICES ASSUME UInv, IInv', AppendStep PROVE UInv' /\ Unread
  OBVIOUS
<1>1. IInv /\ next_lsn \in Nat
  BY DEF UInv, IInv, TypeOK, CatalogueType
<1>2. CASE AppendFails
  <2>1. PICK oh \in WriteOutcome, ow \in WriteOutcome \ {"ok"} :
          LET o == AfterOpen(oh)
          IN  /\ disk' = StoreFd(o.file, o.wrote \o Bytes(Row(o.lsn), ow), FALSE)
              /\ active_fd' = o.file
              /\ next_lsn' = o.lsn
              /\ segment_list' = o.segs
    BY <1>2 DEF AppendFails
  <2> DEFINE o == AfterOpen(oh)
             new == o.wrote \o Bytes(Row(o.lsn), ow)
  <2>2. o.wrote \in Seq(Frame) /\ o.lsn \in Nat
    BY <1>1, AfterOpenType DEF IInv
  <2>3. new \in Seq(Frame)
    <3>1. Bytes(Row(o.lsn), ow) \in Seq(Frame)
      BY <1>1, <2>2, RowType, BytesType, OutcomeType DEF IInv
    <3> QED
      BY <2>2, <3>1
  <2>4. /\ disk' = StoreFd(o.file, new, FALSE) /\ active_fd' = o.file /\ segment_list' = o.segs
        /\ o = AfterOpen(oh) /\ next_lsn' = o.lsn
    BY <2>1
  <2> HIDE DEF new, o
  <2>5. AppendCall /\ segment_id' = segment_id /\ FALSE \in BOOLEAN
    BY <1>2 DEF AppendFails
  <2>6. /\ next_lsn <= next_lsn /\ segment_list' \in {o.segs, BackLast(o.segs, next_lsn)}
        /\ o.lsn <= next_lsn'
    BY <1>1, <2>2, <2>4
  <2> QED
    BY <1>1, <2>3, <2>4, <2>5, <2>6, AppendKeeps
<1>3. CASE AppendRow
  <2>1. PICK oh \in WriteOutcome :
          LET o == AfterOpen(oh)
          IN  /\ disk' = StoreFd(o.file, o.wrote \o <<Row(o.lsn)>>, FALSE)
              /\ active_fd' = o.file
              /\ next_lsn' = o.lsn + 1
              /\ segment_list' = BackLast(o.segs, o.lsn)
    BY <1>3 DEF AppendRow
  <2> DEFINE o == AfterOpen(oh)
             new == o.wrote \o <<Row(o.lsn)>>
  <2>2. o.wrote \in Seq(Frame) /\ o.lsn \in Nat /\ next_lsn <= o.lsn
    BY <1>1, AfterOpenType DEF IInv
  <2>3. new \in Seq(Frame)
    BY <1>1, <2>2, RowType DEF IInv
  <2>4. /\ disk' = StoreFd(o.file, new, FALSE) /\ active_fd' = o.file
        /\ segment_list' \in {o.segs, BackLast(o.segs, o.lsn)} /\ o = AfterOpen(oh)
        /\ o.lsn <= next_lsn'
    BY <2>1, <2>2
  <2> HIDE DEF new, o
  <2>5. AppendCall /\ segment_id' = segment_id /\ FALSE \in BOOLEAN
    BY <1>3 DEF AppendRow
  <2> QED
    BY <2>2, <2>3, <2>4, <2>5, AppendKeeps
<1>4. CASE AppendSeals \/ AppendSealUnsynced
  <2>1. PICK oh \in WriteOutcome, os \in WriteOutcome, fs \in BOOLEAN :
          LET o    == AfterOpen(oh)
              seal == Bytes(Fr("SEAL", o.lsn + 1, 0), os)
          IN  /\ disk' = StoreFd(o.file, o.wrote \o <<Row(o.lsn)>> \o seal, fs)
              /\ segment_list' = BackLast(o.segs, o.lsn + 1)
              /\ next_lsn' \in {o.lsn + 1, o.lsn + 2}
    <3>1. CASE AppendSeals
      <4>1. (Strategy = "ALWAYS") \in BOOLEAN
        OBVIOUS
      <4> QED
        BY <3>1, <4>1 DEF AppendSeals
    <3>2. CASE AppendSealUnsynced
      BY <3>2 DEF AppendSealUnsynced
    <3> QED
      BY <1>4, <3>1, <3>2
  <2> DEFINE o == AfterOpen(oh)
             seal == Bytes(Fr("SEAL", o.lsn + 1, 0), os)
             new == o.wrote \o <<Row(o.lsn)>> \o seal
  <2>2. o.wrote \in Seq(Frame) /\ o.lsn \in Nat /\ next_lsn <= o.lsn
    BY <1>1, AfterOpenType DEF IInv
  <2>3. o.lsn + 1 \in Nat /\ next_lsn <= o.lsn + 1
    BY <1>1, <2>2
  <2>4. seal \in Seq(Frame) /\ Row(o.lsn) \in Frame
    BY <1>1, <2>2, <2>3, MarkerType, RowType DEF IInv
  <2>5. /\ disk' = StoreFd(o.file, new, fs)
        /\ segment_list' \in {o.segs, BackLast(o.segs, o.lsn + 1)} /\ o = AfterOpen(oh)
        /\ o.lsn <= next_lsn'
    BY <2>1, <2>2
  <2> HIDE DEF seal, o
  <2>6. new \in Seq(Frame)
    BY <2>2, <2>4
  <2> HIDE DEF new
  <2>7. /\ AppendCall
        /\ \/ segment_id' = segment_id + 1 /\ active_fd' = NoFile
           \/ "fsync" \in Faults
    BY <1>4 DEF AppendSeals, AppendSealUnsynced, FsyncOutcome
  <2> QED
    BY <2>3, <2>5, <2>6, <2>7, AppendKeeps
<1> QED
  BY <1>2, <1>3, <1>4 DEF AppendStep

\* sync, checkpoint and the shutdown seal leave the vector alone.
LEMMA MarkersKeep ==
    UInv /\ IInv' /\ (Sync \/ Checkpoint \/ ShutdownSeal) => UInv' /\ Unread
<1> SUFFICES ASSUME UInv, IInv', Sync \/ Checkpoint \/ ShutdownSeal PROVE UInv' /\ Unread
  OBVIOUS
<1>1. /\ IInv /\ up /\ up' /\ next_lsn \in Nat
      /\ UNCHANGED <<segment_list, segment_id, is_shutdown, reader, registered_readers, next_lsn>>
      /\ active_fd' = active_fd \/ (active_fd' = NoFile /\ is_shutdown)
  <2>1. IInv /\ next_lsn \in Nat
    BY DEF UInv, IInv, TypeOK, CatalogueType
  <2>2. CASE Sync
    BY <2>1, <2>2 DEF Sync, catalogue
  <2>3. CASE Checkpoint
    BY <2>1, <2>3 DEF Checkpoint, catalogue
  <2>4. CASE ShutdownSeal
    BY <2>1, <2>4 DEF ShutdownSeal
  <2> QED
    BY <2>2, <2>3, <2>4
<1>2. \E f \in FileName \cup {Unlinked}, new \in Seq(Frame), fs \in BOOLEAN :
         disk' = StoreFd(f, new, fs)
  BY <1>1, MarkerWrites
<1>3. Unread
  BY <1>1, <1>2, WriteKeeps
<1>4. \A r \in Readers : reader'[r].pc # "out" =>
        /\ up'
        /\ r \in DOMAIN registered_readers'
        /\ registered_readers'[r] = reader'[r].current_lsn
  BY <1>1, PinsStay
<1> QED
  BY <1>1, <1>3, <1>4 DEF UInv

\* The worker removes only what lies below every pin.
LEMMA PruneKeeps == "fsync" \notin Faults /\ UInv /\ IInv' /\ Prune => UInv' /\ Unread
<1> SUFFICES ASSUME "fsync" \notin Faults, UInv, IInv', Prune PROVE UInv' /\ Unread
  OBVIOUS
<1>1. PICK m \in Pins :
        /\ \A p \in Pins : m <= p
        /\ disk' = [f \in DOMAIN disk \ {e.file : e \in Gone(m)} |-> disk[f]]
        /\ segment_list' = Erase(segment_list, Gone(m))
        /\ active_fd' = IF active_fd \in {e.file : e \in Gone(m)} THEN Unlinked ELSE active_fd
  BY DEF Prune
<1> DEFINE gone == Gone(m)
<1>2. /\ up /\ up' /\ UNCHANGED <<segment_id, is_shutdown, reader, registered_readers, next_lsn>>
  BY DEF Prune
<1>3. /\ DiskType(disk) /\ DiskType(disk') /\ ListType(segment_list) /\ ReadersType
      /\ segment_id \in Nat /\ next_lsn \in Nat
  BY DEF UInv, IInv, TypeOK, CatalogueType
<1>4. gone \subseteq segment_list /\ \A e \in gone : e.last_lsn < m
  BY DEF Gone, Removable
<1>5. m \in Nat
  BY <1>3 DEF Pins, ReadersType
<1>6. segment_list' = Erase(segment_list, gone)
      /\ disk' = [f \in DOMAIN disk \ {e.file : e \in gone} |-> disk[f]]
  BY <1>1
<1> HIDE DEF gone
<1>7. /\ Listed(segment_list') /\ FilesOnce(segment_list')
      /\ \A e \in segment_list' :
           \E d \in segment_list \ gone : d.file = e.file /\ d.base_lsn = e.base_lsn
      /\ \A lsn : \A h \in FirstOf(segment_list, lsn) \ gone :
           \E k \in FirstOf(segment_list', lsn) : k.file = h.file
  BY <1>3, <1>6, EraseListed DEF UInv
<1>8. Unread
  <2> SUFFICES ASSUME NEW r \in Readers, reader[r].pc # "out",
                      NEW l \in reader[r].current_lsn .. next_lsn - 1
               PROVE  ReadAt(l) \subseteq ReadAt(l)'
    BY DEF Unread
  <2>1. registered_readers[r] \in Pins /\ registered_readers[r] = reader[r].current_lsn
    BY DEF UInv, Pins
  <2>2. l \in Nat /\ m <= l
    BY <1>1, <1>3, <1>5, <2>1 DEF ReadersType
  <2>3. ASSUME NEW h \in FirstOf(segment_list, l)
        PROVE  \E k \in FirstOf(segment_list', l) :
                  /\ k.file = h.file
                  /\ \A i : FrameIn(disk, h.file, i) =>
                       FrameIn(disk', h.file, i) /\ disk'[h.file].frames[i] = disk[h.file].frames[i]
    <3>1. h \in segment_list /\ l <= h.last_lsn /\ h.last_lsn \in Nat
      BY <1>3 DEF FirstOf, Covers, ListType, SegmentInfo
    <3>2. h \notin gone
      BY <1>4, <1>5, <2>2, <3>1
    <3>3. \A e \in gone : e.file # h.file
      BY <1>4, <3>1, <3>2 DEF UInv, FilesOnce
    <3>4. \A i : FrameIn(disk, h.file, i) =>
            FrameIn(disk', h.file, i) /\ disk'[h.file].frames[i] = disk[h.file].frames[i]
      BY <1>6, <3>3 DEF FrameIn
    <3> QED
      BY <1>7, <3>2, <3>4
  <2>4. ReadFrom(disk, segment_list, l) \subseteq ReadFrom(disk', segment_list', l)
    BY <1>3, <2>3, ReadKept
  <2> QED
    BY <2>4, ReadAtIsReadFrom
<1>9. /\ \A e \in segment_list' : e.base_lsn < next_lsn' /\ e.file.id <= segment_id'
      /\ active_fd' = NoFile /\ ~is_shutdown' => \A e \in segment_list' : e.file.id < segment_id'
  <2>1. active_fd' = NoFile => active_fd = NoFile
    BY <1>1 DEF Unlinked, NoFile
  <2> QED
    BY <1>2, <1>7, <2>1 DEF UInv
<1>10. \A r \in Readers : reader'[r].pc # "out" =>
        /\ up'
        /\ r \in DOMAIN registered_readers'
        /\ registered_readers'[r] = reader'[r].current_lsn
  BY <1>2, PinsStay
<1> QED
  BY <1>7, <1>8, <1>9, <1>10 DEF UInv

\* Where directory and vector are untouched everything reads as before.
LEMMA SameReads ==
    ASSUME UNCHANGED <<disk, segment_list>>
    PROVE  Unread
<1>1. \A l : ReadAt(l)' = ReadAt(l)
  BY ReadAtIsReadFrom
<1> QED
  BY <1>1 DEF Unread

LEMMA ShutdownFlagKeeps == UInv /\ IInv' /\ ShutdownFlag => UInv' /\ Unread
<1> SUFFICES ASSUME UInv, IInv', ShutdownFlag PROVE UInv' /\ Unread
  OBVIOUS
<1>1. /\ up' /\ is_shutdown'
      /\ UNCHANGED <<disk, segment_list, segment_id, next_lsn, reader, registered_readers>>
  BY DEF ShutdownFlag, catalogue
<1> QED
  BY <1>1, PinsStay, SameReads DEF UInv

\* An iterator's pin moves with it.
LEMMA ReaderStepKeeps ==
    ASSUME NEW r \in Readers
    PROVE  UInv /\ IInv' /\ ReaderStep(r) => UInv' /\ Unread
<1> SUFFICES ASSUME UInv, IInv', ReaderStep(r) PROVE UInv' /\ Unread
  OBVIOUS
<1>1. up /\ up' /\ UNCHANGED <<disk, segment_list, segment_id, next_lsn, active_fd, is_shutdown>>
  <2>1. \E pc : IteratorStep(r, pc)
    BY DEF ReaderStep, Attach, NextCall, NextRead, NextAdvance, TailWait, Detach
  <2> QED
    BY <2>1 DEF IteratorStep, catalogue
<1>2. ReadersType /\ DOMAIN reader = Readers
  BY DEF UInv, IInv, TypeOK, ReadersType
<1>3. /\ \A q \in Readers \ {r} : reader'[q] = reader[q]
      /\ \A q \in Readers \ {r} : q \in DOMAIN registered_readers =>
           q \in DOMAIN registered_readers' /\ registered_readers'[q] = registered_readers[q]
  <2>1. CASE Attach(r) \/ NextAdvance(r) \/ Detach(r)
    BY <1>2, <2>1 DEF Attach, NextAdvance, Detach, Pinned, Unpinned
  <2>2. CASE NextCall(r) \/ NextRead(r) \/ TailWait(r)
    BY <1>2, <2>2 DEF NextCall, NextRead, TailWait
  <2> QED
    BY <2>1, <2>2 DEF ReaderStep
<1>4. reader'[r].pc # "out" =>
        r \in DOMAIN registered_readers' /\ registered_readers'[r] = reader'[r].current_lsn
  <2>1. CASE Attach(r)
    <3>1. PICK l \in StartLsns :
            /\ reader' = [reader EXCEPT ![r] =
                            [Out EXCEPT !.pc = "idle", !.from = l, !.current_lsn = l]]
            /\ registered_readers' = Pinned(r, l)
      BY <2>1 DEF Attach
    <3> QED
      BY <1>2, <3>1 DEF Pinned, Out
  <2>2. CASE NextAdvance(r)
    <3>1. reader'[r] = Returned(reader[r]) /\ registered_readers' = Pinned(r, reader[r].current_lsn + 1)
      BY <1>2, <2>2 DEF NextAdvance
    <3>2. reader'[r].current_lsn = reader[r].current_lsn + 1
      BY <1>2, <3>1 DEF Returned, ReadersType
    <3> QED
      BY <3>1, <3>2 DEF Pinned
  <2>3. CASE Detach(r)
    BY <1>2, <2>3 DEF Detach, Out
  <2>4. CASE NextCall(r) \/ NextRead(r) \/ TailWait(r)
    <3>1. reader'[r].current_lsn = reader[r].current_lsn /\ reader[r].pc # "out"
          /\ registered_readers' = registered_readers
      <4>1. CASE NextCall(r)
        BY <1>2, <4>1 DEF NextCall, IteratorStep, ReadersType
      <4>2. CASE NextRead(r)
        BY <1>2, <4>2 DEF NextRead, IteratorStep, ReadersType
      <4>3. CASE TailWait(r)
        BY <1>2, <4>3 DEF TailWait, IteratorStep, ReadersType
      <4> QED
        BY <2>4, <4>1, <4>2, <4>3
    <3> QED
      BY <3>1 DEF UInv
  <2> QED
    BY <2>1, <2>2, <2>3, <2>4 DEF ReaderStep
<1>5. \A q \in Readers : reader'[q].pc # "out" =>
        /\ up'
        /\ q \in DOMAIN registered_readers'
        /\ registered_readers'[q] = reader'[q].current_lsn
  BY <1>1, <1>3, <1>4 DEF UInv
<1> QED
  BY <1>1, <1>5, SameReads DEF UInv

\* Recovery lists each file that has a header once, and opens the next segment above them all.
LEMMA RecoverKeeps == UInv /\ HInv /\ IInv' /\ Recover => UInv' /\ Unread
<1> SUFFICES ASSUME UInv, HInv, IInv', Recover PROVE UInv' /\ Unread
  OBVIOUS
<1>1. ~up /\ UNCHANGED <<reader, is_shutdown>>
  BY DEF Recover
<1>2. \A r \in Readers : reader[r].pc = "out" /\ reader'[r].pc = "out"
  BY <1>1 DEF UInv
<1>3. /\ Headed \subseteq FileName /\ IsFiniteSet(Headed)
      /\ \A f \in Headed : f.base < next_lsn'
  BY HeadedBelow
<1> DEFINE g == [f \in Headed |-> [pos |-> Rank(f), file |-> f, base_lsn |-> f.base,
                                   last_lsn |-> Kept(f)[Len(Kept(f))].lsn]]
<1>4. segment_list' = {g[f] : f \in Headed}
  BY DEF Recover
<1>5. \A f \in Headed : g[f].file = f /\ g[f].base_lsn = f.base /\ g[f].pos = Rank(f)
  OBVIOUS
<1>6. g = [f \in Headed |-> g[f]]
  OBVIOUS
<1> HIDE DEF g
<1>7. Listed(segment_list') /\ FilesOnce(segment_list')
  <2>1. \A d, e \in segment_list' : d.file = e.file => d = e
    BY <1>4, <1>5
  <2>2. Cardinality(segment_list') = Cardinality(Headed)
    <3>1. g \in Surjection(Headed, segment_list')
      BY <1>4, <1>6 DEF Surjection
    <3>2. g \in Injection(Headed, segment_list')
      BY <1>5, <3>1 DEF Surjection, Injection, IsInjective
    <3> QED
      BY <1>3, <3>1, <3>2, FS_Surjection
  <2>3. \A f \in Headed : Rank(f) <= Cardinality(Headed)
    BY <1>3, FS_Subset DEF Rank
  <2>4. \A e \in segment_list' : e.pos <= Cardinality(segment_list')
    BY <1>4, <1>5, <2>2, <2>3
  <2> QED
    BY <2>1, <2>4 DEF Listed, FilesOnce
<1>8. /\ \A e \in segment_list' : e.file.id <= segment_id'
      /\ active_fd' = NoFile => \A e \in segment_list' : e.file.id < segment_id'
  <2>1. \A e \in segment_list' : e.file \in Headed
    BY <1>4, <1>5
  <2>2. \A f \in Headed : f.id \in Nat
    BY <1>3 DEF FileName
  <2>3. CASE Headed = {}
    BY <2>1, <2>3
  <2>4. CASE Headed # {} /\ active_fd' = NoFile
    <3>1. \A f \in Open : f # NoFile /\ f \in Headed
      BY <1>3 DEF Open, NoFile, FileName
    <3>2. PICK f \in Headed : IsMaxId(f) /\ segment_id' = f.id + 1
      BY <2>4, <3>1 DEF Recover
    <3>3. \A h \in Headed : h.id < segment_id' /\ h.id <= segment_id'
      BY <2>2, <3>2 DEF IsMaxId
    <3> QED
      BY <2>1, <3>3
  <2>5. CASE Headed # {} /\ active_fd' # NoFile
    <3>1. PICK f \in Headed : IsMaxId(f) /\ segment_id' = f.id
      BY <2>5 DEF Recover
    <3> QED
      BY <2>1, <2>5, <3>1 DEF IsMaxId
  <2> QED
    BY <2>3, <2>4, <2>5
<1>9. \A e \in segment_list' : e.base_lsn < next_lsn'
  BY <1>3, <1>4, <1>5
<1> QED
  BY <1>2, <1>7, <1>8, <1>9 DEF UInv, Unread

\* The process ends, and the iterators with it.
LEMMA StopKeeps == UInv /\ IInv' /\ Stop => UInv' /\ Unread
<1> SUFFICES ASSUME UInv, IInv', Stop PROVE UInv' /\ Unread
  OBVIOUS
<1>1. CASE CrashInRecovery
  <2>1. /\ ~up
        /\ UNCHANGED <<segment_list, segment_id, active_fd, next_lsn, is_shutdown, reader>>
    BY <1>1 DEF CrashInRecovery, catalogue
  <2> QED
    BY <2>1 DEF UInv, Unread
<1>2. CASE Down
  <2>1. segment_list' = {} /\ \A r \in Readers : reader'[r].pc = "out"
    BY <1>2 DEF Down, Out
  <2>2. Listed(segment_list') /\ FilesOnce(segment_list')
    BY <2>1 DEF Listed, FilesOnce
  <2> QED
    BY <2>1, <2>2 DEF UInv, Unread
<1> QED
  BY <1>1, <1>2 DEF Stop, ProcessEnds, CrashInAppend, CrashInCheckpoint, CrashInShutdown, PowerLoss

LEMMA InitUInv == Init => UInv
<1> SUFFICES ASSUME Init PROVE UInv
  OBVIOUS
<1>1. segment_list = {} /\ \A r \in Readers : reader[r].pc = "out"
  BY DEF Init, Out
<1> QED
  BY <1>1, InitIInv DEF UInv, Listed, FilesOnce

LEMMA NextUInv ==
    ("fsync" \notin Faults \/ ~PruneWorker) /\ UInv /\ HInv /\ IInv' /\ [Next]_vars
      => UInv' /\ Unread
<1> SUFFICES ASSUME "fsync" \notin Faults \/ ~PruneWorker, UInv, HInv, IInv', [Next]_vars
             PROVE  UInv' /\ Unread
  OBVIOUS
<1>1. CASE UNCHANGED vars
  <2>1. UNCHANGED <<disk, up, active_fd, segment_id, next_lsn, segment_list, is_shutdown, reader,
                    registered_readers>>
    BY <1>1 DEF vars, catalogue
  <2> QED
    BY <2>1, SameReads DEF UInv
<1>2. Prune => "fsync" \notin Faults
  BY DEF Prune
<1> QED
  BY <1>1, <1>2, AppendStepKeeps, MarkersKeep, ShutdownFlagKeeps, PruneKeeps, ReaderStepKeeps,
     RecoverKeeps, StopKeeps DEF Next

\* What an attached iterator has still to read stays readable, and reads the same, through
\* appends, rollovers, checkpoints, shutdown and the steps of other iterators: in the code as
\* built, without the worker, whatever fails; and with the worker as long as no fsync does.
\* A failed fsync at a rollover makes two entries of one file, which the worker may remove
\* under the second.
THEOREM UnreadIsKept == "fsync" \notin Faults \/ ~PruneWorker => (Spec => UnreadStaysReadable)
<1> SUFFICES ASSUME "fsync" \notin Faults \/ ~PruneWorker PROVE Spec => UnreadStaysReadable
  OBVIOUS
<1>1. UInv /\ HInv /\ IInv' /\ [Next]_vars => UInv'
  BY NextUInv
<1>2. UInv /\ HInv /\ IInv' /\ [Next]_vars =>
        [\A r \in Readers : reader[r].pc # "out" /\ reader'[r].pc # "out" =>
           \A l \in reader[r].current_lsn .. next_lsn - 1 : ReadAt(l) \subseteq ReadAt(l)']_vars
  BY NextUInv DEF Unread
<1> QED
  BY <1>1, <1>2, InitUInv, Invariance, HeadersInvariance, PTL DEF Spec, UnreadStaysReadable
=============================================================================
