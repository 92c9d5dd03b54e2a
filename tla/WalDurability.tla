---------------------------- MODULE WalDurability ----------------------------
(***************************************************************************)
(* Theorems about Wal under the faults its code can bear: acknowledged     *)
(* rows stay on disk, sealed segments take no more rows, and with Strategy *)
(* "ALWAYS" durable_lsn promises no more than the fsyncs have covered.     *)
(***************************************************************************)
EXTENDS WalReaders

-----------------------------------------------------------------------------
(* A directory without torn frames.                                        *)

CleanDisk(d) == \A f \in DOMAIN d : ~Has(d[f].frames, {"TORN"})

\* As long as no write fails, and with it no truncation, what recovery leaves is clean and the
\* WAL object it builds keeps it so.
CInv == IInv /\ ("write" \notin Faults /\ up => CleanDisk(disk))

\* In a clean directory all frames can be decoded, and a write without torn frames adds all
\* of its frames.
LEMMA CleanWrite ==
    ASSUME DiskType(disk), CleanDisk(disk), NEW f \in FileName \cup {Unlinked},
           NEW new \in Seq(Frame), ~Has(new, {"TORN"}), NEW fs \in BOOLEAN,
           NEW d, d = StoreFd(f, new, fs)
    PROVE  /\ CleanDisk(d)
           /\ f # Unlinked => \A k \in DOMAIN new :
                /\ FrameIn(d, f, Len(FramesOf(f)) + k)
                /\ d[f].frames[Len(FramesOf(f)) + k] = new[k]
<1> DEFINE old == FramesOf(f)
           all == old \o new
<1>1. CASE f = Unlinked
  BY <1>1 DEF StoreFd
<1>2. CASE f # Unlinked
  <2>1. /\ DOMAIN d = DOMAIN disk \cup {f}
        /\ d[f].frames = all
        /\ \A g \in DOMAIN disk : g # f => d[g] = disk[g]
    BY <1>2 DEF StoreFd, Store, Empty, FramesOf
  <2>2. old \in Seq(Frame) /\ ~Has(old, {"TORN"})
    BY DEF FramesOf, DiskType, File, CleanDisk, Has
  <2> HIDE DEF old
  <2>3. /\ all \in Seq(Frame) /\ Len(all) = Len(old) + Len(new)
        /\ \A i \in 1 .. Len(old) : all[i] = old[i]
        /\ \A k \in 1 .. Len(new) : all[Len(old) + k] = new[k]
    BY <2>2
  <2>4. \A i \in DOMAIN all : i \in 1 .. Len(old) \/ i - Len(old) \in 1 .. Len(new)
    BY <2>2, <2>3
  <2> HIDE DEF all
  <2>5. \A i \in DOMAIN all : all[i].kind # "TORN"
    <3> SUFFICES ASSUME NEW i \in DOMAIN all PROVE all[i].kind # "TORN"
      OBVIOUS
    <3>1. CASE i \in 1 .. Len(old)
      BY <2>2, <2>3, <3>1 DEF Has
    <3>2. CASE i - Len(old) \in 1 .. Len(new)
      <4>1. all[Len(old) + (i - Len(old))] = new[i - Len(old)]
        BY <2>3, <3>2
      <4>2. Len(old) + (i - Len(old)) = i
        BY <2>2, <2>3
      <4>3. new[i - Len(old)].kind # "TORN"
        BY <3>2 DEF Has
      <4> QED
        BY <4>1, <4>2, <4>3
    <3> QED
      BY <2>4, <3>1, <3>2
  <2>6. CleanDisk(d)
    BY <2>1, <2>5 DEF CleanDisk, Has
  <2>7. \A i \in DOMAIN all : Live(all, i)
    BY <2>3, <2>5 DEF Live
  <2>8. \A k \in DOMAIN new : Len(old) + k \in DOMAIN all
    BY <2>2, <2>3
  <2> QED
    BY <1>2, <2>1, <2>3, <2>6, <2>7, <2>8 DEF FrameIn, old
<1> QED
  BY <1>1, <1>2

\* The three ways append ends when no write fails: the row fits, it fills the segment, or it
\* fills the segment and the fsync fails.
AppendEnds(o, seal, fs) ==
    \/ /\ seal = <<>> /\ fs = FALSE
       /\ active_fd' = o.file
       /\ next_lsn' = o.lsn + 1
       /\ segment_list' = BackLast(o.segs, o.lsn)
       /\ acked' = acked \cup {nrows + 1}
       /\ UNCHANGED <<durable_lsn, segment_id, current_base_lsn>>
    \/ /\ seal = <<Fr("SEAL", o.lsn + 1, 0)>> /\ fs = (Strategy = "ALWAYS")
       /\ active_fd' = NoFile
       /\ segment_id' = segment_id + 1
       /\ next_lsn' = o.lsn + 2
       /\ current_base_lsn' = o.lsn + 2
       /\ segment_list' = BackLast(o.segs, o.lsn + 1)
       /\ acked' = acked \cup {nrows + 1}
       /\ durable_lsn' = IF Strategy = "ALWAYS" THEN o.lsn + 1 ELSE durable_lsn
    \/ /\ seal = <<Fr("SEAL", o.lsn + 1, 0)>> /\ fs = FALSE
       /\ "fsync" \in Faults
       /\ active_fd' = NoFile
       /\ next_lsn' = o.lsn + 1
       /\ segment_list' = BackLast(o.segs, o.lsn + 1)
       /\ UNCHANGED <<acked, durable_lsn, segment_id, current_base_lsn>>

LEMMA AppendWrites ==
    ASSUME "write" \notin Faults, IInv, AppendStep
    PROVE  LET o == AfterOpen("ok")
           IN  \E seal \in Seq(Frame), fs \in BOOLEAN :
                  /\ \A j \in DOMAIN seal : seal[j].kind = "SEAL"
                  /\ disk' = StoreFd(o.file, o.wrote \o <<Row(o.lsn)>> \o seal, fs)
                  /\ AppendEnds(o, seal, fs)
<1> DEFINE o == AfterOpen("ok")
           full == <<Fr("SEAL", o.lsn + 1, 0)>>
           none == <<>>
<1>1. WriteOutcome = {"ok"} /\ \A fr : Bytes(fr, "ok") = <<fr>>
  BY DEF WriteOutcome, Bytes
<1>2. o.wrote \in Seq(Frame) /\ o.lsn \in Nat /\ o.lsn + 1 \in Nat
  BY <1>1, AfterOpenType DEF IInv
<1>3. Row(o.lsn) \in Frame /\ Fr("SEAL", o.lsn + 1, 0) \in Frame
  BY <1>2, RowType, FrameType DEF IInv, Kinds
<1>4. /\ full \in Seq(Frame) /\ none \in Seq(Frame)
      /\ \A j \in DOMAIN full : full[j].kind = "SEAL"
      /\ \A j \in DOMAIN none : none[j].kind = "SEAL"
  <2>1. Fr("SEAL", o.lsn + 1, 0).kind = "SEAL"
    BY DEF Fr
  <2> QED
    BY <1>3, <2>1
<1>5. o.wrote \o <<Row(o.lsn)>> \o none = o.wrote \o <<Row(o.lsn)>>
  BY <1>2, <1>3
<1>6. ~AppendFails
  BY <1>1 DEF AppendFails
<1>7. CASE AppendRow
  <2>1. /\ disk' = StoreFd(o.file, o.wrote \o <<Row(o.lsn)>>, FALSE)
        /\ active_fd' = o.file
        /\ next_lsn' = o.lsn + 1
        /\ segment_list' = BackLast(o.segs, o.lsn)
        /\ acked' = acked \cup {nrows + 1}
        /\ UNCHANGED <<durable_lsn, segment_id, current_base_lsn>>
    BY <1>1, <1>7 DEF AppendRow
  <2>2. AppendEnds(o, none, FALSE) /\ FALSE \in BOOLEAN
    BY <2>1 DEF AppendEnds
  <2>3. disk' = StoreFd(o.file, o.wrote \o <<Row(o.lsn)>> \o none, FALSE)
    BY <1>5, <2>1
  <2> HIDE DEF none, o
  <2> QED
    BY <1>4, <2>2, <2>3 DEF o
<1>8. CASE AppendSeals
  <2>1. /\ disk' = StoreFd(o.file, o.wrote \o <<Row(o.lsn)>> \o full, Strategy = "ALWAYS")
        /\ active_fd' = NoFile
        /\ segment_id' = segment_id + 1
        /\ next_lsn' = o.lsn + 2
        /\ current_base_lsn' = o.lsn + 2
        /\ segment_list' = BackLast(o.segs, o.lsn + 1)
        /\ acked' = acked \cup {nrows + 1}
        /\ durable_lsn' = IF Strategy = "ALWAYS" THEN o.lsn + 1 ELSE durable_lsn
    BY <1>1, <1>8 DEF AppendSeals
  <2>2. AppendEnds(o, full, Strategy = "ALWAYS") /\ (Strategy = "ALWAYS") \in BOOLEAN
    BY <2>1 DEF AppendEnds
  <2> HIDE DEF full, o
  <2> QED
    BY <1>4, <2>1, <2>2 DEF o
<1>9. CASE AppendSealUnsynced
  <2>1. /\ disk' = StoreFd(o.file, o.wrote \o <<Row(o.lsn)>> \o full, FALSE)
        /\ active_fd' = NoFile
        /\ next_lsn' = o.lsn + 1
        /\ segment_list' = BackLast(o.segs, o.lsn + 1)
        /\ UNCHANGED <<acked, durable_lsn, segment_id, current_base_lsn>>
    BY <1>1, <1>9 DEF AppendSealUnsynced
  <2>2. AppendEnds(o, full, FALSE) /\ FALSE \in BOOLEAN
    BY <1>9, <2>1 DEF AppendEnds, AppendSealUnsynced, FsyncOutcome
  <2> HIDE DEF full, o
  <2> QED
    BY <1>4, <2>1, <2>2 DEF o
<1> QED
  BY <1>6, <1>7, <1>8, <1>9 DEF AppendStep

\* w is s and then t; w is s, the frame fr, and then t.
JoinOf(s, t, w) ==
    /\ w \in Seq(Frame) /\ Len(w) = Len(s) + Len(t)
    /\ \A i \in 1 .. Len(s) : w[i] = s[i]
    /\ \A j \in 1 .. Len(t) : w[Len(s) + j] = t[j]
    /\ \A i \in 1 .. Len(w) : \/ \E j \in 1 .. Len(s) : w[i] = s[j]
                              \/ \E j \in 1 .. Len(t) : w[i] = t[j]

RowInside(s, fr, t, w) ==
    /\ w \in Seq(Frame) /\ Len(w) = Len(s) + 1 + Len(t)
    /\ \A i \in 1 .. Len(s) : w[i] = s[i]
    /\ w[Len(s) + 1] = fr
    /\ \A i \in 1 .. Len(w) : \/ \E j \in 1 .. Len(s) : w[i] = s[j]
                              \/ w[i] = fr
                              \/ \E j \in 1 .. Len(t) : w[i] = t[j]

LEMMA JoinFrames ==
    ASSUME NEW s \in Seq(Frame), NEW t \in Seq(Frame)
    PROVE  JoinOf(s, t, s \o t)
<1> DEFINE w == s \o t
<1>1. w \in Seq(Frame) /\ Len(w) = Len(s) + Len(t)
  OBVIOUS
<1>2. \A i \in 1 .. Len(s) : w[i] = s[i]
  OBVIOUS
<1>3. \A j \in 1 .. Len(t) : w[Len(s) + j] = t[j]
  OBVIOUS
<1>4. ASSUME NEW i \in 1 .. Len(w), i \notin 1 .. Len(s)
      PROVE  i - Len(s) \in 1 .. Len(t) /\ w[i] = t[i - Len(s)]
  <2> HIDE DEF w
  <2>1. i - Len(s) \in 1 .. Len(t) /\ Len(s) + (i - Len(s)) = i
    BY <1>1, <1>4
  <2> QED
    BY <1>3, <2>1
<1> HIDE DEF w
<1> QED
  BY <1>1, <1>2, <1>3, <1>4 DEF JoinOf, w

LEMMA RowWithin ==
    ASSUME NEW s \in Seq(Frame), NEW t \in Seq(Frame), NEW fr \in Frame
    PROVE  RowInside(s, fr, t, s \o <<fr>> \o t)
<1> DEFINE one == <<fr>>
           u == s \o one
           w == u \o t
<1>1. one \in Seq(Frame) /\ Len(one) = 1 /\ one[1] = fr
  OBVIOUS
<1> HIDE DEF one
<1>2. JoinOf(s, one, u)
  BY <1>1, JoinFrames
<1> HIDE DEF u
<1>3. u \in Seq(Frame) /\ JoinOf(u, t, w)
  BY <1>2, JoinFrames DEF JoinOf
<1> HIDE DEF w
<1>4. /\ Len(u) = Len(s) + 1
      /\ \A i \in 1 .. Len(s) : u[i] = s[i]
      /\ u[Len(s) + 1] = fr
      /\ \A i \in 1 .. Len(u) : u[i] = fr \/ \E j \in 1 .. Len(s) : u[i] = s[j]
  BY <1>1, <1>2 DEF JoinOf
<1>5. RowInside(s, fr, t, w)
  <2>1. /\ w \in Seq(Frame) /\ Len(w) = Len(u) + Len(t)
        /\ \A i \in 1 .. Len(u) : w[i] = u[i]
        /\ \A i \in 1 .. Len(w) : \/ \E j \in 1 .. Len(u) : w[i] = u[j]
                                  \/ \E j \in 1 .. Len(t) : w[i] = t[j]
    BY <1>3 DEF JoinOf
  <2>2. Len(s) \in Nat /\ Len(t) \in Nat
    OBVIOUS
  <2>3. Len(w) = Len(s) + 1 + Len(t)
    BY <1>4, <2>1, <2>2
  <2>4. \A i \in 1 .. Len(s) : w[i] = s[i]
    BY <1>4, <2>1, <2>2
  <2>5. w[Len(s) + 1] = fr
    BY <1>4, <2>1, <2>2
  <2>6. ASSUME NEW i \in 1 .. Len(w)
        PROVE  \/ \E j \in 1 .. Len(s) : w[i] = s[j]
               \/ w[i] = fr
               \/ \E j \in 1 .. Len(t) : w[i] = t[j]
    <3>1. CASE \E j \in 1 .. Len(u) : w[i] = u[j]
      <4> PICK j \in 1 .. Len(u) : w[i] = u[j]
        BY <3>1
      <4> QED
        BY <1>4
    <3>2. CASE \E j \in 1 .. Len(t) : w[i] = t[j]
      BY <3>2
    <3> QED
      BY <2>1, <2>6, <3>1, <3>2
  <2> QED
    BY <2>1, <2>3, <2>4, <2>5, <2>6 DEF RowInside
<1> QED
  BY <1>5 DEF w, u, one

\* What append writes when no write fails: a header if it opens a segment, then the row, then
\* what closes the segment, if anything.
Appended(o, seal, w) ==
    /\ w \in Seq(Frame) /\ ~Has(w, {"TORN"})
    /\ \E k \in DOMAIN w : w[k] = Row(o.lsn)
    /\ active_fd = NoFile => 1 \in DOMAIN w /\ w[1].kind = "HEADER"
    /\ Has(w, {"HEADER"}) => active_fd = NoFile
    /\ \A k \in DOMAIN w : w[k].kind \in {"SEAL", "SHUTDOWN"} => k # 1 /\ seal # <<>>

LEMMA AppendFrames ==
    ASSUME "write" \notin Faults, IInv, NEW o, o = AfterOpen("ok"),
           NEW seal \in Seq(Frame), \A j \in DOMAIN seal : seal[j].kind = "SEAL",
           NEW w, w = o.wrote \o <<Row(o.lsn)>> \o seal
    PROVE  o.file \in FileName \cup {Unlinked} /\ Appended(o, seal, w)
<1> DEFINE row == Row(o.lsn)
<1>1. WriteOutcome = {"ok"} /\ \A fr : Bytes(fr, "ok") = <<fr>>
  BY DEF WriteOutcome, Bytes
<1>2. /\ o.file \in FileName \cup {Unlinked} /\ o.wrote \in Seq(Frame)
      /\ o.lsn \in Nat /\ o.lsn + 1 \in Nat /\ next_lsn \in Nat
  BY <1>1, AfterOpenType DEF IInv, TypeOK, CatalogueType
<1>3. row \in Frame /\ row.kind = "ROW"
  BY <1>2, RowType DEF IInv, Row, Fr
<1>4. \A j \in DOMAIN seal : seal[j].kind = "SEAL" /\ seal # <<>>
  OBVIOUS
<1>5. /\ active_fd # NoFile => o.wrote = <<>>
      /\ active_fd = NoFile => Len(o.wrote) = 1 /\ o.wrote[1].kind = "HEADER"
  <2>1. active_fd # NoFile => o.wrote = <<>>
    BY DEF AfterOpen
  <2> DEFINE h == Fr("HEADER", next_lsn, 0)
             one == <<h>>
  <2>2. active_fd = NoFile => o.wrote = one
    BY <1>1 DEF AfterOpen
  <2>3. Len(one) = 1 /\ one[1] = h /\ h.kind = "HEADER"
    BY DEF Fr
  <2> HIDE DEF h, one
  <2> QED
    BY <2>1, <2>2, <2>3
<1> HIDE DEF row
<1>6. RowInside(o.wrote, row, seal, w)
  BY <1>2, <1>3, RowWithin DEF row
<1>7. \A j \in DOMAIN o.wrote : active_fd = NoFile /\ o.wrote[j].kind = "HEADER"
  BY <1>2, <1>5
<1>8. \A i \in DOMAIN w :
         \/ w[i].kind = "ROW"
         \/ w[i].kind = "HEADER" /\ active_fd = NoFile
         \/ w[i].kind = "SEAL" /\ seal # <<>>
  <2>1. \A i \in 1 .. Len(w) : \/ \E j \in 1 .. Len(o.wrote) : w[i] = o.wrote[j]
                              \/ w[i] = row
                              \/ \E j \in 1 .. Len(seal) : w[i] = seal[j]
    BY <1>6 DEF RowInside
  <2>2. /\ DOMAIN w = 1 .. Len(w) /\ DOMAIN seal = 1 .. Len(seal)
        /\ DOMAIN o.wrote = 1 .. Len(o.wrote)
    BY <1>2, <1>6 DEF RowInside
  <2> SUFFICES ASSUME NEW i \in DOMAIN w
               PROVE  \/ w[i].kind = "ROW"
                      \/ w[i].kind = "HEADER" /\ active_fd = NoFile
                      \/ w[i].kind = "SEAL" /\ seal # <<>>
    OBVIOUS
  <2>3. CASE \E j \in DOMAIN o.wrote : w[i] = o.wrote[j]
    BY <1>7, <2>3
  <2>4. CASE w[i] = row
    BY <1>3, <2>4
  <2>5. CASE \E j \in DOMAIN seal : w[i] = seal[j]
    BY <1>4, <2>5
  <2> QED
    <3>1. i \in 1 .. Len(w)
      BY <2>2
    <3>2. \/ \E j \in DOMAIN o.wrote : w[i] = o.wrote[j]
          \/ w[i] = row
          \/ \E j \in DOMAIN seal : w[i] = seal[j]
      BY <2>1, <2>2, <3>1, Zenon
    <3> QED
      BY <2>3, <2>4, <2>5, <3>2, Zenon
<1>9. Len(o.wrote) + 1 \in DOMAIN w
  BY <1>2, <1>4, <1>6 DEF RowInside
<1>10. w[1].kind \in {"HEADER", "ROW"} /\ (active_fd = NoFile => w[1].kind = "HEADER")
  BY <1>2, <1>3, <1>5, <1>6 DEF RowInside
<1>11. 1 \in DOMAIN w
  BY <1>2, <1>4, <1>6 DEF RowInside
<1>12. \A k \in DOMAIN w : w[k].kind \in {"SEAL", "SHUTDOWN"} => k # 1 /\ seal # <<>>
  BY <1>8, <1>10
<1>13. ~Has(w, {"TORN"}) /\ (Has(w, {"HEADER"}) => active_fd = NoFile)
  BY <1>8 DEF Has
<1> QED
  BY <1>2, <1>6, <1>9, <1>10, <1>11, <1>12, <1>13 DEF RowInside, Appended, row

\* Sync, checkpoint and the shutdown seal write at most one frame, no row and no header; a seal
\* goes to the active file alone, which it closes.
LEMMA MarkerFrames ==
    ASSUME "write" \notin Faults, IInv, Sync \/ Checkpoint \/ ShutdownSeal
    PROVE  \E f \in FileName \cup {Unlinked}, new \in Seq(Frame), fs \in BOOLEAN :
              /\ disk' = StoreFd(f, new, fs)
              /\ ~Has(new, {"TORN", "ROW", "HEADER"})
              /\ Has(new, {"SEAL", "SHUTDOWN"}) => f = active_fd /\ is_shutdown
<1>1. next_lsn \in Nat /\ (active_fd # NoFile => active_fd \in FileName \cup {Unlinked})
  BY DEF IInv, TypeOK, CatalogueType
<1>2. WriteOutcome = {"ok"} /\ \A fr : Bytes(fr, "ok") = <<fr>>
  BY DEF WriteOutcome, Bytes
<1>3. \A kind \in {"CHECKPOINT", "SHUTDOWN"} :
         /\ <<Fr(kind, next_lsn, 0)>> \in Seq(Frame)
         /\ ~Has(<<Fr(kind, next_lsn, 0)>>, {"TORN", "ROW", "HEADER"})
  <2>1. \A kind \in {"CHECKPOINT", "SHUTDOWN"} :
          Fr(kind, next_lsn, 0) \in Frame /\ Fr(kind, next_lsn, 0).kind = kind
    BY <1>1, FrameType DEF Kinds, Fr
  <2> QED
    BY <2>1 DEF Has
<1>4. <<>> \in Seq(Frame) /\ \A kinds : ~Has(<<>>, kinds)
  BY DEF Has
<1>5. CASE Sync
  <2> DEFINE new == <<>>
  <2>1. disk' = StoreFd(active_fd, new, TRUE) /\ active_fd # NoFile
    BY <1>5 DEF Sync
  <2>2. new \in Seq(Frame) /\ \A kinds : ~Has(new, kinds)
    BY <1>4
  <2> HIDE DEF new
  <2> QED
    BY <1>1, <2>1, <2>2
<1>6. CASE Checkpoint
  <2> DEFINE f == [id |-> segment_id, base |-> current_base_lsn]
             new == <<Fr("CHECKPOINT", next_lsn, 0)>>
  <2>1. f \in FileName /\ f # Unlinked
    BY DEF IInv, TypeOK, CatalogueType, FileName, Unlinked
  <2>2. disk' = Store(f, new, FALSE)
    BY <1>2, <1>6 DEF Checkpoint
  <2>3. new \in Seq(Frame) /\ ~Has(new, {"TORN", "ROW", "HEADER"})
    BY <1>3
  <2>4. ~Has(new, {"SEAL", "SHUTDOWN"})
    BY DEF Has, Fr
  <2> HIDE DEF new, f
  <2>5. disk' = StoreFd(f, new, FALSE) /\ FALSE \in BOOLEAN
    BY <2>1, <2>2 DEF StoreFd
  <2> QED
    BY <2>1, <2>3, <2>4, <2>5
<1>7. CASE ShutdownSeal
  <2>1. CASE active_fd = NoFile
    <3> DEFINE new == <<>>
    <3>1. disk' = StoreFd(Unlinked, new, FALSE) /\ FALSE \in BOOLEAN
      BY <1>7, <2>1 DEF ShutdownSeal, StoreFd
    <3>2. new \in Seq(Frame) /\ \A kinds : ~Has(new, kinds)
      BY <1>4
    <3> HIDE DEF new
    <3> QED
      BY <3>1, <3>2
  <2>2. CASE active_fd # NoFile
    <3> DEFINE new == <<Fr("SHUTDOWN", next_lsn, 0)>>
    <3>1. is_shutdown /\ \E fs \in FsyncOutcome : disk' = StoreFd(active_fd, new, fs)
      BY <1>2, <1>7, <2>2 DEF ShutdownSeal
    <3>2. new \in Seq(Frame) /\ ~Has(new, {"TORN", "ROW", "HEADER"})
      BY <1>3
    <3> HIDE DEF new
    <3> QED
      BY <1>1, <2>2, <3>1, <3>2, OutcomeType
  <2> QED
    BY <2>1, <2>2
<1> QED
  BY <1>5, <1>6, <1>7

-----------------------------------------------------------------------------
(* The directory stays clean.                                              *)

\* The steps that leave the directory and the writer's part of the catalogue alone.
Quiet == ShutdownFlag \/ (\E r \in Readers : ReaderStep(r)) \/ UNCHANGED vars
LEMMA QuietActions ==
    ASSUME Quiet
    PROVE  /\ UNCHANGED <<disk, up, active_fd, next_lsn, durable_lsn, segment_id,
                          current_base_lsn, boot_lsn, acked, pruned>>
           /\ is_shutdown => is_shutdown'
<1>1. CASE ShutdownFlag
  BY <1>1 DEF ShutdownFlag, catalogue, histories
<1>2. CASE \E r \in Readers : ReaderStep(r)
  <2>1. \E r \in Readers : \E pc : IteratorStep(r, pc)
    BY <1>2 DEF ReaderStep, Attach, NextCall, NextRead, NextAdvance, TailWait, Detach
  <2> QED
    BY <2>1 DEF IteratorStep, catalogue, histories
<1>3. CASE UNCHANGED vars
  BY <1>3 DEF vars, catalogue, histories
<1> QED
  BY <1>1, <1>2, <1>3 DEF Quiet

\* What append leaves in the directory when no write fails, as the other proofs use it.
LEMMA AppendDisk ==
    ASSUME "write" \notin Faults, CInv, AppendStep
    PROVE  LET o == AfterOpen("ok")
           IN  \E seal \in Seq(Frame), fs \in BOOLEAN :
                  LET w == o.wrote \o <<Row(o.lsn)>> \o seal
                  IN  /\ disk' = StoreFd(o.file, w, fs)
                      /\ AppendEnds(o, seal, fs)
                      /\ Appended(o, seal, w)
                      /\ o.file \in FileName \cup {Unlinked}
                      /\ CleanDisk(disk')
                      /\ o.file # Unlinked => \A k \in DOMAIN w :
                           /\ FrameIn(disk', o.file, Len(FramesOf(o.file)) + k)
                           /\ disk'[o.file].frames[Len(FramesOf(o.file)) + k] = w[k]
<1> DEFINE o == AfterOpen("ok")
<1>1. PICK seal \in Seq(Frame), fs \in BOOLEAN :
        /\ \A j \in DOMAIN seal : seal[j].kind = "SEAL"
        /\ disk' = StoreFd(o.file, o.wrote \o <<Row(o.lsn)>> \o seal, fs)
        /\ AppendEnds(o, seal, fs)
  BY AppendWrites DEF CInv
<1> DEFINE w == o.wrote \o <<Row(o.lsn)>> \o seal
<1>2. o = AfterOpen("ok")
  OBVIOUS
<1> HIDE DEF o
<1>3. disk' = StoreFd(o.file, w, fs)
  BY <1>1
<1>4. /\ Appended(o, seal, w) /\ o.file \in FileName \cup {Unlinked}
      /\ w \in Seq(Frame) /\ ~Has(w, {"TORN"})
  <2>1. Appended(o, seal, w) /\ o.file \in FileName \cup {Unlinked}
    BY <1>1, <1>2, AppendFrames DEF CInv
  <2> HIDE DEF w
  <2> QED
    BY <2>1 DEF Appended
<1>5. DiskType(disk) /\ CleanDisk(disk)
  BY DEF CInv, IInv, TypeOK, AppendStep, AppendFails, AppendRow, AppendSeals,
         AppendSealUnsynced, AppendCall
<1> HIDE DEF w
<1>6. /\ CleanDisk(disk')
      /\ o.file # Unlinked => \A k \in DOMAIN w :
           /\ FrameIn(disk', o.file, Len(FramesOf(o.file)) + k)
           /\ disk'[o.file].frames[Len(FramesOf(o.file)) + k] = w[k]
  <2> DEFINE f == o.file
             d == disk'
  <2>1. f \in FileName \cup {Unlinked} /\ d = StoreFd(f, w, fs)
    BY <1>3, <1>4
  <2> HIDE DEF f, d
  <2>2. /\ CleanDisk(d)
        /\ f # Unlinked => \A k \in DOMAIN w :
             /\ FrameIn(d, f, Len(FramesOf(f)) + k)
             /\ d[f].frames[Len(FramesOf(f)) + k] = w[k]
    BY <1>4, <1>5, <2>1, CleanWrite, SMTT(40)
  <2> QED
    BY <2>2 DEF f, d
<1> QED
  BY <1>1, <1>3, <1>4, <1>6 DEF o, w

\* Recovery cuts every torn file behind its last whole frame.
LEMMA RecoverCleans ==
    ASSUME "write" \notin Faults, IInv, Recover
    PROVE  CleanDisk(disk')
<1>1. PICK fs \in FsyncOutcome : Truncate(Damaged, fs)
  BY DEF Recover
<1>2. DOMAIN disk' = DOMAIN disk
      /\ \A f \in DOMAIN disk : disk'[f].frames = IF f \in Damaged THEN Kept(f) ELSE disk[f].frames
  BY <1>1 DEF Truncate
<1>3. ASSUME NEW f \in Damaged
      PROVE  ~Has(Kept(f), {"TORN"})
  <2> DEFINE s == disk[f].frames
  <2>1. s \in Seq(Frame) /\ Kept(f) = Decodable(s)
    BY DEF Damaged, Kept, IInv, TypeOK, DiskType, File
  <2> HIDE DEF s
  <2>2. /\ Kept(f) \in Seq(Frame)
        /\ \A i \in 1 .. Len(Kept(f)) : Kept(f)[i] = s[i] /\ s[i].kind # "TORN"
    BY <2>1, DecodablePrefix
  <2> QED
    BY <2>2 DEF Has
<1> QED
  BY <1>2, <1>3 DEF CleanDisk, Damaged

LEMMA NextCInv == CInv /\ IInv' /\ [Next]_vars => CInv'
<1> SUFFICES ASSUME CInv, IInv', [Next]_vars, "write" \notin Faults, up' PROVE CleanDisk(disk')
  BY DEF CInv
<1>1. CASE AppendStep
  BY <1>1, AppendDisk
<1>2. CASE Sync \/ Checkpoint \/ ShutdownSeal
  <2>1. PICK f \in FileName \cup {Unlinked}, new \in Seq(Frame), fs \in BOOLEAN :
          disk' = StoreFd(f, new, fs) /\ ~Has(new, {"TORN", "ROW", "HEADER"})
    BY <1>2, MarkerFrames DEF CInv
  <2>2. ~Has(new, {"TORN"})
    BY <2>1 DEF Has
  <2>3. DiskType(disk) /\ CleanDisk(disk)
    BY <1>2 DEF CInv, IInv, TypeOK, Sync, Checkpoint, ShutdownSeal
  <2> QED
    BY <2>1, <2>2, <2>3, CleanWrite
<1>3. CASE Prune
  BY <1>3 DEF Prune, CInv, CleanDisk
<1>4. CASE Quiet
  BY <1>4, QuietActions DEF CInv
<1>5. CASE Recover
  BY <1>5, RecoverCleans DEF CInv
<1>6. CASE Stop
  BY <1>6 DEF Stop, ProcessEnds, CrashInAppend, CrashInCheckpoint, CrashInShutdown, CrashInRecovery,
              PowerLoss, Down
<1> QED
  BY <1>1, <1>2, <1>3, <1>4, <1>5, <1>6 DEF Next, Quiet

LEMMA CleanInvariance == Spec => []CInv
<1>1. Init => CInv
  BY InitIInv DEF CInv, Init
<1>2. CInv /\ IInv' /\ [Next]_vars => CInv'
  BY NextCInv
<1> QED
  BY <1>1, <1>2, Invariance, PTL DEF Spec

-----------------------------------------------------------------------------
(* Acknowledged rows.                                                      *)

\* Every acknowledged row is an entry of the log; to write it append needs a file that is
\* not unlinked.
AInv ==
    /\ CInv
    /\ active_fd # Unlinked
    /\ \A k \in acked : \E e \in RowsOf(disk) : e.row = k

\* With nothing to lose, the log only grows.
LEMMA LogGrows ==
    ASSUME IInv, [Next]_vars, "power" \notin Faults, ~PruneWorker
    PROVE  RowsOf(disk) \subseteq RowsOf(disk')
<1>1. LogStep
  BY NextLogs
<1>2. CASE Log!Add
  BY <1>2 DEF Log!Add
<1>3. CASE Log!Refuse
  BY <1>3 DEF Log!Refuse
<1>4. CASE Log!Lose
  BY <1>4 DEF Log!Lose
<1>5. CASE UNCHANGED Log!vars
  BY <1>5 DEF Log!vars
<1> QED
  BY <1>1, <1>2, <1>3, <1>4, <1>5 DEF LogStep, Log!Next

\* The row of an append that writes to a linked file is in the log afterwards.
LEMMA AppendEnters ==
    ASSUME "write" \notin Faults, AInv, AppendStep
    PROVE  /\ active_fd' # Unlinked
           /\ acked' \subseteq acked \cup {nrows + 1}
           /\ \E e \in RowsOf(disk') : e.row = nrows + 1
<1> DEFINE o == AfterOpen("ok")
<1>1. PICK seal \in Seq(Frame), fs \in BOOLEAN :
        LET w == o.wrote \o <<Row(o.lsn)>> \o seal
        IN  /\ AppendEnds(o, seal, fs)
            /\ Appended(o, seal, w)
            /\ o.file # Unlinked => \A k \in DOMAIN w :
                 /\ FrameIn(disk', o.file, Len(FramesOf(o.file)) + k)
                 /\ disk'[o.file].frames[Len(FramesOf(o.file)) + k] = w[k]
  BY AppendDisk DEF AInv
<1> DEFINE w == o.wrote \o <<Row(o.lsn)>> \o seal
<1>2. o.file # Unlinked
  <2>1. o.file = active_fd \/ o.file = [id |-> segment_id, base |-> current_base_lsn]
    BY DEF AfterOpen
  <2>2. segment_id \in Nat
    BY DEF AInv, CInv, IInv, TypeOK, CatalogueType
  <2> QED
    BY <2>1, <2>2 DEF AInv, Unlinked
<1>3. active_fd' \in {o.file, NoFile} /\ acked' \subseteq acked \cup {nrows + 1}
  BY <1>1 DEF AppendEnds
<1> HIDE DEF o, w
<1>4. PICK k \in DOMAIN w : w[k] = Row(o.lsn)
  BY <1>1 DEF w, Appended
<1> DEFINE i == Len(FramesOf(o.file)) + k
<1>5. FrameIn(disk', o.file, i) /\ disk'[o.file].frames[i] = Row(o.lsn)
  BY <1>1, <1>2, <1>4 DEF w
<1> HIDE DEF i
<1>6. RowIn(disk', o.file, i) /\ disk'[o.file].frames[i].row = nrows + 1
  BY <1>5 DEF FrameIn, RowIn, Row, Fr
<1>7. Entry(disk', o.file, i) \in RowsOf(disk') /\ Entry(disk', o.file, i).row = nrows + 1
  BY <1>6, RowsOfMember DEF Entry
<1> QED
  BY <1>2, <1>3, <1>7 DEF NoFile, Unlinked

LEMMA NextAInv ==
    Faults \subseteq {"fsync"} /\ ~PruneWorker /\ AInv /\ IInv' /\ [Next]_vars => AInv'
<1> SUFFICES ASSUME Faults \subseteq {"fsync"}, ~PruneWorker, AInv, IInv', [Next]_vars
             PROVE  AInv'
  OBVIOUS
<1>1. CInv' /\ RowsOf(disk) \subseteq RowsOf(disk')
  BY NextCInv, LogGrows DEF AInv, CInv
<1>2. CASE AppendStep
  BY <1>1, <1>2, AppendEnters DEF AInv
<1>3. CASE ~AppendStep
  <2>1. acked' = acked
    BY <1>3, QuietActions DEF Next, Quiet, Sync, Checkpoint, ShutdownSeal, Prune, Recover, Stop,
       ProcessEnds, CrashInAppend, CrashInCheckpoint, CrashInShutdown, CrashInRecovery,
       PowerLoss, Down, histories
  <2>2. active_fd' # Unlinked
    <3>1. CASE Sync \/ Checkpoint \/ ShutdownSeal
      <4>1. active_fd' \in {NoFile, active_fd}
        BY <3>1 DEF Sync, Checkpoint, ShutdownSeal, catalogue
      <4> QED
        BY <4>1 DEF AInv, NoFile, Unlinked
    <3>2. CASE Prune
      BY <3>2 DEF Prune
    <3>3. CASE Quiet
      BY <3>3, QuietActions DEF AInv
    <3>4. CASE Recover
      <4>1. Unlinked \notin FileName /\ NoFile # Unlinked
        BY DEF Unlinked, NoFile, FileName
      <4>2. Open \subseteq FileName
        BY DEF Open, Headed, AInv, CInv, IInv, TypeOK, DiskType
      <4>3. active_fd' = NoFile \/ active_fd' \in Open
        BY <3>4 DEF Recover
      <4> QED
        BY <4>1, <4>2, <4>3
    <3>5. CASE Stop
      <4>1. active_fd' \in {NoFile, active_fd}
        BY <3>5 DEF Stop, ProcessEnds, CrashInAppend, CrashInCheckpoint, CrashInShutdown,
                    CrashInRecovery, PowerLoss, Down, catalogue
      <4> QED
        BY <4>1 DEF AInv, NoFile, Unlinked
    <3> QED
      BY <1>3, <3>1, <3>2, <3>3, <3>4, <3>5 DEF Next, Quiet
  <2> QED
    BY <1>1, <2>1, <2>2 DEF AInv
<1> QED
  BY <1>2, <1>3

\* Where writes do not fail, no power is lost and no worker prunes, the row of every append
\* that returned true stays decodable on disk: through any crash, in whichever call, through
\* recoveries that are cut short themselves, and through failed fsyncs and the rollovers
\* retried after them.
THEOREM AcknowledgedRowsStay ==
    Faults \subseteq {"fsync"} /\ ~PruneWorker => (Spec => []AckedOnDisk)
<1> SUFFICES ASSUME Faults \subseteq {"fsync"}, ~PruneWorker PROVE Spec => []AckedOnDisk
  OBVIOUS
<1>1. Init => AInv
  <2> SUFFICES ASSUME Init PROVE AInv
    OBVIOUS
  <2>1. CInv
    BY InitIInv DEF CInv, Init
  <2> QED
    BY <2>1 DEF AInv, Init, NoFile, Unlinked
<1>2. AInv /\ IInv' /\ [Next]_vars => AInv'
  BY NextAInv
<1>3. AInv => AckedOnDisk
  <2> SUFFICES ASSUME AInv, NEW k \in acked
               PROVE  \E f \in DOMAIN disk : \E i \in DOMAIN disk[f].frames :
                        LiveRow(f, i) /\ disk[f].frames[i].row = k
    BY DEF AckedOnDisk
  <2>1. PICK e \in RowsOf(disk) : e.row = k
    BY DEF AInv
  <2>2. PICK f, i : RowIn(disk, f, i) /\ e = Entry(disk, f, i)
    BY RowsOfMember
  <2> QED
    BY <2>1, <2>2 DEF RowIn, LiveRow, Live, Entry
<1> QED
  BY <1>1, <1>2, <1>3, Invariance, PTL DEF Spec

-----------------------------------------------------------------------------
(* Closed segments.                                                        *)

HeadedIn(d, f) == \E i : FrameIn(d, f, i) /\ d[f].frames[i].kind = "HEADER"

IsClosing(d, f, i) == FrameIn(d, f, i) /\ d[f].frames[i].kind \in {"SEAL", "SHUTDOWN"}
ClosedIn(d, f) == \E i : IsClosing(d, f, i)

\* A header lies somewhere before each seal: a closed segment has one.
SealsBehind(d) ==
    \A f, i : IsClosing(d, f, i) =>
       \E j : j < i /\ FrameIn(d, f, j) /\ d[f].frames[j].kind = "HEADER"

(* No new row reaches a closed segment because append writes to active_fd, which is not     *)
(* closed, or opens segment segment_id, above every closed one; for that, recovery must see *)
(* a header in every closed segment, and the ids of all that have one must stay in bounds.  *)
SInv ==
    /\ CInv
    /\ SealsBehind(disk)
    /\ up => /\ \A f : HeadedIn(disk, f) => f.id <= segment_id
             /\ active_fd \in FileName => HeadedIn(disk, active_fd)
    /\ up /\ ~is_shutdown =>
         \A f : ClosedIn(disk, f) => f # active_fd /\ (active_fd = NoFile => f.id < segment_id)

\* Whatever precedes a frame that can be decoded can be decoded.
LEMMA FrameBefore ==
    ASSUME NEW d, DiskType(d), NEW f, NEW i, FrameIn(d, f, i)
    PROVE  i \in Nat /\ i >= 1 /\ \A j \in 1 .. i : FrameIn(d, f, j)
<1>1. f \in DOMAIN d /\ d[f].frames \in Seq(Frame) /\ Live(d[f].frames, i)
  BY DEF FrameIn, DiskType, File
<1>2. i \in 1 .. Len(d[f].frames)
  BY <1>1 DEF Live
<1>3. \A j \in 1 .. i : j \in 1 .. Len(d[f].frames) /\ \A k \in 1 .. j : k \in 1 .. i
  BY <1>1, <1>2
<1> QED
  BY <1>1, <1>2, <1>3 DEF FrameIn, Live

\* Fewer frames.
LEMMA FewerSeals ==
    ASSUME NEW d, NEW e, DiskType(e), SealsBehind(d),
           \A f, i : FrameIn(e, f, i) => FrameIn(d, f, i) /\ e[f].frames[i] = d[f].frames[i],
           DiskType(d)
    PROVE  SealsBehind(e)
<1> SUFFICES ASSUME NEW f, NEW i, IsClosing(e, f, i)
             PROVE  \E j : j < i /\ FrameIn(e, f, j) /\ e[f].frames[j].kind = "HEADER"
  BY DEF SealsBehind
<1>1. IsClosing(d, f, i) /\ FrameIn(e, f, i)
  BY DEF IsClosing
<1>2. PICK j : j < i /\ FrameIn(d, f, j) /\ d[f].frames[j].kind = "HEADER"
  BY <1>1 DEF SealsBehind
<1>3. j \in 1 .. i
  BY <1>1, <1>2, FrameBefore
<1>4. FrameIn(e, f, j)
  BY <1>1, <1>3, FrameBefore
<1> QED
  BY <1>2, <1>4

\* What StoreFrames says of a directory after a write.
Written(d, f, new) ==
    /\ \A g, i : FrameIn(disk, g, i) => FrameIn(d, g, i) /\ d[g].frames[i] = disk[g].frames[i]
    /\ \A g, i : FrameIn(d, g, i) =>
         \/ FrameIn(disk, g, i) /\ d[g].frames[i] = disk[g].frames[i]
         \/ /\ g = f /\ f # Unlinked
            /\ \E k \in DOMAIN new :
                 /\ i = Len(FramesOf(f)) + k
                 /\ d[g].frames[i] = new[k] /\ new[k].kind # "TORN"

LEMMA StoreWritten ==
    ASSUME DiskType(disk), NEW f \in FileName \cup {Unlinked}, NEW new \in Seq(Frame),
           NEW fs \in BOOLEAN, NEW d, d = StoreFd(f, new, fs)
    PROVE  Written(d, f, new)
<1>1. Written(StoreFd(f, new, fs), f, new)
  BY StoreFrames, SMTT(40) DEF Written
<1> QED
  BY <1>1

\* A write: its own seals come behind a header of the file or behind one it starts with, if that
\* one is whole.
LEMMA WriteSeals ==
    ASSUME DiskType(disk), SealsBehind(disk), NEW f \in FileName \cup {Unlinked},
           NEW new \in Seq(Frame), NEW fs \in BOOLEAN, NEW d, d = StoreFd(f, new, fs), DiskType(d),
           \A k \in DOMAIN new : new[k].kind \in {"SEAL", "SHUTDOWN"} =>
              \/ HeadedIn(disk, f)
              \/ k # 1 /\ new[1].kind \in {"HEADER", "TORN"}
    PROVE  SealsBehind(d)
<1>1. Written(d, f, new)
  BY StoreWritten
<1>2. FramesOf(f) \in Seq(Frame) /\ (f \in DOMAIN disk => FramesOf(f) = disk[f].frames)
  BY DEF FramesOf, DiskType, File
<1> DEFINE n == Len(FramesOf(f))
<1>3. n \in Nat /\ \A j : FrameIn(disk, f, j) => j <= n
  BY <1>2 DEF FrameIn, Live
<1> HIDE DEF n
<1> SUFFICES ASSUME NEW g, NEW i, IsClosing(d, g, i)
             PROVE  \E j : j < i /\ FrameIn(d, g, j) /\ d[g].frames[j].kind = "HEADER"
  BY DEF SealsBehind
<1>4. CASE FrameIn(disk, g, i) /\ d[g].frames[i] = disk[g].frames[i]
  <2>1. PICK j : j < i /\ FrameIn(disk, g, j) /\ disk[g].frames[j].kind = "HEADER"
    BY <1>4 DEF IsClosing, SealsBehind
  <2> QED
    BY <1>1, <2>1 DEF Written
<1>5. ASSUME g = f, f # Unlinked, NEW k \in DOMAIN new, i = n + k,
             d[g].frames[i] = new[k]
      PROVE  \E j : j < i /\ FrameIn(d, g, j) /\ d[g].frames[j].kind = "HEADER"
  <2>0. k \in Nat /\ k >= 1 /\ new[k].kind \in {"SEAL", "SHUTDOWN"}
    BY <1>5 DEF IsClosing
  <2>1. CASE HeadedIn(disk, f)
    <3>1. PICK j : FrameIn(disk, f, j) /\ disk[f].frames[j].kind = "HEADER"
      BY <2>1 DEF HeadedIn
    <3>2. j \in Nat /\ j <= n
      BY <1>3, <3>1, FrameBefore
    <3> QED
      BY <1>1, <1>3, <1>5, <2>0, <3>1, <3>2 DEF Written
  <2>2. CASE k # 1 /\ new[1].kind \in {"HEADER", "TORN"}
    <3>1. n + 1 \in 1 .. i /\ n + 1 < i
      BY <1>3, <1>5, <2>0, <2>2
    <3>2. FrameIn(d, f, n + 1)
      BY <1>5, <3>1, FrameBefore DEF IsClosing
    <3>3. ~FrameIn(disk, f, n + 1)
      BY <1>3
    <3>4. PICK m \in DOMAIN new : n + 1 = n + m /\ d[f].frames[n + 1] = new[m] /\ new[m].kind # "TORN"
      BY <1>1, <3>2, <3>3 DEF Written, n
    <3>5. m = 1
      BY <1>3, <3>4
    <3> QED
      BY <1>5, <2>2, <3>1, <3>2, <3>4, <3>5
  <2> QED
    BY <1>5, <2>0, <2>1, <2>2
<1> QED
  BY <1>1, <1>4, <1>5 DEF IsClosing, Written, n

\* The frames a write puts behind those of a file are the ones written.
TailOf(d, f, new) ==
    \A g \in DOMAIN disk : \A i \in DOMAIN d[g].frames :
       i > Len(disk[g].frames) => g = f /\ \E k \in DOMAIN new : d[g].frames[i] = new[k]

LEMMA StoreTail ==
    ASSUME DiskType(disk), NEW f \in FileName \cup {Unlinked}, NEW new \in Seq(Frame),
           NEW fs \in BOOLEAN, NEW d, d = StoreFd(f, new, fs)
    PROVE  TailOf(d, f, new)
<1> SUFFICES ASSUME NEW g \in DOMAIN disk, NEW i \in DOMAIN d[g].frames,
                    i > Len(disk[g].frames)
             PROVE  g = f /\ \E k \in DOMAIN new : d[g].frames[i] = new[k]
  BY DEF TailOf
<1>1. disk[g].frames \in Seq(Frame) /\ ~(i \in DOMAIN disk[g].frames)
  BY DEF DiskType, File
<1>2. d[g] # disk[g]
  BY <1>1
<1>3. g = f /\ f # Unlinked
  BY <1>2 DEF StoreFd, Store
<1> DEFINE s == disk[g].frames
<1>4. d[g].frames = s \o new
  BY <1>3 DEF StoreFd, Store
<1> HIDE DEF s
<1>5. s \in Seq(Frame) /\ i \in DOMAIN (s \o new) /\ i > Len(s)
  BY <1>1, <1>4 DEF s
<1>6. i - Len(s) \in DOMAIN new /\ (s \o new)[i] = new[i - Len(s)]
  BY <1>5
<1> QED
  BY <1>3, <1>4, <1>6

\* No file closed before a step takes a row in it.
ClosedKept ==
    \A f \in DOMAIN disk \cap DOMAIN disk' :
       ClosedIn(disk, f) => \A i \in DOMAIN disk'[f].frames :
          i > Len(disk[f].frames) => disk'[f].frames[i].kind # "ROW"

\* Where append writes, if it may: no closed file, and one with a header unless it is new.
LEMMA TargetOpen ==
    ASSUME SInv, up, ~is_shutdown, NEW o, o = AfterOpen("ok"), o.file \in FileName \cup {Unlinked}
    PROVE  /\ ~ClosedIn(disk, o.file)
           /\ active_fd # NoFile => o.file = active_fd /\ (o.file # Unlinked => HeadedIn(disk, o.file))
           /\ active_fd = NoFile => o.file.id = segment_id /\ o.file \in FileName
<1>1. segment_id \in Nat /\ current_base_lsn \in Nat
  BY DEF SInv, CInv, IInv, TypeOK, CatalogueType
<1>2. CASE active_fd # NoFile
  <2>1. o.file = active_fd
    BY <1>2 DEF AfterOpen
  <2> QED
    BY <1>2, <2>1 DEF SInv
<1>3. CASE active_fd = NoFile
  <2>1. o.file = [id |-> segment_id, base |-> current_base_lsn]
    BY <1>3 DEF AfterOpen
  <2>2. o.file.id = segment_id /\ o.file \in FileName
    BY <1>1, <2>1 DEF FileName
  <2> QED
    BY <1>1, <1>3, <2>2 DEF SInv
<1> QED
  BY <1>2, <1>3

\* The seals in what append writes come behind a header.
LEMMA AppendedSeals ==
    ASSUME NEW o, NEW seal, NEW w, Appended(o, seal, w), DiskType(disk),
           active_fd # NoFile => (o.file # Unlinked => HeadedIn(disk, o.file)), o.file # Unlinked
    PROVE  \A k \in DOMAIN w : w[k].kind \in {"SEAL", "SHUTDOWN"} =>
              \/ HeadedIn(disk, o.file)
              \/ k # 1 /\ w[1].kind \in {"HEADER", "TORN"}
  BY DEF Appended

LEMMA AppendSealed == Faults \subseteq {"power"} /\ SInv /\ IInv' /\ AppendStep => SInv' /\ ClosedKept
<1> SUFFICES ASSUME Faults \subseteq {"power"}, SInv, IInv', AppendStep
             PROVE  SInv' /\ ClosedKept
  OBVIOUS
<1> DEFINE o == AfterOpen("ok")
<1>1. PICK seal \in Seq(Frame), fs \in BOOLEAN :
        LET w == o.wrote \o <<Row(o.lsn)>> \o seal
        IN  /\ disk' = StoreFd(o.file, w, fs)
            /\ AppendEnds(o, seal, fs)
            /\ Appended(o, seal, w)
            /\ o.file \in FileName \cup {Unlinked}
            /\ CleanDisk(disk')
            /\ o.file # Unlinked => \A k \in DOMAIN w :
                 /\ FrameIn(disk', o.file, Len(FramesOf(o.file)) + k)
                 /\ disk'[o.file].frames[Len(FramesOf(o.file)) + k] = w[k]
  BY AppendDisk DEF SInv
<1> DEFINE w == o.wrote \o <<Row(o.lsn)>> \o seal
<1>2. up /\ ~is_shutdown /\ up' /\ is_shutdown' = is_shutdown
  <2>1. AppendCall
    BY DEF AppendStep, AppendFails, AppendRow, AppendSeals, AppendSealUnsynced
  <2> QED
    BY <2>1 DEF AppendCall
<1>3. /\ ~ClosedIn(disk, o.file)
      /\ active_fd # NoFile => o.file = active_fd /\ (o.file # Unlinked => HeadedIn(disk, o.file))
      /\ active_fd = NoFile => o.file.id = segment_id /\ o.file \in FileName
  BY <1>1, <1>2, TargetOpen
<1>4. \/ /\ seal = <<>>
         /\ active_fd' = o.file /\ segment_id' = segment_id
      \/ active_fd' = NoFile /\ segment_id' = segment_id + 1
  BY <1>1 DEF AppendEnds
<1>5. DiskType(disk) /\ DiskType(disk') /\ segment_id \in Nat
      /\ \A f : HeadedIn(disk, f) => f.id \in Nat
  BY DEF SInv, CInv, IInv, TypeOK, CatalogueType, DiskType, HeadedIn, FrameIn, FileName
<1> DEFINE f == o.file
           d == disk'
<1>6. /\ d = StoreFd(f, w, fs) /\ Appended(o, seal, w) /\ f \in FileName \cup {Unlinked}
      /\ f # Unlinked => \A k \in DOMAIN w :
           /\ FrameIn(d, f, Len(FramesOf(f)) + k)
           /\ d[f].frames[Len(FramesOf(f)) + k] = w[k]
  BY <1>1
<1> HIDE DEF w
<1>7. w \in Seq(Frame)
  BY <1>6 DEF Appended
<1>8. Written(d, f, w)
  <2> HIDE DEF f, d
  <2> QED
    BY <1>5, <1>6, <1>7, StoreWritten
<1>9. SealsBehind(d)
  <2>1. CASE f = Unlinked
    BY <1>6, <2>1 DEF SInv, StoreFd
  <2>2. CASE f # Unlinked
    <3>1. \A k \in DOMAIN w : w[k].kind \in {"SEAL", "SHUTDOWN"} =>
             \/ HeadedIn(disk, f)
             \/ k # 1 /\ w[1].kind \in {"HEADER", "TORN"}
      BY <1>3, <1>5, <1>6, <2>2, AppendedSeals
    <3>2. SealsBehind(disk) /\ DiskType(d)
      BY <1>5 DEF SInv
    <3> HIDE DEF f, d
    <3> QED
      BY <1>5, <1>6, <1>7, <3>1, <3>2, WriteSeals
  <2> QED
    BY <2>1, <2>2
<1>10. \A g : HeadedIn(d, g) => g.id <= segment_id
  <2> SUFFICES ASSUME NEW g, HeadedIn(d, g) PROVE g.id <= segment_id
    OBVIOUS
  <2>1. CASE HeadedIn(disk, g)
    BY <1>2, <2>1 DEF SInv
  <2>2. CASE ~HeadedIn(disk, g)
    <3>1. g = f /\ Has(w, {"HEADER"})
      <4> HIDE DEF f, d
      <4> QED
        BY <1>8, <2>2 DEF Written, HeadedIn, Has
    <3>2. active_fd = NoFile
      BY <1>6, <3>1 DEF Appended
    <3> QED
      BY <1>3, <1>5, <3>1, <3>2
  <2> QED
    BY <2>1, <2>2
<1>11. active_fd' \in FileName => HeadedIn(d, active_fd')
  <2> SUFFICES ASSUME active_fd' \in FileName PROVE HeadedIn(d, active_fd')
    OBVIOUS
  <2>1. active_fd' = f /\ f # Unlinked
    BY <1>4 DEF NoFile, Unlinked, FileName
  <2>2. CASE active_fd # NoFile
    BY <1>3, <1>8, <2>1, <2>2 DEF Written, HeadedIn
  <2>3. CASE active_fd = NoFile
    <3>1. 1 \in DOMAIN w /\ w[1].kind = "HEADER"
      BY <1>6, <2>3 DEF Appended
    <3> QED
      BY <1>6, <2>1, <3>1 DEF HeadedIn
  <2> QED
    BY <2>2, <2>3
<1>12. \A g : ClosedIn(d, g) => g # active_fd' /\ (active_fd' = NoFile => g.id < segment_id')
  <2> SUFFICES ASSUME NEW g, ClosedIn(d, g)
               PROVE  g # active_fd' /\ (active_fd' = NoFile => g.id < segment_id')
    OBVIOUS
  <2>1. g \in FileName /\ HeadedIn(d, g)
    BY <1>5, <1>9 DEF ClosedIn, IsClosing, SealsBehind, HeadedIn, FrameIn, DiskType
  <2>2. g.id \in Nat /\ g.id <= segment_id
    BY <1>10, <2>1 DEF FileName
  <2>3. CASE active_fd' = NoFile /\ segment_id' = segment_id + 1
    BY <1>5, <2>1, <2>2, <2>3 DEF NoFile, FileName
  <2>4. CASE seal = <<>> /\ active_fd' = f
    <3>1. \A k \in DOMAIN w : w[k].kind \notin {"SEAL", "SHUTDOWN"}
      BY <1>6, <2>4 DEF Appended
    <3>2. ClosedIn(disk, g)
      <4> HIDE DEF f, d
      <4> QED
        BY <1>8, <3>1 DEF Written, ClosedIn, IsClosing
    <3>3. g # f
      BY <1>3, <3>2
    <3>4. f # NoFile
      BY <1>6 DEF FileName, Unlinked, NoFile
    <3> QED
      BY <2>4, <3>3, <3>4
  <2> QED
    BY <1>4, <2>3, <2>4
<1>13. ClosedKept
  <2> SUFFICES ASSUME NEW g \in DOMAIN disk, ClosedIn(disk, g), NEW i \in DOMAIN d[g].frames,
                      i > Len(disk[g].frames), d[g].frames[i].kind = "ROW"
               PROVE  FALSE
    BY DEF ClosedKept
  <2> HIDE DEF f, d
  <2>1. TailOf(d, f, w)
    BY <1>5, <1>6, <1>7, StoreTail
  <2>2. g = f
    BY <2>1 DEF TailOf
  <2> QED
    BY <1>3, <2>2 DEF f
<1>14. CInv'
  BY NextCInv DEF SInv, Next
<1>15. segment_id <= segment_id' /\ segment_id' \in Nat
  BY <1>4, <1>5
<1>16. \A g : HeadedIn(d, g) => g.id <= segment_id'
  <2> SUFFICES ASSUME NEW g, HeadedIn(d, g) PROVE g.id <= segment_id'
    OBVIOUS
  <2>1. g.id \in Nat
    BY <1>5 DEF HeadedIn, FrameIn, DiskType, FileName
  <2> QED
    BY <1>5, <1>10, <1>15, <2>1
<1> QED
  BY <1>2, <1>9, <1>11, <1>12, <1>13, <1>14, <1>16 DEF SInv

LEMMA MarkersSealed ==
    Faults \subseteq {"power"} /\ SInv /\ IInv' /\ (Sync \/ Checkpoint \/ ShutdownSeal)
      => SInv' /\ ClosedKept
<1> SUFFICES ASSUME Faults \subseteq {"power"}, SInv, IInv', Sync \/ Checkpoint \/ ShutdownSeal
             PROVE  SInv' /\ ClosedKept
  OBVIOUS
<1>1. PICK f \in FileName \cup {Unlinked}, new \in Seq(Frame), fs \in BOOLEAN :
        /\ disk' = StoreFd(f, new, fs)
        /\ ~Has(new, {"TORN", "ROW", "HEADER"})
        /\ Has(new, {"SEAL", "SHUTDOWN"}) => f = active_fd /\ is_shutdown
  BY MarkerFrames DEF SInv, CInv
<1>2. /\ up /\ up' /\ is_shutdown' = is_shutdown /\ segment_id' = segment_id
      /\ active_fd' = active_fd \/ (active_fd' = NoFile /\ is_shutdown)
  <2>1. CASE Sync
    BY <2>1 DEF Sync, catalogue
  <2>2. CASE Checkpoint
    BY <2>2 DEF Checkpoint, catalogue
  <2>3. CASE ShutdownSeal
    BY <2>3 DEF ShutdownSeal
  <2> QED
    BY <2>1, <2>2, <2>3
<1>3. DiskType(disk) /\ DiskType(disk') /\ SealsBehind(disk)
  BY DEF SInv, CInv, IInv, TypeOK
<1> DEFINE d == disk'
<1>4. d = StoreFd(f, new, fs) /\ DiskType(d)
  BY <1>1, <1>3
<1> HIDE DEF d
<1>5. Written(d, f, new)
  BY <1>3, <1>4, StoreWritten
<1>6. SealsBehind(d)
  <2>1. CASE f = Unlinked
    BY <1>3, <1>4, <2>1 DEF StoreFd
  <2>2. CASE f # Unlinked
    <3>1. \A k \in DOMAIN new : new[k].kind \in {"SEAL", "SHUTDOWN"} => HeadedIn(disk, f)
      BY <1>1, <1>2, <2>2 DEF SInv, Has
    <3> QED
      BY <1>3, <1>4, <3>1, WriteSeals
  <2> QED
    BY <2>1, <2>2
<1>7. \A g : HeadedIn(d, g) => HeadedIn(disk, g)
  BY <1>1, <1>5 DEF HeadedIn, Written, Has
<1>8. \A g : HeadedIn(disk, g) => HeadedIn(d, g)
  BY <1>5 DEF HeadedIn, Written
<1>9. ~is_shutdown => \A g : ClosedIn(d, g) => ClosedIn(disk, g)
  BY <1>1, <1>5 DEF ClosedIn, IsClosing, Written, Has
<1>10. ClosedKept
  <2> SUFFICES ASSUME NEW g \in DOMAIN disk, NEW i \in DOMAIN d[g].frames,
                      i > Len(disk[g].frames), d[g].frames[i].kind = "ROW"
               PROVE  FALSE
    BY DEF ClosedKept, d
  <2>1. \E k \in DOMAIN new : d[g].frames[i] = new[k]
    BY <1>3, <1>4, StoreTail DEF TailOf
  <2> QED
    BY <1>1, <2>1 DEF Has
<1>11. CInv'
  BY NextCInv DEF SInv, Next
<1>12. active_fd' \in FileName => HeadedIn(d, active_fd')
  BY <1>2, <1>8 DEF SInv, NoFile, FileName
<1> QED
  BY <1>2, <1>6, <1>7, <1>9, <1>10, <1>11, <1>12 DEF SInv, d

LEMMA PruneSealed == Faults \subseteq {"power"} /\ SInv /\ IInv' /\ Prune => SInv' /\ ClosedKept
<1> SUFFICES ASSUME Faults \subseteq {"power"}, SInv, IInv', Prune PROVE SInv' /\ ClosedKept
  OBVIOUS
<1>1. PICK files :
        /\ disk' = [f \in DOMAIN disk \ files |-> disk[f]]
        /\ active_fd' = IF active_fd \in files THEN Unlinked ELSE active_fd
  BY DEF Prune
<1>2. up /\ UNCHANGED <<up, is_shutdown, segment_id>>
  BY DEF Prune
<1>3. /\ \A f, i : FrameIn(disk', f, i) => FrameIn(disk, f, i) /\ disk'[f].frames[i] = disk[f].frames[i]
      /\ \A f, i : f \notin files /\ FrameIn(disk, f, i) =>
           FrameIn(disk', f, i) /\ disk'[f].frames[i] = disk[f].frames[i]
  BY <1>1 DEF FrameIn
<1>4. DiskType(disk) /\ DiskType(disk') /\ SealsBehind(disk)
  BY DEF SInv, CInv, IInv, TypeOK
<1>5. SealsBehind(disk')
  BY <1>3, <1>4, FewerSeals
<1>6. \A g : (HeadedIn(disk', g) => HeadedIn(disk, g)) /\ (ClosedIn(disk', g) => ClosedIn(disk, g))
  BY <1>3 DEF HeadedIn, ClosedIn, IsClosing
<1>7. active_fd' \in FileName => active_fd' = active_fd /\ HeadedIn(disk', active_fd')
  <2>1. Unlinked \notin FileName
    BY DEF Unlinked, FileName
  <2> SUFFICES ASSUME active_fd' \in FileName
               PROVE  active_fd' = active_fd /\ HeadedIn(disk', active_fd')
    OBVIOUS
  <2>2. active_fd' = active_fd /\ active_fd \notin files
    BY <1>1, <2>1
  <2>3. PICK i : FrameIn(disk, active_fd, i) /\ disk[active_fd].frames[i].kind = "HEADER"
    BY <1>2, <2>2 DEF SInv, HeadedIn
  <2> QED
    BY <1>3, <2>2, <2>3 DEF HeadedIn
<1>8. \A g : ClosedIn(disk', g) => g \in FileName
  BY <1>4 DEF ClosedIn, IsClosing, FrameIn, DiskType
<1>9. Unlinked \notin FileName /\ Unlinked # NoFile
  BY DEF Unlinked, FileName, NoFile
<1>10. active_fd' \in {active_fd, Unlinked}
  BY <1>1
<1>11. ~is_shutdown => \A g : ClosedIn(disk', g) =>
         g # active_fd' /\ (active_fd' = NoFile => g.id < segment_id)
  BY <1>2, <1>6, <1>8, <1>9, <1>10 DEF SInv
<1>12. ClosedKept
  <2>1. \A f \in DOMAIN disk \cap DOMAIN disk' :
          disk'[f].frames = disk[f].frames /\ disk[f].frames \in Seq(Frame)
    BY <1>1, <1>4 DEF DiskType, File
  <2>2. \A s \in Seq(Frame) : \A i \in DOMAIN s : ~(i > Len(s))
    OBVIOUS
  <2> QED
    BY <2>1, <2>2 DEF ClosedKept
<1>13. CInv'
  BY NextCInv DEF SInv, Next
<1> QED
  BY <1>2, <1>5, <1>6, <1>7, <1>11, <1>12, <1>13 DEF SInv

LEMMA QuietSealed == SInv /\ CInv' /\ Quiet => SInv' /\ ClosedKept
<1> SUFFICES ASSUME SInv, CInv', Quiet PROVE SInv' /\ ClosedKept
  OBVIOUS
<1>1. UNCHANGED <<disk, up, active_fd, segment_id>> /\ (is_shutdown => is_shutdown')
  BY QuietActions
<1>2. is_shutdown' \in BOOLEAN /\ is_shutdown \in BOOLEAN
  BY DEF CInv, SInv, IInv, TypeOK, FlagsType
<1>3. ClosedKept
  <2>1. \A f \in DOMAIN disk : disk[f].frames \in Seq(Frame)
    BY DEF SInv, CInv, IInv, TypeOK, DiskType, File
  <2>2. \A s \in Seq(Frame) : \A i \in DOMAIN s : ~(i > Len(s))
    OBVIOUS
  <2> QED
    BY <1>1, <2>1, <2>2 DEF ClosedKept
<1> QED
  BY <1>1, <1>2, <1>3 DEF SInv

\* What the decoder leaves of a file is exactly its frames that can be decoded.
LEMMA KeptFrames ==
    ASSUME DiskType(disk), NEW f \in DOMAIN disk
    PROVE  /\ Kept(f) \in Seq(Frame) /\ Len(Kept(f)) <= Len(disk[f].frames)
           /\ \A i \in DOMAIN Kept(f) : FrameIn(disk, f, i) /\ Kept(f)[i] = disk[f].frames[i]
           /\ \A i : FrameIn(disk, f, i) => i \in DOMAIN Kept(f)
<1> DEFINE s == disk[f].frames
<1>1. s \in Seq(Frame) /\ Kept(f) = Decodable(s)
  BY DEF DiskType, File, Kept
<1> HIDE DEF s
<1>2. /\ Kept(f) \in Seq(Frame) /\ Len(Kept(f)) <= Len(s)
      /\ \A i \in 1 .. Len(Kept(f)) : Kept(f)[i] = s[i] /\ s[i].kind # "TORN"
      /\ \A i : Live(s, i) => i \in 1 .. Len(Kept(f))
  BY <1>1, DecodablePrefix
<1>3. \A i \in DOMAIN Kept(f) : Live(s, i)
  BY <1>1, <1>2 DEF Live
<1> QED
  BY <1>2, <1>3 DEF FrameIn, s

LEMMA KeptHas ==
    ASSUME DiskType(disk), NEW f \in DOMAIN disk
    PROVE  /\ Has(Kept(f), {"HEADER"}) <=> HeadedIn(disk, f)
           /\ Has(Kept(f), {"SEAL", "SHUTDOWN"}) <=> ClosedIn(disk, f)
<1>1. /\ \A i \in DOMAIN Kept(f) : FrameIn(disk, f, i) /\ Kept(f)[i] = disk[f].frames[i]
      /\ \A i : FrameIn(disk, f, i) => i \in DOMAIN Kept(f)
  BY KeptFrames
<1> QED
  BY <1>1 DEF Has, HeadedIn, ClosedIn, IsClosing

\* Truncation removes what could not be decoded, and nothing else.
LEMMA TruncateFrames ==
    ASSUME IInv, NEW cut \in SUBSET Damaged, NEW fs \in BOOLEAN, Truncate(cut, fs)
    PROVE  /\ DOMAIN disk' = DOMAIN disk
           /\ \A f, i : FrameIn(disk', f, i) <=> FrameIn(disk, f, i)
           /\ \A f, i : FrameIn(disk, f, i) => disk'[f].frames[i] = disk[f].frames[i]
           /\ \A f \in DOMAIN disk : disk'[f].frames \in Seq(Frame)
                                      /\ Len(disk'[f].frames) <= Len(disk[f].frames)
<1>1. DiskType(disk) /\ cut \subseteq DOMAIN disk
  BY DEF IInv, TypeOK, Damaged
<1>2. /\ DOMAIN disk' = DOMAIN disk
      /\ \A f \in DOMAIN disk : disk'[f].frames = IF f \in cut THEN Kept(f) ELSE disk[f].frames
  BY DEF Truncate
<1>3. \A f, i : FrameIn(disk', f, i)
         => FrameIn(disk, f, i) /\ disk'[f].frames[i] = disk[f].frames[i]
  BY <1>1, TruncateStep
<1>4. ASSUME NEW f, NEW i, FrameIn(disk, f, i) PROVE FrameIn(disk', f, i)
  <2>1. f \in DOMAIN disk
    BY <1>4 DEF FrameIn
  <2>2. CASE f \notin cut
    BY <1>2, <1>4, <2>1, <2>2 DEF FrameIn
  <2>3. CASE f \in cut
    <3>1. /\ Kept(f) \in Seq(Frame)
          /\ \A j \in DOMAIN Kept(f) : FrameIn(disk, f, j) /\ Kept(f)[j] = disk[f].frames[j]
          /\ \A j : FrameIn(disk, f, j) => j \in DOMAIN Kept(f)
      BY <1>1, <2>1, KeptFrames
    <3>2. i \in Nat /\ i >= 1 /\ \A j \in 1 .. i : FrameIn(disk, f, j)
      BY <1>1, <1>4, FrameBefore
    <3>3. \A j \in 1 .. i : Kept(f)[j].kind # "TORN"
      <4> SUFFICES ASSUME NEW j \in 1 .. i PROVE Kept(f)[j].kind # "TORN"
        OBVIOUS
      <4>1. FrameIn(disk, f, j) /\ j \in 1 .. j
        BY <3>2
      <4>2. disk[f].frames[j].kind # "TORN"
        BY <4>1 DEF FrameIn, Live
      <4> QED
        BY <3>1, <4>1, <4>2
    <3>4. Live(Kept(f), i)
      BY <1>4, <3>1, <3>3 DEF Live
    <3> QED
      BY <1>2, <2>1, <2>3, <3>4 DEF FrameIn
  <2> QED
    BY <2>2, <2>3
<1>5. \A f \in DOMAIN disk : disk'[f].frames \in Seq(Frame)
         /\ Len(disk'[f].frames) <= Len(disk[f].frames)
  <2> SUFFICES ASSUME NEW f \in DOMAIN disk
               PROVE  disk'[f].frames \in Seq(Frame) /\ Len(disk'[f].frames) <= Len(disk[f].frames)
    OBVIOUS
  <2>1. disk[f].frames \in Seq(Frame)
    BY <1>1 DEF DiskType, File
  <2> QED
    BY <1>1, <1>2, <2>1, KeptFrames
<1> QED
  BY <1>2, <1>3, <1>4, <1>5

\* No file grows.
LEMMA ShorterKept ==
    ASSUME \A f \in DOMAIN disk \cap DOMAIN disk' :
              /\ disk'[f].frames \in Seq(Frame)
              /\ disk[f].frames \in Seq(Frame)
              /\ Len(disk'[f].frames) <= Len(disk[f].frames)
    PROVE  ClosedKept
<1>1. \A s, t \in Seq(Frame) : Len(s) <= Len(t) => \A i \in DOMAIN s : ~(i > Len(t))
  OBVIOUS
<1> QED
  BY <1>1 DEF ClosedKept

LEMMA RecoverSealed == SInv /\ CInv' /\ Recover => SInv' /\ ClosedKept
<1> SUFFICES ASSUME SInv, CInv', Recover PROVE SInv' /\ ClosedKept
  OBVIOUS
<1>1. PICK cut \in SUBSET Damaged, fs \in FsyncOutcome : Truncate(cut, fs)
  BY DEF Recover
<1>2. /\ DOMAIN disk' = DOMAIN disk
      /\ \A f, i : FrameIn(disk', f, i) <=> FrameIn(disk, f, i)
      /\ \A f, i : FrameIn(disk, f, i) => disk'[f].frames[i] = disk[f].frames[i]
      /\ \A f \in DOMAIN disk : disk'[f].frames \in Seq(Frame)
                                 /\ Len(disk'[f].frames) <= Len(disk[f].frames)
  BY <1>1, OutcomeType, TruncateFrames DEF SInv, CInv
<1>3. DiskType(disk) /\ DiskType(disk') /\ SealsBehind(disk)
      /\ \A f \in DOMAIN disk : disk[f].frames \in Seq(Frame)
  BY DEF SInv, CInv, IInv, TypeOK, DiskType, File
<1>4. ClosedKept
  BY <1>2, <1>3, ShorterKept
<1>5. SealsBehind(disk')
  BY <1>2, <1>3, FewerSeals
<1>6. \A f : (HeadedIn(disk', f) => f \in Headed) /\ (ClosedIn(disk', f) => f \in Headed \ Open)
  <2>1. \A f : HeadedIn(disk', f) => f \in DOMAIN disk /\ HeadedIn(disk, f)
    BY <1>2 DEF HeadedIn, FrameIn
  <2>2. \A f : ClosedIn(disk', f) => f \in DOMAIN disk /\ ClosedIn(disk, f) /\ HeadedIn(disk', f)
    BY <1>2, <1>5 DEF ClosedIn, IsClosing, HeadedIn, SealsBehind, FrameIn
  <2>3. \A f : HeadedIn(disk', f) => f \in Headed
    BY <1>3, <2>1, KeptHas DEF Headed
  <2> QED
    BY <1>3, <2>2, <2>3, KeptHas DEF Open
<1>7. \A f \in Open : f \in FileName /\ HeadedIn(disk', f)
  <2>1. \A f \in Open : f \in DOMAIN disk /\ f \in FileName /\ HeadedIn(disk, f)
    BY <1>3, KeptHas DEF Open, Headed, DiskType
  <2> QED
    BY <1>2, <2>1 DEF HeadedIn
<1>8. Headed \subseteq FileName
  BY <1>3 DEF Headed, DiskType
<1>9. NoFile \notin FileName
  BY DEF NoFile, FileName
<1>10. CASE Headed = {}
  <2>1. active_fd' = NoFile
    BY <1>10 DEF Recover
  <2> QED
    BY <1>4, <1>5, <1>6, <1>9, <1>10, <2>1 DEF SInv
<1>11. CASE Headed # {} /\ Open = {}
  <2>1. active_fd' = NoFile
    BY <1>11 DEF Recover
  <2>2. PICK f \in Headed : IsMaxId(f) /\ segment_id' = f.id + 1
    BY <1>11 DEF Recover
  <2>3. \A g \in Headed : g.id < segment_id' /\ g.id <= segment_id'
    BY <1>8, <2>2 DEF IsMaxId, FileName
  <2> QED
    BY <1>4, <1>5, <1>6, <1>8, <1>9, <2>1, <2>3 DEF SInv
<1>12. CASE Open # {}
  <2>1. active_fd' \in Open
    BY <1>12 DEF Recover, Open
  <2>2. PICK f \in Headed : IsMaxId(f) /\ segment_id' = f.id
    BY <1>12 DEF Recover, Open
  <2>3. \A g \in Headed : g.id <= segment_id'
    BY <2>2 DEF IsMaxId
  <2> QED
    BY <1>4, <1>5, <1>6, <1>7, <1>9, <2>1, <2>3 DEF SInv
<1> QED
  BY <1>10, <1>11, <1>12

\* A call cut short.
LEMMA InterruptedSealed ==
    ASSUME SInv, DiskType(disk'), NEW f \in FileName \cup {Unlinked}, NEW w \in Seq(Frame),
           Interrupted(f, w),
           f # Unlinked => \A k \in DOMAIN w : w[k].kind \in {"SEAL", "SHUTDOWN"} =>
              HeadedIn(disk, f) \/ (k # 1 /\ w[1].kind \in {"HEADER", "TORN"}),
           ~ClosedIn(disk, f) \/ ~Has(w, {"ROW"})
    PROVE  SealsBehind(disk') /\ ClosedKept
<1>1. PICK t \in 0 .. Len(w), torn \in BOOLEAN :
        disk' = StoreFd(f, SubSeq(w, 1, t) \o (IF torn THEN <<Torn>> ELSE <<>>), FALSE)
  BY DEF Interrupted
<1> DEFINE p == SubSeq(w, 1, t) \o (IF torn THEN <<Torn>> ELSE <<>>)
           d == disk'
<1>2. p \in Seq(Frame) /\ \A i \in DOMAIN p : (i \in DOMAIN w /\ p[i] = w[i]) \/ p[i].kind = "TORN"
  BY PrefixFrames
<1>3. d = StoreFd(f, p, FALSE) /\ FALSE \in BOOLEAN /\ DiskType(d)
  BY <1>1
<1>4. DiskType(disk) /\ SealsBehind(disk)
  BY DEF SInv, CInv, IInv, TypeOK
<1> HIDE DEF p, d
<1>5. SealsBehind(d)
  <2>1. CASE f = Unlinked
    BY <1>3, <1>4, <2>1 DEF StoreFd
  <2>2. CASE f # Unlinked
    <3>1. ASSUME NEW k \in DOMAIN p, p[k].kind \in {"SEAL", "SHUTDOWN"}
          PROVE  HeadedIn(disk, f) \/ (k # 1 /\ p[1].kind \in {"HEADER", "TORN"})
      <4>1. k \in DOMAIN w /\ p[k] = w[k] /\ 1 \in DOMAIN p
        BY <1>2, <3>1
      <4>2. p[1] = w[1] \/ p[1].kind = "TORN"
        BY <1>2, <4>1
      <4>3. HeadedIn(disk, f) \/ (k # 1 /\ w[1].kind \in {"HEADER", "TORN"})
        BY <2>2, <3>1, <4>1
      <4> QED
        BY <4>2, <4>3
    <3> QED
      BY <1>2, <1>3, <1>4, <3>1, WriteSeals
  <2> QED
    BY <2>1, <2>2
<1>6. ClosedKept
  <2> SUFFICES ASSUME NEW g \in DOMAIN disk, ClosedIn(disk, g), NEW i \in DOMAIN d[g].frames,
                      i > Len(disk[g].frames), d[g].frames[i].kind = "ROW"
               PROVE  FALSE
    BY DEF ClosedKept, d
  <2>1. g = f /\ \E k \in DOMAIN p : d[g].frames[i] = p[k]
    <3>1. PICK fs \in BOOLEAN : d = StoreFd(f, p, fs)
      BY <1>3
    <3>2. p \in Seq(Frame) /\ DiskType(disk)
      BY <1>2, <1>4
    <3>3. TailOf(d, f, p)
      BY <3>1, <3>2, StoreTail
    <3> QED
      BY <3>3 DEF TailOf
  <2> QED
    BY <1>2, <2>1 DEF Has
<1> QED
  BY <1>5, <1>6 DEF d

LEMMA CrashInAppendSealed ==
    "write" \notin Faults /\ SInv /\ IInv' /\ CrashInAppend => SealsBehind(disk') /\ ClosedKept
<1> SUFFICES ASSUME "write" \notin Faults, SInv, IInv', CrashInAppend
             PROVE  SealsBehind(disk') /\ ClosedKept
  OBVIOUS
<1> DEFINE o == AfterOpen("ok")
           full == <<Fr("SEAL", o.lsn + 1, 0)>>
           none == <<>>
           seal == IF o.space + 1 >= MaxSegSize THEN full ELSE none
           w == o.wrote \o <<Row(o.lsn)>> \o seal
<1>1. up /\ ~is_shutdown /\ Interrupted(o.file, w)
  BY DEF CrashInAppend, Down
<1>2. o.lsn + 1 \in Nat
  BY AfterOpenType DEF SInv, CInv, IInv, WriteOutcome
<1>3. seal \in Seq(Frame) /\ \A j \in DOMAIN seal : seal[j].kind = "SEAL"
  <2>1. full \in Seq(Frame) /\ \A j \in DOMAIN full : full[j].kind = "SEAL"
    <3>1. Fr("SEAL", o.lsn + 1, 0) \in Frame /\ Fr("SEAL", o.lsn + 1, 0).kind = "SEAL"
      BY <1>2, FrameType DEF Kinds, Fr
    <3> QED
      BY <3>1
  <2>2. none \in Seq(Frame) /\ \A j \in DOMAIN none : none[j].kind = "SEAL"
    OBVIOUS
  <2> HIDE DEF full, none
  <2> QED
    BY <2>1, <2>2
<1>4. o = AfterOpen("ok")
  OBVIOUS
<1> HIDE DEF o, seal
<1>5. o.file \in FileName \cup {Unlinked} /\ Appended(o, seal, w)
  BY <1>3, <1>4, AppendFrames DEF SInv, CInv
<1> HIDE DEF w
<1>6. /\ ~ClosedIn(disk, o.file)
      /\ active_fd # NoFile => o.file = active_fd /\ (o.file # Unlinked => HeadedIn(disk, o.file))
  BY <1>1, <1>4, <1>5, TargetOpen
<1>7. o.file # Unlinked => \A k \in DOMAIN w : w[k].kind \in {"SEAL", "SHUTDOWN"} =>
         HeadedIn(disk, o.file) \/ (k # 1 /\ w[1].kind \in {"HEADER", "TORN"})
  BY <1>5, <1>6 DEF Appended
<1>8. DiskType(disk') /\ w \in Seq(Frame)
  BY <1>5 DEF IInv, TypeOK, Appended
<1> DEFINE f == o.file
<1>9. /\ f \in FileName \cup {Unlinked} /\ Interrupted(f, w) /\ ~ClosedIn(disk, f)
      /\ f # Unlinked => \A k \in DOMAIN w : w[k].kind \in {"SEAL", "SHUTDOWN"} =>
           HeadedIn(disk, f) \/ (k # 1 /\ w[1].kind \in {"HEADER", "TORN"})
  BY <1>1, <1>5, <1>6, <1>7
<1> HIDE DEF f
<1> QED
  BY <1>8, <1>9, InterruptedSealed

LEMMA CrashInMarkerSealed ==
    SInv /\ IInv' /\ (CrashInCheckpoint \/ CrashInShutdown) => SealsBehind(disk') /\ ClosedKept
<1> SUFFICES ASSUME SInv, IInv', CrashInCheckpoint \/ CrashInShutdown
             PROVE  SealsBehind(disk') /\ ClosedKept
  OBVIOUS
<1>1. DiskType(disk') /\ next_lsn \in Nat
  BY DEF SInv, CInv, IInv, TypeOK, CatalogueType
<1>2. ASSUME NEW f \in FileName \cup {Unlinked}, NEW kind \in {"CHECKPOINT", "SHUTDOWN"},
             Interrupted(f, <<Fr(kind, next_lsn, 0)>>),
             kind = "SHUTDOWN" /\ f # Unlinked => HeadedIn(disk, f)
      PROVE  SealsBehind(disk') /\ ClosedKept
  <2> DEFINE fr == Fr(kind, next_lsn, 0)
             w == <<fr>>
  <2>1. fr \in Frame /\ fr.kind = kind
    BY <1>1, FrameType DEF Kinds, Fr
  <2> HIDE DEF fr
  <2>2. w \in Seq(Frame) /\ \A k \in DOMAIN w : w[k].kind = kind
    BY <2>1
  <2>3. Interrupted(f, w)
    BY <1>2 DEF fr
  <2> HIDE DEF w
  <2>4. f # Unlinked => \A k \in DOMAIN w : w[k].kind \in {"SEAL", "SHUTDOWN"} =>
           HeadedIn(disk, f) \/ (k # 1 /\ w[1].kind \in {"HEADER", "TORN"})
    BY <1>2, <2>2
  <2>5. ~Has(w, {"ROW"})
    BY <2>2 DEF Has
  <2> QED
    BY <1>1, <2>2, <2>3, <2>4, <2>5, InterruptedSealed
<1>3. CASE CrashInCheckpoint
  <2>1. [id |-> segment_id, base |-> current_base_lsn] \in FileName
    BY DEF SInv, CInv, IInv, TypeOK, CatalogueType, FileName
  <2>2. Interrupted([id |-> segment_id, base |-> current_base_lsn],
                    <<Fr("CHECKPOINT", next_lsn, 0)>>)
    BY <1>3 DEF CrashInCheckpoint
  <2> QED
    BY <1>2, <2>1, <2>2
<1>4. CASE CrashInShutdown
  <2>1. active_fd \in FileName \cup {Unlinked} /\ (active_fd # Unlinked => HeadedIn(disk, active_fd))
    BY <1>4 DEF SInv, CInv, IInv, TypeOK, CatalogueType, CrashInShutdown, Down
  <2>2. Interrupted(active_fd, <<Fr("SHUTDOWN", next_lsn, 0)>>)
    BY <1>4 DEF CrashInShutdown
  <2> QED
    BY <1>2, <2>1, <2>2
<1> QED
  BY <1>3, <1>4

\* Power loss leaves no file longer than it was.
LEMMA PowerLossShorter ==
    ASSUME IInv, PowerLoss
    PROVE  \A f \in DOMAIN disk \cap DOMAIN disk' :
              /\ disk'[f].frames \in Seq(Frame)
              /\ disk[f].frames \in Seq(Frame)
              /\ Len(disk'[f].frames) <= Len(disk[f].frames)
<1> SUFFICES ASSUME NEW f \in DOMAIN disk \cap DOMAIN disk'
             PROVE  /\ disk'[f].frames \in Seq(Frame)
                    /\ disk[f].frames \in Seq(Frame)
                    /\ Len(disk'[f].frames) <= Len(disk[f].frames)
  OBVIOUS
<1>1. PICK k, torn :
        /\ \A g \in Unsynced : k[g] \in disk[g].synced .. Len(disk[g].frames)
        /\ \A g \in torn : k[g] < Len(disk[g].frames)
        /\ disk' = [g \in DOMAIN disk |->
             IF g \notin Unsynced THEN disk[g]
             ELSE LET left == SubSeq(disk[g].frames, 1, k[g])
                              \o (IF g \in torn THEN <<Torn>> ELSE <<>>)
                  IN  [frames |-> left, synced |-> Len(left)]]
  BY DEF PowerLoss
<1>2. disk[f].frames \in Seq(Frame) /\ disk[f].synced \in Nat
  BY DEF IInv, TypeOK, DiskType, File
<1>3. CASE f \notin Unsynced
  BY <1>1, <1>2, <1>3
<1>4. CASE f \in Unsynced
  <2> DEFINE s == disk[f].frames
             n == k[f]
             isTorn == f \in torn
             left == SubSeq(s, 1, n) \o (IF isTorn THEN <<Torn>> ELSE <<>>)
  <2>1. disk'[f].frames = left
    BY <1>1, <1>4
  <2>2. s \in Seq(Frame) /\ n \in 0 .. Len(s) /\ (isTorn => n < Len(s))
    BY <1>1, <1>2, <1>4
  <2>3. Torn \in Frame
    BY FrameType
  <2> HIDE DEF s, n, isTorn
  <2>4. SubSeq(s, 1, n) \in Seq(Frame) /\ Len(SubSeq(s, 1, n)) = n
    BY <2>2
  <2>5. left \in Seq(Frame) /\ Len(left) <= Len(s)
    <3>1. CASE isTorn
      BY <2>2, <2>3, <2>4, <3>1
    <3>2. CASE ~isTorn
      BY <2>2, <2>4, <3>2
    <3> QED
      BY <3>1, <3>2
  <2> QED
    BY <1>2, <2>1, <2>5 DEF s
<1> QED
  BY <1>3, <1>4

LEMMA StopSealed ==
    Faults \subseteq {"power"} /\ SInv /\ IInv' /\ CInv' /\ Stop => SInv' /\ ClosedKept
<1> SUFFICES ASSUME Faults \subseteq {"power"}, SInv, IInv', CInv', Stop PROVE SInv' /\ ClosedKept
  OBVIOUS
<1>1. ~up'
  BY DEF Stop, ProcessEnds, CrashInAppend, CrashInCheckpoint, CrashInShutdown, CrashInRecovery,
         PowerLoss, Down
<1>2. DiskType(disk) /\ DiskType(disk') /\ SealsBehind(disk) /\ IInv
      /\ \A f \in DOMAIN disk : disk[f].frames \in Seq(Frame)
  BY DEF SInv, CInv, IInv, TypeOK, DiskType, File
<1>3. SealsBehind(disk') /\ ClosedKept
  <2>1. CASE ProcessEnds
    <3>1. disk' = disk
      BY <2>1 DEF ProcessEnds
    <3>2. \A f \in DOMAIN disk : Len(disk[f].frames) <= Len(disk[f].frames)
      BY <1>2
    <3> QED
      BY <1>2, <3>1, <3>2, ShorterKept
  <2>2. CASE CrashInAppend
    BY <2>2, CrashInAppendSealed
  <2>3. CASE CrashInCheckpoint \/ CrashInShutdown
    BY <2>3, CrashInMarkerSealed
  <2>4. CASE CrashInRecovery
    <3>1. PICK cut \in SUBSET Damaged : Truncate(cut, TRUE)
      BY <2>4 DEF CrashInRecovery
    <3>2. /\ DOMAIN disk' = DOMAIN disk
          /\ \A f, i : FrameIn(disk', f, i) <=> FrameIn(disk, f, i)
          /\ \A f, i : FrameIn(disk, f, i) => disk'[f].frames[i] = disk[f].frames[i]
          /\ \A f \in DOMAIN disk : disk'[f].frames \in Seq(Frame)
                                     /\ Len(disk'[f].frames) <= Len(disk[f].frames)
      BY <1>2, <3>1, TruncateFrames
    <3> QED
      BY <1>2, <3>2, FewerSeals, ShorterKept
  <2>5. CASE PowerLoss
    <3>1. \A f, i : FrameIn(disk', f, i)
                => FrameIn(disk, f, i) /\ disk'[f].frames[i] = disk[f].frames[i]
      BY <1>2, <2>5, PowerLossFrames
    <3>2. SealsBehind(disk')
      BY <1>2, <3>1, FewerSeals
    <3> QED
      BY <1>2, <2>5, <3>2, PowerLossShorter, ShorterKept
  <2> QED
    BY <2>1, <2>2, <2>3, <2>4, <2>5 DEF Stop
<1> QED
  BY <1>1, <1>3 DEF SInv

\* Where neither a write nor an fsync fails, no segment that carries its seal or the shutdown
\* seal takes another row, whatever crashes, power losses, restarts and prunings there are:
\* recovery does not reopen it, and no rollover comes back to its name.
THEOREM SealedStayClosed == Faults \subseteq {"power"} => (Spec => SealedSegmentsTakeNoRows)
<1> SUFFICES ASSUME Faults \subseteq {"power"} PROVE Spec => SealedSegmentsTakeNoRows
  OBVIOUS
<1>1. Init => SInv
  <2> SUFFICES ASSUME Init PROVE SInv
    OBVIOUS
  <2>1. CInv
    BY InitIInv DEF CInv, Init
  <2> QED
    BY <2>1 DEF SInv, Init, SealsBehind, IsClosing, FrameIn
<1>2. SInv /\ IInv' /\ [Next]_vars => SInv' /\ ClosedKept
  <2> SUFFICES ASSUME SInv, IInv', [Next]_vars PROVE SInv' /\ ClosedKept
    OBVIOUS
  <2>1. CInv'
    BY NextCInv DEF SInv
  <2> QED
    BY <2>1, AppendSealed, MarkersSealed, PruneSealed, QuietSealed, RecoverSealed, StopSealed
       DEF Next, Quiet
<1>3. SInv /\ ClosedKept =>
        \A f \in DOMAIN disk \cap DOMAIN disk' :
          Sealed(f) => \A i \in DOMAIN disk'[f].frames :
             i > Len(disk[f].frames) => disk'[f].frames[i].kind # "ROW"
  BY KeptHas DEF ClosedKept, Sealed, SInv, CInv, IInv, TypeOK
<1> QED
  BY <1>1, <1>2, <1>3, Invariance, PTL DEF Spec, SealedSegmentsTakeNoRows

-----------------------------------------------------------------------------
(* Rows without an fsync.                                                  *)

\* The file append writes to, opened or not.
Current == IF active_fd = NoFile THEN [id |-> segment_id, base |-> current_base_lsn] ELSE active_fd

\* Row i of file f, written by this WAL object, is not covered by an fsync.
Exposed(f, i) ==
    RowIn(disk, f, i) /\ i > disk[f].synced /\ boot_lsn <= disk[f].frames[i].lsn

RowsPositive(d) == \A f, i : RowIn(d, f, i) => d[f].frames[i].lsn > 0

(* sync moves durable_lsn up to the last LSN given, and it covers active_fd alone; so rows   *)
(* without an fsync must lie in the current file, unless shutdown has closed it for good.    *)
DInv ==
    /\ IInv
    /\ RowsPositive(disk)
    /\ ~up => durable_lsn = 0
    /\ up => /\ \A f, i : Exposed(f, i) =>
                  /\ durable_lsn < disk[f].frames[i].lsn
                  /\ f = Current \/ (is_shutdown /\ active_fd = NoFile)
             /\ durable_lsn <= LastLsn(next_lsn)
             /\ active_fd # NoFile => next_lsn > 0

\* After a failed fsync at a rollover append returns to the segment it has closed: the one the
\* catalogue names must be the one that was open.
ActiveCurrent ==
    active_fd \in {NoFile, Unlinked, [id |-> segment_id, base |-> current_base_lsn]}

LEMMA RowsAreFrames ==
    ASSUME NEW d, DiskType(d), NEW f, NEW i, RowIn(d, f, i)
    PROVE  /\ FrameIn(d, f, i) /\ d[f].frames[i].kind = "ROW" /\ d[f].frames[i].lsn \in Nat
           /\ i \in Nat /\ f \in FileName
<1>1. f \in DOMAIN d /\ f \in FileName /\ d[f].frames \in Seq(Frame) /\ i \in DOMAIN d[f].frames
  BY DEF RowIn, Live, DiskType, File
<1>2. d[f].frames[i] \in Frame /\ i \in Nat
  BY <1>1
<1> QED
  BY <1>1, <1>2 DEF RowIn, FrameIn, Frame

\* The LSN of the next row is above durable_lsn.
LEMMA DurableBelow ==
    ASSUME DInv, up
    PROVE  NextRow \in Nat /\ NextRow > 0 /\ durable_lsn < NextRow /\ durable_lsn \in Nat
           /\ next_lsn \in Nat
<1>1. next_lsn \in Nat /\ durable_lsn \in Nat
  BY DEF DInv, IInv, TypeOK, CatalogueType
<1> QED
  BY <1>1 DEF DInv, NextRow, LastLsn

\* How a write moves what the fsyncs cover.
SyncedBy(d, f, fs) ==
    /\ \A g \in DOMAIN disk : ~(fs /\ g = f) => d[g].synced = disk[g].synced
    /\ fs /\ f # Unlinked => d[f].synced = Len(d[f].frames)

LEMMA StoreSynced ==
    ASSUME DiskType(disk), NEW f \in FileName \cup {Unlinked}, NEW new \in Seq(Frame),
           NEW fs \in BOOLEAN, NEW d, d = StoreFd(f, new, fs)
    PROVE  SyncedBy(d, f, fs)
<1>1. CASE f = Unlinked
  <2>1. d = disk /\ Unlinked \notin DOMAIN disk
    BY <1>1 DEF StoreFd, DiskType, FileName, Unlinked
  <2> QED
    BY <1>1, <2>1 DEF SyncedBy
<1>2. CASE f # Unlinked
  BY <1>2 DEF StoreFd, Store, SyncedBy
<1> QED
  BY <1>1, <1>2

\* After a write, what is not covered was so before or is among what was written.
LEMMA WriteExposes ==
    ASSUME DInv, up, NEW f \in FileName \cup {Unlinked}, NEW new \in Seq(Frame),
           NEW fs \in BOOLEAN, disk' = StoreFd(f, new, fs), DiskType(disk'), boot_lsn' = boot_lsn,
           NEW m \in Nat, OneRow(new, NextRow, m)
    PROVE  /\ RowsPositive(disk')
           /\ \A g, i : Exposed(g, i)' =>
                \/ /\ Exposed(g, i) /\ ~(fs /\ g = f)
                   /\ disk'[g].frames[i].lsn = disk[g].frames[i].lsn
                \/ /\ g = f /\ f # Unlinked /\ ~fs /\ ~NoRow(new)
                   /\ NextRow <= disk'[g].frames[i].lsn
<1> DEFINE d == disk'
<1>1. DiskType(disk) /\ DiskType(d) /\ d = StoreFd(f, new, fs) /\ RowsPositive(disk)
  BY DEF DInv, IInv, TypeOK
<1>2. NextRow \in Nat /\ NextRow > 0
  BY DurableBelow
<1> HIDE DEF d
<1>3. Written(d, f, new) /\ SyncedBy(d, f, fs)
  BY <1>1, StoreWritten, StoreSynced
<1>4. ASSUME NEW g, NEW i, RowIn(d, g, i)
      PROVE  \/ RowIn(disk, g, i) /\ d[g].frames[i] = disk[g].frames[i]
             \/ g = f /\ f # Unlinked /\ ~NoRow(new) /\ NextRow <= d[g].frames[i].lsn
  <2>1. FrameIn(d, g, i) /\ d[g].frames[i].kind = "ROW"
    BY <1>4 DEF RowIn, FrameIn
  <2>2. CASE FrameIn(disk, g, i) /\ d[g].frames[i] = disk[g].frames[i]
    BY <2>1, <2>2 DEF RowIn, FrameIn
  <2>3. CASE g = f /\ f # Unlinked /\ \E k \in DOMAIN new : d[g].frames[i] = new[k]
    BY <2>1, <2>3 DEF OneRow, NoRow
  <2> QED
    BY <1>3, <2>1, <2>2, <2>3 DEF Written
<1>5. RowsPositive(d)
  <2> SUFFICES ASSUME NEW g, NEW i, RowIn(d, g, i) PROVE d[g].frames[i].lsn > 0
    BY DEF RowsPositive
  <2>1. d[g].frames[i].lsn \in Nat
    BY <1>1, RowsAreFrames
  <2> QED
    BY <1>1, <1>2, <1>4, <2>1 DEF RowsPositive
<1>6. ASSUME NEW g, NEW i, RowIn(d, g, i), i > d[g].synced, boot_lsn <= d[g].frames[i].lsn
      PROVE  \/ /\ Exposed(g, i) /\ ~(fs /\ g = f)
                /\ d[g].frames[i].lsn = disk[g].frames[i].lsn
             \/ g = f /\ f # Unlinked /\ ~fs /\ ~NoRow(new) /\ NextRow <= d[g].frames[i].lsn
  <2>1. ~(fs /\ g = f)
    <3> SUFFICES ASSUME fs, g = f PROVE FALSE
      OBVIOUS
    <3>1. g # Unlinked /\ g \in DOMAIN d
      <4>1. Unlinked \notin FileName
        BY DEF FileName, Unlinked
      <4>2. g \in FileName
        BY <1>1, <1>6, RowsAreFrames
      <4> QED
        BY <1>6, <4>1, <4>2 DEF RowIn
    <3>2. i \in DOMAIN d[g].frames /\ d[g].frames \in Seq(Frame)
      BY <1>1, <1>6 DEF RowIn, Live, DiskType, File
    <3>3. d[g].synced = Len(d[g].frames)
      BY <1>3, <3>1 DEF SyncedBy
    <3> QED
      BY <1>6, <3>2, <3>3
  <2>2. CASE RowIn(disk, g, i) /\ d[g].frames[i] = disk[g].frames[i]
    <3>1. d[g].synced = disk[g].synced
      BY <1>3, <2>1, <2>2 DEF SyncedBy, RowIn
    <3> QED
      BY <1>6, <2>1, <2>2, <3>1 DEF Exposed
  <2>3. CASE g = f /\ f # Unlinked /\ ~NoRow(new) /\ NextRow <= d[g].frames[i].lsn
    BY <2>1, <2>3
  <2> QED
    BY <1>4, <1>6, <2>2, <2>3
<1> QED
  BY <1>5, <1>6 DEF d, Exposed

-----------------------------------------------------------------------------
(* append.                                                                 *)

\* What the disjuncts of append have in common.
LEMMA AppendTarget ==
    ASSUME DInv, AppendCall, NEW oh \in WriteOutcome, NEW o, o = AfterOpen(oh)
    PROVE  /\ up /\ up' /\ ~is_shutdown /\ is_shutdown' = is_shutdown /\ boot_lsn' = boot_lsn
           /\ o.file = Current /\ o.file # NoFile /\ o.file \in FileName \cup {Unlinked}
           /\ o.lsn \in Nat /\ o.lsn = NextRow
<1>1. up /\ up' /\ ~is_shutdown /\ is_shutdown' = is_shutdown /\ boot_lsn' = boot_lsn
  BY DEF AppendCall
<1>2. o.file \in FileName \cup {Unlinked} /\ o.lsn \in Nat
  BY AfterOpenType DEF DInv, IInv
<1>3. NoFile \notin FileName \cup {Unlinked}
  BY DEF NoFile, FileName, Unlinked
<1>4. o.lsn = NextRow
  BY AfterOpenSpan DEF DInv, IInv
<1>5. o.file = Current
  BY DEF AfterOpen, Current
<1> QED
  BY <1>1, <1>2, <1>3, <1>4, <1>5

\* After a write to the current file, all that is not covered lies in it, above durable_lsn; if
\* the write was synced, all is covered.
LEMMA CurrentExposes ==
    ASSUME DInv, up, ~is_shutdown, boot_lsn' = boot_lsn, DiskType(disk'),
           NEW f \in FileName \cup {Unlinked}, f = Current, f # NoFile,
           NEW new \in Seq(Frame), NEW m \in Nat, OneRow(new, NextRow, m), NEW fs \in BOOLEAN,
           disk' = StoreFd(f, new, fs)
    PROVE  /\ RowsPositive(disk')
           /\ \A g, i : Exposed(g, i)' =>
                durable_lsn < disk'[g].frames[i].lsn /\ g = f /\ f # Unlinked /\ ~fs
<1>1. /\ NextRow \in Nat /\ NextRow > 0 /\ durable_lsn < NextRow /\ durable_lsn \in Nat
      /\ next_lsn \in Nat
  BY DurableBelow
<1>2. /\ RowsPositive(disk')
      /\ \A g, i : Exposed(g, i)' =>
           \/ /\ Exposed(g, i) /\ ~(fs /\ g = f)
              /\ disk'[g].frames[i].lsn = disk[g].frames[i].lsn
           \/ g = f /\ f # Unlinked /\ ~fs /\ NextRow <= disk'[g].frames[i].lsn
  BY WriteExposes
<1>3. ASSUME NEW g, NEW i, Exposed(g, i)'
      PROVE  durable_lsn < disk'[g].frames[i].lsn /\ g = f /\ f # Unlinked /\ ~fs
  <2>1. disk'[g].frames[i].lsn \in Nat /\ g \in FileName
    BY <1>3, RowsAreFrames DEF Exposed
  <2>2. Unlinked \notin FileName
    BY DEF Unlinked, FileName
  <2>3. CASE Exposed(g, i) /\ ~(fs /\ g = f) /\ disk'[g].frames[i].lsn = disk[g].frames[i].lsn
    <3>1. durable_lsn < disk[g].frames[i].lsn /\ g = f
      BY <2>3 DEF DInv
    <3> QED
      BY <2>1, <2>2, <2>3, <3>1
  <2>4. CASE g = f /\ f # Unlinked /\ ~fs /\ NextRow <= disk'[g].frames[i].lsn
    BY <1>1, <2>1, <2>4
  <2> QED
    BY <1>2, <1>3, <2>3, <2>4
<1> QED
  BY <1>2, <1>3

LEMMA AppendFailsExposes == DInv /\ IInv' /\ AppendFails => DInv'
<1> SUFFICES ASSUME DInv, IInv', AppendFails PROVE DInv'
  OBVIOUS
<1>1. PICK oh \in WriteOutcome, ow \in WriteOutcome \ {"ok"} :
        LET o == AfterOpen(oh)
        IN  /\ disk' = StoreFd(o.file, o.wrote \o Bytes(Row(o.lsn), ow), FALSE)
            /\ active_fd' = o.file
            /\ next_lsn' = o.lsn
  BY DEF AppendFails
<1> DEFINE o == AfterOpen(oh)
           row == Bytes(Row(o.lsn), ow)
           new == o.wrote \o row
           f == o.file
<1>2. /\ up /\ up' /\ ~is_shutdown /\ is_shutdown' = is_shutdown /\ boot_lsn' = boot_lsn
      /\ f = Current /\ f # NoFile /\ f \in FileName \cup {Unlinked}
      /\ o.lsn \in Nat /\ o.lsn = NextRow /\ durable_lsn' = durable_lsn
  BY AppendTarget DEF AppendFails
<1>3. o.wrote \in Seq(Frame) /\ NoRow(o.wrote) /\ row \in Seq(Frame) /\ NoRow(row)
  BY <1>2, AfterOpenType, RowType, OutcomeType, BytesType DEF DInv, IInv
<1>4. disk' = StoreFd(f, new, FALSE) /\ active_fd' = f /\ next_lsn' = o.lsn
  BY <1>1
<1> HIDE DEF o, row
<1>5. new \in Seq(Frame) /\ OneRow(new, NextRow, NextRow)
  BY <1>3, NoRowConcat, NoRowOneRow
<1> HIDE DEF new, f
<1>6. DiskType(disk') /\ FALSE \in BOOLEAN
  BY DEF IInv, TypeOK
<1>7. NextRow \in Nat /\ NextRow > 0 /\ durable_lsn < NextRow /\ durable_lsn \in Nat
  BY <1>2, DurableBelow
<1>8. /\ RowsPositive(disk')
      /\ \A g, i : Exposed(g, i)' => durable_lsn < disk'[g].frames[i].lsn /\ g = f
  BY <1>2, <1>4, <1>5, <1>6, <1>7, CurrentExposes
<1>9. Current' = f
  BY <1>2, <1>4 DEF Current
<1>10. durable_lsn <= LastLsn(next_lsn')
  BY <1>2, <1>4, <1>7 DEF LastLsn
<1> QED
  BY <1>2, <1>4, <1>7, <1>8, <1>9, <1>10 DEF DInv

LEMMA AppendRowExposes == DInv /\ IInv' /\ AppendRow => DInv'
<1> SUFFICES ASSUME DInv, IInv', AppendRow PROVE DInv'
  OBVIOUS
<1>1. PICK oh \in WriteOutcome :
        LET o == AfterOpen(oh)
        IN  /\ disk' = StoreFd(o.file, o.wrote \o <<Row(o.lsn)>>, FALSE)
            /\ active_fd' = o.file
            /\ next_lsn' = o.lsn + 1
  BY DEF AppendRow
<1> DEFINE o == AfterOpen(oh)
           none == <<>>
           new == o.wrote \o <<Row(o.lsn)>> \o none
           f == o.file
<1>2. /\ up /\ up' /\ ~is_shutdown /\ is_shutdown' = is_shutdown /\ boot_lsn' = boot_lsn
      /\ f = Current /\ f # NoFile /\ f \in FileName \cup {Unlinked}
      /\ o.lsn \in Nat /\ o.lsn = NextRow /\ durable_lsn' = durable_lsn
  BY AppendTarget DEF AppendRow
<1>3. o.wrote \in Seq(Frame) /\ Row(o.lsn) \in Frame
  BY <1>2, AfterOpenType, RowType DEF DInv, IInv
<1>4. new = o.wrote \o <<Row(o.lsn)>>
  BY <1>3
<1>5. disk' = StoreFd(f, new, FALSE) /\ active_fd' = f /\ next_lsn' = o.lsn + 1
  BY <1>1, <1>4
<1>6. o = AfterOpen(oh)
  OBVIOUS
<1> HIDE DEF o
<1>7. none \in Seq(Frame) /\ NoRow(none) /\ Span(none, o.lsn + 1, o.lsn + 1)
      /\ o.lsn + 1 \in Nat /\ o.lsn < o.lsn + 1
  BY <1>2 DEF NoRow, Span
<1> HIDE DEF none
<1>8. new \in Seq(Frame) /\ OneRow(new, NextRow, o.lsn + 1)
  BY <1>2, <1>6, <1>7, AppendSpan DEF DInv
<1> HIDE DEF new, f
<1>9. DiskType(disk') /\ FALSE \in BOOLEAN
  BY DEF IInv, TypeOK
<1>10. NextRow \in Nat /\ NextRow > 0 /\ durable_lsn < NextRow /\ durable_lsn \in Nat
  BY <1>2, DurableBelow
<1>11. /\ RowsPositive(disk')
       /\ \A g, i : Exposed(g, i)' => durable_lsn < disk'[g].frames[i].lsn /\ g = f
  BY <1>2, <1>5, <1>7, <1>8, <1>9, CurrentExposes
<1>12. Current' = f
  BY <1>2, <1>5 DEF Current
<1>13. durable_lsn <= LastLsn(next_lsn') /\ next_lsn' > 0
  BY <1>2, <1>5, <1>10 DEF LastLsn
<1> QED
  BY <1>2, <1>5, <1>11, <1>12, <1>13 DEF DInv

\* What a rollover leaves uncovered, synced or not.
LEMMA SealExposes ==
    ASSUME DInv, IInv', AppendCall, NEW oh \in WriteOutcome, NEW os \in WriteOutcome,
           NEW fs \in BOOLEAN, NEW o, o = AfterOpen(oh),
           disk' = StoreFd(o.file, o.wrote \o <<Row(o.lsn)>> \o Bytes(Fr("SEAL", o.lsn + 1, 0), os), fs)
    PROVE  /\ RowsPositive(disk')
           /\ \A g, i : Exposed(g, i)' =>
                durable_lsn < disk'[g].frames[i].lsn /\ g = Current /\ g # Unlinked /\ ~fs
<1> DEFINE seal == Bytes(Fr("SEAL", o.lsn + 1, 0), os)
           new == o.wrote \o <<Row(o.lsn)>> \o seal
           f == o.file
<1>1. /\ up /\ ~is_shutdown /\ boot_lsn' = boot_lsn
      /\ f = Current /\ f # NoFile /\ f \in FileName \cup {Unlinked}
      /\ o.lsn \in Nat /\ o.lsn + 2 \in Nat /\ o.lsn < o.lsn + 2
  BY AppendTarget
<1>2. seal \in Seq(Frame) /\ NoRow(seal) /\ Span(seal, o.lsn + 1, o.lsn + 2)
  <2>1. "SEAL" \in Kinds \ {"ROW"} /\ o.lsn + 1 \in Nat /\ (o.lsn + 1) + 1 = o.lsn + 2
    BY <1>1 DEF Kinds
  <2> QED
    BY <2>1, MarkerSpan
<1>3. disk' = StoreFd(f, new, fs)
  OBVIOUS
<1> HIDE DEF seal
<1>4. new \in Seq(Frame) /\ OneRow(new, NextRow, o.lsn + 2)
  BY <1>1, <1>2, AppendSpan DEF DInv
<1> HIDE DEF new, f
<1>5. DiskType(disk')
  BY DEF IInv, TypeOK
<1>6. /\ RowsPositive(disk')
      /\ \A g, i : Exposed(g, i)' =>
           durable_lsn < disk'[g].frames[i].lsn /\ g = f /\ f # Unlinked /\ ~fs
  BY <1>1, <1>3, <1>4, <1>5, CurrentExposes
<1> QED
  BY <1>1, <1>6

LEMMA AppendSealsExposes == Strategy = "ALWAYS" /\ DInv /\ IInv' /\ AppendSeals => DInv'
<1> SUFFICES ASSUME Strategy = "ALWAYS", DInv, IInv', AppendSeals PROVE DInv'
  OBVIOUS
<1>1. PICK oh, os \in WriteOutcome :
        LET o    == AfterOpen(oh)
            seal == Bytes(Fr("SEAL", o.lsn + 1, 0), os)
        IN  /\ disk' = StoreFd(o.file, o.wrote \o <<Row(o.lsn)>> \o seal, Strategy = "ALWAYS")
            /\ durable_lsn' = IF Strategy = "ALWAYS" THEN o.lsn + 1 ELSE durable_lsn
            /\ next_lsn' = o.lsn + 2
  BY DEF AppendSeals
<1> DEFINE o == AfterOpen(oh)
<1>2. /\ disk' = StoreFd(o.file, o.wrote \o <<Row(o.lsn)>> \o Bytes(Fr("SEAL", o.lsn + 1, 0), os), TRUE)
      /\ durable_lsn' = o.lsn + 1 /\ next_lsn' = o.lsn + 2
  <2>1. (Strategy = "ALWAYS") = TRUE
    OBVIOUS
  <2> QED
    BY <1>1, <2>1
<1>3. AppendCall /\ o = AfterOpen(oh) /\ TRUE \in BOOLEAN /\ active_fd' = NoFile
  BY DEF AppendSeals
<1> HIDE DEF o
<1>4. up' /\ o.lsn \in Nat
  BY <1>3, AppendTarget
<1>5. RowsPositive(disk') /\ \A g, i : ~Exposed(g, i)'
  BY <1>2, <1>3, SealExposes
<1>6. durable_lsn' <= LastLsn(next_lsn')
  BY <1>2, <1>4 DEF LastLsn
<1> QED
  BY <1>3, <1>4, <1>5, <1>6 DEF DInv

LEMMA AppendSealUnsyncedExposes ==
    ActiveCurrent /\ DInv /\ IInv' /\ AppendSealUnsynced => DInv'
<1> SUFFICES ASSUME ActiveCurrent, DInv, IInv', AppendSealUnsynced PROVE DInv'
  OBVIOUS
<1>1. PICK oh, os \in WriteOutcome :
        LET o    == AfterOpen(oh)
            seal == Bytes(Fr("SEAL", o.lsn + 1, 0), os)
        IN  /\ disk' = StoreFd(o.file, o.wrote \o <<Row(o.lsn)>> \o seal, FALSE)
            /\ next_lsn' = o.lsn + 1
  BY DEF AppendSealUnsynced
<1> DEFINE o == AfterOpen(oh)
<1>2. /\ disk' = StoreFd(o.file, o.wrote \o <<Row(o.lsn)>> \o Bytes(Fr("SEAL", o.lsn + 1, 0), os), FALSE)
      /\ next_lsn' = o.lsn + 1
  BY <1>1
<1>3. AppendCall /\ o = AfterOpen(oh) /\ FALSE \in BOOLEAN
      /\ active_fd' = NoFile /\ UNCHANGED <<durable_lsn, current_base_lsn, segment_id>>
  BY DEF AppendSealUnsynced
<1> HIDE DEF o
<1>4. up /\ up' /\ o.lsn \in Nat /\ o.lsn = NextRow
  BY <1>3, AppendTarget
<1>5. /\ RowsPositive(disk')
      /\ \A g, i : Exposed(g, i)' =>
           durable_lsn < disk'[g].frames[i].lsn /\ g = Current /\ g # Unlinked
  BY <1>2, <1>3, SealExposes
<1>6. Current # Unlinked => Current' = Current
  BY <1>3 DEF Current, ActiveCurrent
<1>7. durable_lsn' <= LastLsn(next_lsn')
  BY <1>2, <1>3, <1>4, DurableBelow DEF LastLsn
<1> QED
  BY <1>3, <1>4, <1>5, <1>6, <1>7 DEF DInv

-----------------------------------------------------------------------------
(* The other operations.                                                   *)

LEMMA SyncExposes == DInv /\ IInv' /\ Sync => DInv'
<1> SUFFICES ASSUME DInv, IInv', Sync PROVE DInv'
  OBVIOUS
<1> DEFINE none == <<>>
           f == active_fd
<1>1. /\ up /\ up' /\ f # NoFile /\ disk' = StoreFd(f, none, TRUE)
      /\ durable_lsn' = LastLsn(next_lsn) /\ next_lsn' = next_lsn /\ active_fd' = active_fd
      /\ is_shutdown' = is_shutdown /\ boot_lsn' = boot_lsn
      /\ segment_id' = segment_id /\ current_base_lsn' = current_base_lsn
  BY DEF Sync, catalogue, histories
<1>2. f \in FileName \cup {Unlinked} /\ TRUE \in BOOLEAN /\ DiskType(disk')
  BY <1>1 DEF DInv, IInv, TypeOK, CatalogueType
<1>3. none \in Seq(Frame) /\ NoRow(none)
  BY DEF NoRow
<1> HIDE DEF none
<1>4. NextRow \in Nat /\ OneRow(none, NextRow, NextRow)
  BY <1>1, <1>3, DurableBelow, NoRowOneRow
<1>5. RowsPositive(disk') /\ \A g, i : Exposed(g, i)' => Exposed(g, i) /\ g # f
  BY <1>1, <1>2, <1>3, <1>4, WriteExposes
<1>6. \A g, i : Exposed(g, i) => g = f
  BY <1>1 DEF DInv, Current
<1>7. \A g, i : ~Exposed(g, i)'
  BY <1>5, <1>6
<1>8. durable_lsn' <= LastLsn(next_lsn')
  BY <1>1 DEF LastLsn, DInv, IInv, TypeOK, CatalogueType
<1> QED
  BY <1>1, <1>5, <1>7, <1>8 DEF DInv

\* Nothing moves but the directory, which gets no rows.
LEMMA NoRowExposes ==
    ASSUME DInv, IInv', up, up', NEW f \in FileName \cup {Unlinked}, NEW new \in Seq(Frame),
           NEW fs \in BOOLEAN, NoRow(new), disk' = StoreFd(f, new, fs),
           UNCHANGED <<durable_lsn, next_lsn, boot_lsn, is_shutdown, segment_id, current_base_lsn>>,
           active_fd' = active_fd \/ (active_fd' = NoFile /\ is_shutdown)
    PROVE  DInv'
<1>1. NextRow \in Nat /\ OneRow(new, NextRow, NextRow) /\ NextRow > 0 /\ durable_lsn < NextRow
      /\ durable_lsn \in Nat
  BY DurableBelow, NoRowOneRow
<1>2. DiskType(disk')
  BY DEF IInv, TypeOK
<1>3. /\ RowsPositive(disk')
      /\ \A g, i : Exposed(g, i)' =>
           Exposed(g, i) /\ disk'[g].frames[i].lsn = disk[g].frames[i].lsn
  BY <1>1, <1>2, WriteExposes
<1>4. Current' = Current \/ (is_shutdown' /\ active_fd' = NoFile)
  BY DEF Current
<1>5. ASSUME NEW g, NEW i, Exposed(g, i)'
      PROVE  /\ durable_lsn' < disk'[g].frames[i].lsn
             /\ g = Current' \/ (is_shutdown' /\ active_fd' = NoFile)
  <2>1. Exposed(g, i) /\ disk'[g].frames[i].lsn = disk[g].frames[i].lsn
    BY <1>3, <1>5
  <2>2. durable_lsn < disk[g].frames[i].lsn /\ (g = Current \/ (is_shutdown /\ active_fd = NoFile))
    BY <2>1 DEF DInv
  <2> QED
    BY <1>4, <2>1, <2>2
<1>6. durable_lsn' <= LastLsn(next_lsn') /\ (active_fd' # NoFile => next_lsn' > 0)
  BY DEF DInv, LastLsn
<1> QED
  BY <1>3, <1>5, <1>6 DEF DInv

LEMMA CheckpointExposes == DInv /\ IInv' /\ Checkpoint => DInv'
<1> SUFFICES ASSUME DInv, IInv', Checkpoint PROVE DInv'
  OBVIOUS
<1> DEFINE f == [id |-> segment_id, base |-> current_base_lsn]
<1>1. PICK o \in WriteOutcome : disk' = Store(f, Bytes(Fr("CHECKPOINT", next_lsn, 0), o), FALSE)
  BY DEF Checkpoint
<1> DEFINE new == Bytes(Fr("CHECKPOINT", next_lsn, 0), o)
<1>2. next_lsn \in Nat /\ f \in FileName /\ f # Unlinked
  BY DEF DInv, IInv, TypeOK, CatalogueType, FileName, Unlinked
<1>3. new \in Seq(Frame) /\ NoRow(new) /\ FALSE \in BOOLEAN
  BY <1>2, MarkerType
<1>4. disk' = StoreFd(f, new, FALSE) /\ f \in FileName \cup {Unlinked}
  BY <1>1, <1>2 DEF StoreFd
<1>5. /\ up /\ up' /\ active_fd' = active_fd
      /\ UNCHANGED <<durable_lsn, next_lsn, boot_lsn, is_shutdown, segment_id, current_base_lsn>>
  BY DEF Checkpoint, catalogue, histories
<1> HIDE DEF f, new
<1> QED
  BY <1>3, <1>4, <1>5, NoRowExposes

LEMMA ShutdownSealExposes == DInv /\ IInv' /\ ShutdownSeal => DInv'
<1> SUFFICES ASSUME DInv, IInv', ShutdownSeal PROVE DInv'
  OBVIOUS
<1>1. /\ up /\ up' /\ active_fd' = NoFile /\ is_shutdown
      /\ UNCHANGED <<durable_lsn, next_lsn, boot_lsn, is_shutdown, segment_id, current_base_lsn>>
  BY DEF ShutdownSeal, histories
<1>2. CASE active_fd = NoFile
  <2>1. disk' = disk /\ Current' = Current
    BY <1>1, <1>2 DEF ShutdownSeal, Current
  <2> QED
    BY <1>1, <1>2, <2>1 DEF DInv, Exposed, RowIn, RowsPositive
<1>3. CASE active_fd # NoFile
  <2>1. PICK o \in WriteOutcome, fs \in FsyncOutcome :
          disk' = StoreFd(active_fd, Bytes(Fr("SHUTDOWN", next_lsn, 0), o), fs)
    BY <1>3 DEF ShutdownSeal
  <2> DEFINE new == Bytes(Fr("SHUTDOWN", next_lsn, 0), o)
  <2>2. next_lsn \in Nat /\ active_fd \in FileName \cup {Unlinked} /\ fs \in BOOLEAN
    BY <1>3, OutcomeType DEF DInv, IInv, TypeOK, CatalogueType
  <2>3. new \in Seq(Frame) /\ NoRow(new) /\ disk' = StoreFd(active_fd, new, fs)
    BY <2>1, <2>2, MarkerType
  <2> HIDE DEF new
  <2> QED
    BY <1>1, <2>2, <2>3, NoRowExposes
<1> QED
  BY <1>2, <1>3

\* Fewer files cover as much as before.
LEMMA PruneExposes == DInv /\ IInv' /\ Prune => DInv'
<1> SUFFICES ASSUME DInv, IInv', Prune PROVE DInv'
  OBVIOUS
<1>0. PICK m \in Pins :
        LET files == {e.file : e \in Gone(m)}
        IN  /\ disk' = [f \in DOMAIN disk \ files |-> disk[f]]
            /\ active_fd' = IF active_fd \in files THEN Unlinked ELSE active_fd
  BY DEF Prune
<1> DEFINE files == {e.file : e \in Gone(m)}
<1>1. /\ disk' = [f \in DOMAIN disk \ files |-> disk[f]]
      /\ active_fd' = IF active_fd \in files THEN Unlinked ELSE active_fd
      /\ NoFile \notin files
  <2>1. files \subseteq DOMAIN disk /\ NoFile \notin FileName
    BY DEF Gone, Removable, NoFile, FileName
  <2>2. DOMAIN disk \subseteq FileName
    BY DEF DInv, IInv, TypeOK, DiskType
  <2> QED
    BY <1>0, <2>1, <2>2
<1> HIDE DEF files
<1>2. /\ up /\ up'
      /\ UNCHANGED <<durable_lsn, next_lsn, boot_lsn, is_shutdown, segment_id, current_base_lsn>>
  BY DEF Prune
<1>3. \A g, i : RowIn(disk', g, i) => RowIn(disk, g, i) /\ disk'[g] = disk[g] /\ g \notin files
  BY <1>1 DEF RowIn
<1>4. RowsPositive(disk')
  BY <1>3 DEF DInv, RowsPositive
<1>5. \A g, i : Exposed(g, i)' => Exposed(g, i) /\ disk'[g] = disk[g] /\ g \notin files
  BY <1>2, <1>3 DEF Exposed
<1>6. Unlinked # NoFile
  BY DEF Unlinked, NoFile
<1>7. ASSUME NEW g, NEW i, Exposed(g, i)'
      PROVE  /\ durable_lsn' < disk'[g].frames[i].lsn
             /\ g = Current' \/ (is_shutdown' /\ active_fd' = NoFile)
  <2>1. Exposed(g, i) /\ disk'[g] = disk[g] /\ g \notin files
    BY <1>5, <1>7
  <2>2. durable_lsn < disk[g].frames[i].lsn /\ (g = Current \/ (is_shutdown /\ active_fd = NoFile))
    BY <1>2, <2>1 DEF DInv
  <2>3. CASE active_fd \in files
    <3>1. active_fd # NoFile
      BY <1>1, <2>3
    <3> QED
      BY <2>1, <2>2, <2>3, <3>1 DEF Current
  <2>4. CASE active_fd \notin files
    <3>1. active_fd' = active_fd
      BY <1>1, <2>4
    <3> QED
      BY <1>2, <2>1, <2>2, <3>1 DEF Current
  <2> QED
    BY <2>3, <2>4
<1>8. active_fd' # NoFile => next_lsn' > 0
  BY <1>1, <1>2 DEF DInv
<1> QED
  BY <1>2, <1>4, <1>7, <1>8 DEF DInv

LEMMA QuietExposes == DInv /\ IInv' /\ Quiet => DInv'
<1> SUFFICES ASSUME DInv, IInv', Quiet PROVE DInv'
  OBVIOUS
<1>1. /\ UNCHANGED <<disk, up, active_fd, next_lsn, durable_lsn, segment_id, current_base_lsn, boot_lsn>>
      /\ is_shutdown => is_shutdown'
  BY QuietActions
<1>2. Current' = Current /\ RowsPositive(disk') /\ \A g, i : Exposed(g, i)' => Exposed(g, i)
  BY <1>1 DEF Current, DInv, RowsPositive, RowIn, Exposed
<1> QED
  BY <1>1, <1>2 DEF DInv

-----------------------------------------------------------------------------
(* Recovery and the ends of the process.                                   *)

\* Fewer frames, all LSNs of rows above zero still.
LEMMA FewerPositive ==
    ASSUME NEW d, NEW e, RowsPositive(d),
           \A f, i : FrameIn(e, f, i) => FrameIn(d, f, i) /\ e[f].frames[i] = d[f].frames[i]
    PROVE  RowsPositive(e)
<1>1. \A f, i : RowIn(e, f, i) => RowIn(d, f, i) /\ e[f].frames[i] = d[f].frames[i]
  BY FewerFrames
<1> QED
  BY <1>1 DEF RowsPositive

\* Recovery starts durable_lsn below the LSNs it gives, and above it nothing is written yet.
LEMMA RecoverExposes == DInv /\ IInv' /\ Recover => DInv'
<1> SUFFICES ASSUME DInv, IInv', Recover PROVE DInv'
  OBVIOUS
<1>1. PICK cut \in SUBSET Damaged, fs \in FsyncOutcome : Truncate(cut, fs)
  BY DEF Recover
<1>2. \A f, i : FrameIn(disk', f, i) => FrameIn(disk, f, i) /\ disk'[f].frames[i] = disk[f].frames[i]
  BY <1>1, OutcomeType, TruncateFrames DEF DInv
<1>3. RowsPositive(disk')
  BY <1>2, FewerPositive DEF DInv
<1>4. PICK n \in {0} \cup {l + 1 : l \in Lsns} :
        (\A l \in Lsns : l < n) /\ next_lsn' = n /\ boot_lsn' = n /\ durable_lsn' = LastLsn(n)
  BY DEF Recover
<1>5. up' /\ n \in Nat /\ DiskType(disk') /\ DiskType(disk)
  BY <1>4 DEF Recover, DInv, IInv, TypeOK, CatalogueType
<1>6. \A g, i : ~Exposed(g, i)'
  <2> SUFFICES ASSUME NEW g, NEW i, RowIn(disk', g, i), n <= disk'[g].frames[i].lsn PROVE FALSE
    BY <1>4 DEF Exposed
  <2>1. disk'[g].frames[i].lsn < n
    BY <1>4, <1>5 DEF IInv, Below
  <2>2. disk'[g].frames[i].lsn \in Nat
    BY <1>5, RowsAreFrames
  <2> QED
    BY <1>5, <2>1, <2>2
<1>7. durable_lsn' <= LastLsn(next_lsn')
  BY <1>4, <1>5 DEF LastLsn
<1>8. active_fd' # NoFile => n > 0
  <2> SUFFICES ASSUME active_fd' # NoFile PROVE n > 0
    OBVIOUS
  <2>1. PICK f : f \in Open
    BY DEF Recover
  <2>2. f \in DOMAIN disk /\ Has(Kept(f), {"HEADER"})
    BY <2>1 DEF Open, Headed
  <2>3. PICK i \in DOMAIN Kept(f) : Kept(f)[i] \in Frame
    <3>1. Kept(f) \in Seq(Frame)
      BY <1>5, <2>2, KeptFrames
    <3> QED
      BY <2>2, <3>1, FrameOf DEF Has
  <2>4. Kept(f)[i].lsn \in Lsns /\ Kept(f)[i].lsn \in Nat
    BY <2>2, <2>3 DEF Lsns, LsnsIn, Frame
  <2>5. Kept(f)[i].lsn < n
    BY <1>4, <2>4
  <2> QED
    BY <1>5, <2>4, <2>5
<1> QED
  BY <1>3, <1>4, <1>5, <1>6, <1>7, <1>8 DEF DInv

\* A call cut short writes no row at LSN zero either.
LEMMA InterruptedPositive ==
    ASSUME DInv, DiskType(disk'), NEW f \in FileName \cup {Unlinked}, NEW w \in Seq(Frame),
           NEW lo \in Nat, lo > 0, NEW hi \in Nat, OneRow(w, lo, hi), Interrupted(f, w)
    PROVE  RowsPositive(disk')
<1>1. PICK t \in 0 .. Len(w), torn \in BOOLEAN :
        disk' = StoreFd(f, SubSeq(w, 1, t) \o (IF torn THEN <<Torn>> ELSE <<>>), FALSE)
  BY DEF Interrupted
<1> DEFINE p == SubSeq(w, 1, t) \o (IF torn THEN <<Torn>> ELSE <<>>)
           d == disk'
<1>2. p \in Seq(Frame) /\ OneRow(p, lo, hi)
  BY PrefixRow
<1>3. d = StoreFd(f, p, FALSE) /\ DiskType(disk) /\ FALSE \in BOOLEAN /\ RowsPositive(disk)
      /\ DiskType(d)
  BY <1>1 DEF DInv, IInv, TypeOK
<1> HIDE DEF p, d
<1>4. Written(d, f, p)
  BY <1>2, <1>3, StoreWritten
<1>5. RowsPositive(d)
  <2> SUFFICES ASSUME NEW g, NEW i, RowIn(d, g, i) PROVE d[g].frames[i].lsn > 0
    BY DEF RowsPositive
  <2>1. d[g].frames[i].lsn \in Nat /\ FrameIn(d, g, i) /\ d[g].frames[i].kind = "ROW"
    BY <1>3, RowsAreFrames
  <2>2. CASE FrameIn(disk, g, i) /\ d[g].frames[i] = disk[g].frames[i]
    BY <1>3, <2>1, <2>2 DEF RowsPositive, FrameIn, RowIn
  <2>3. CASE \E k \in DOMAIN p : d[g].frames[i] = p[k]
    <3>1. lo <= d[g].frames[i].lsn
      BY <1>2, <2>1, <2>3 DEF OneRow
    <3> QED
      BY <2>1, <3>1
  <2> QED
    BY <1>4, <2>1, <2>2, <2>3 DEF Written
<1> QED
  BY <1>5 DEF d

LEMMA CrashInAppendPositive == DInv /\ IInv' /\ CrashInAppend => RowsPositive(disk')
<1> SUFFICES ASSUME DInv, IInv', CrashInAppend PROVE RowsPositive(disk')
  OBVIOUS
<1> DEFINE o == AfterOpen("ok")
           none == <<>>
           fr == Fr("SEAL", o.lsn + 1, 0)
           seal == IF o.space + 1 >= MaxSegSize THEN <<fr>> ELSE none
           w == o.wrote \o <<Row(o.lsn)>> \o seal
<1>1. up /\ Interrupted(o.file, w) /\ DiskType(disk')
  BY DEF CrashInAppend, Down, IInv, TypeOK
<1>2. "ok" \in WriteOutcome /\ o = AfterOpen("ok") /\ IInv /\ TypeOK
  BY DEF WriteOutcome, DInv, IInv
<1> HIDE DEF o
<1>3. o.file \in FileName \cup {Unlinked} /\ o.lsn \in Nat /\ o.wrote \in Seq(Frame) /\ NoRow(o.wrote)
  BY <1>2, AfterOpenType
<1>4. o.lsn = NextRow /\ o.lsn > 0
  BY <1>1, <1>2, AfterOpenSpan, DurableBelow
<1>5. seal \in Seq(Frame) /\ NoRow(seal)
  <2>1. fr \in Frame /\ fr.kind # "ROW"
    BY <1>3, FrameType DEF Kinds, Fr
  <2> HIDE DEF fr
  <2> QED
    BY <2>1 DEF NoRow
<1>6. Row(o.lsn) \in Frame /\ Row(o.lsn).lsn = o.lsn
  BY <1>2, <1>3, RowType
<1> HIDE DEF seal
<1>7. w \in Seq(Frame) /\ OneRow(w, o.lsn, o.lsn + 1)
  BY <1>3, <1>5, <1>6, RowBetween
<1>8. o.lsn + 1 \in Nat
  BY <1>3
<1> HIDE DEF w
<1> QED
  BY <1>1, <1>3, <1>4, <1>7, <1>8, InterruptedPositive

LEMMA CrashInMarkerPositive ==
    ASSUME DInv, IInv', NEW f \in FileName \cup {Unlinked}, NEW kind \in {"CHECKPOINT", "SHUTDOWN"},
           Interrupted(f, <<Fr(kind, next_lsn, 0)>>)
    PROVE  RowsPositive(disk')
<1> DEFINE w == <<Fr(kind, next_lsn, 0)>>
<1>1. next_lsn \in Nat /\ DiskType(disk')
  BY DEF DInv, IInv, TypeOK, CatalogueType
<1>2. Fr(kind, next_lsn, 0) \in Frame /\ Fr(kind, next_lsn, 0).kind # "ROW"
  BY <1>1, FrameType DEF Kinds, Fr
<1>3. w \in Seq(Frame) /\ NoRow(w) /\ Interrupted(f, w)
  BY <1>2 DEF NoRow
<1> HIDE DEF w
<1>4. OneRow(w, 1, 1) /\ 1 \in Nat /\ 1 > 0
  BY <1>3, NoRowOneRow
<1> QED
  BY <1>1, <1>3, <1>4, InterruptedPositive

LEMMA StopExposes == DInv /\ IInv' /\ Stop => DInv'
<1> SUFFICES ASSUME DInv, IInv', Stop PROVE DInv'
  OBVIOUS
<1>1. ~up' /\ durable_lsn' = 0
  <2>1. CASE Down
    BY <2>1 DEF Down
  <2>2. CASE CrashInRecovery
    BY <2>2 DEF CrashInRecovery, DInv
  <2> QED
    BY <2>1, <2>2 DEF Stop, ProcessEnds, CrashInAppend, CrashInCheckpoint, CrashInShutdown, PowerLoss
<1>2. RowsPositive(disk) /\ IInv
  BY DEF DInv
<1>3. CASE ProcessEnds
  BY <1>1, <1>2, <1>3 DEF ProcessEnds, DInv
<1>4. CASE CrashInAppend
  BY <1>1, <1>4, CrashInAppendPositive DEF DInv
<1>5. CASE CrashInCheckpoint
  <2> DEFINE f == [id |-> segment_id, base |-> current_base_lsn]
  <2>1. f \in FileName \cup {Unlinked}
    BY <1>2 DEF IInv, TypeOK, CatalogueType, FileName
  <2>2. Interrupted(f, <<Fr("CHECKPOINT", next_lsn, 0)>>)
    BY <1>5 DEF CrashInCheckpoint
  <2> HIDE DEF f
  <2>3. RowsPositive(disk')
    BY <2>1, <2>2, CrashInMarkerPositive
  <2> QED
    BY <1>1, <2>3 DEF DInv
<1>6. CASE CrashInShutdown
  <2>1. active_fd \in FileName \cup {Unlinked} /\ Interrupted(active_fd, <<Fr("SHUTDOWN", next_lsn, 0)>>)
    BY <1>2, <1>6 DEF IInv, TypeOK, CatalogueType, CrashInShutdown
  <2>2. RowsPositive(disk')
    BY <2>1, CrashInMarkerPositive
  <2> QED
    BY <1>1, <2>2 DEF DInv
<1>7. CASE CrashInRecovery
  <2>1. PICK cut \in SUBSET Damaged : Truncate(cut, TRUE)
    BY <1>7 DEF CrashInRecovery
  <2>2. \A f, i : FrameIn(disk', f, i) => FrameIn(disk, f, i) /\ disk'[f].frames[i] = disk[f].frames[i]
    BY <1>2, <2>1, TruncateFrames
  <2> QED
    BY <1>1, <1>2, <2>2, FewerPositive DEF DInv
<1>8. CASE PowerLoss
  <2>1. \A f, i : FrameIn(disk', f, i) => FrameIn(disk, f, i) /\ disk'[f].frames[i] = disk[f].frames[i]
    BY <1>2, <1>8, PowerLossFrames
  <2> QED
    BY <1>1, <1>2, <2>1, FewerPositive DEF DInv
<1> QED
  BY <1>3, <1>4, <1>5, <1>6, <1>7, <1>8 DEF Stop

-----------------------------------------------------------------------------
(* A rollover whose fsync fails comes back to the segment it has closed.   *)

OpenIn(d, f) == HeadedIn(d, f) /\ ~ClosedIn(d, f)

(* With no other fault, at most one segment is open, the one active_fd names; none has a    *)
(* higher id, and so recovery, which takes segment_id from the highest id and active_fd and *)
(* the base from an open segment, finds one and the same.                                   *)
OInv ==
    /\ CInv
    /\ up => /\ ActiveCurrent
             /\ \A f : HeadedIn(disk, f) => f.id <= segment_id
             /\ \A f : OpenIn(disk, f) => f = active_fd
    /\ ~up => \A f, g : OpenIn(disk, f) /\ HeadedIn(disk, g) =>
                g.id <= f.id /\ (OpenIn(disk, g) => g = f)

\* A write gives a header to its file alone, and opens no closed segment.
LEMMA WrittenOpen ==
    ASSUME NEW d, NEW f, NEW new, Written(d, f, new)
    PROVE  /\ \A g : HeadedIn(d, g) =>
                HeadedIn(disk, g) \/ (g = f /\ f # Unlinked /\ Has(new, {"HEADER"}))
           /\ \A g : ClosedIn(disk, g) => ClosedIn(d, g)
<1>1. ASSUME NEW g, HeadedIn(d, g)
      PROVE  HeadedIn(disk, g) \/ (g = f /\ f # Unlinked /\ Has(new, {"HEADER"}))
  <2>1. PICK i : FrameIn(d, g, i) /\ d[g].frames[i].kind = "HEADER"
    BY <1>1 DEF HeadedIn
  <2>2. CASE FrameIn(disk, g, i) /\ d[g].frames[i] = disk[g].frames[i]
    BY <2>1, <2>2 DEF HeadedIn
  <2>3. CASE g = f /\ f # Unlinked /\ \E k \in DOMAIN new : d[g].frames[i] = new[k]
    BY <2>1, <2>3 DEF Has
  <2> QED
    BY <2>1, <2>2, <2>3 DEF Written
<1>2. ASSUME NEW g, ClosedIn(disk, g)
      PROVE  ClosedIn(d, g)
  BY <1>2 DEF ClosedIn, IsClosing, Written
<1> QED
  BY <1>1, <1>2

\* Ids of files with a header are numbers.
LEMMA HeadedNamed ==
    ASSUME NEW d, DiskType(d), NEW f, HeadedIn(d, f)
    PROVE  f \in FileName /\ f.id \in Nat
  BY DEF HeadedIn, FrameIn, DiskType, FileName

LEMMA AppendOpens ==
    Faults \subseteq {"fsync"} /\ OInv /\ CInv' /\ AppendStep => OInv'
<1> SUFFICES ASSUME Faults \subseteq {"fsync"}, OInv, CInv', AppendStep PROVE OInv'
  OBVIOUS
<1> DEFINE o == AfterOpen("ok")
           f == o.file
           d == disk'
<1>0. "write" \notin Faults /\ CInv /\ IInv /\ TypeOK /\ "ok" \in WriteOutcome /\ o = AfterOpen("ok")
  BY DEF OInv, CInv, IInv, WriteOutcome
<1>1. PICK seal \in Seq(Frame), fs \in BOOLEAN :
        LET w == o.wrote \o <<Row(o.lsn)>> \o seal
        IN  /\ d = StoreFd(f, w, fs)
            /\ AppendEnds(o, seal, fs)
            /\ Appended(o, seal, w)
            /\ f \in FileName \cup {Unlinked}
            /\ f # Unlinked => \A k \in DOMAIN w :
                 /\ FrameIn(d, f, Len(FramesOf(f)) + k)
                 /\ d[f].frames[Len(FramesOf(f)) + k] = w[k]
  BY <1>0, AppendDisk
<1> DEFINE head == o.wrote \o <<Row(o.lsn)>>
           w == head \o seal
<1>2. /\ d = StoreFd(f, w, fs) /\ AppendEnds(o, seal, fs) /\ Appended(o, seal, w)
      /\ f \in FileName \cup {Unlinked}
      /\ f # Unlinked => \A k \in DOMAIN w :
           FrameIn(d, f, Len(FramesOf(f)) + k) /\ d[f].frames[Len(FramesOf(f)) + k] = w[k]
  BY <1>1
<1>3. up /\ up' /\ DiskType(disk) /\ DiskType(d) /\ segment_id \in Nat
  <2>1. AppendCall
    BY DEF AppendStep, AppendFails, AppendRow, AppendSeals, AppendSealUnsynced
  <2>2. IInv'
    BY DEF CInv
  <2> QED
    BY <1>0, <2>1, <2>2 DEF AppendCall, IInv, TypeOK, CatalogueType
<1>4. /\ active_fd # NoFile => f = active_fd
      /\ active_fd = NoFile => f = [id |-> segment_id, base |-> current_base_lsn]
      /\ f \in {Unlinked, [id |-> segment_id, base |-> current_base_lsn]}
  <2>1. /\ active_fd # NoFile => f = active_fd
        /\ active_fd = NoFile => f = [id |-> segment_id, base |-> current_base_lsn]
    BY DEF AfterOpen
  <2> QED
    BY <1>3, <2>1 DEF OInv, ActiveCurrent
<1>5. head \in Seq(Frame)
  <2>1. o.wrote \in Seq(Frame) /\ Row(o.lsn) \in Frame
    BY <1>0, AfterOpenType, RowType
  <2> QED
    BY <2>1
<1>6. w \in Seq(Frame)
  BY <1>5
<1>7. seal = <<Fr("SEAL", o.lsn + 1, 0)>> => \E k \in DOMAIN w : w[k].kind = "SEAL"
  <2> SUFFICES ASSUME seal = <<Fr("SEAL", o.lsn + 1, 0)>> PROVE \E k \in DOMAIN w : w[k].kind = "SEAL"
    OBVIOUS
  <2> HIDE DEF head
  <2>1. JoinOf(head, seal, w)
    BY <1>5, JoinFrames
  <2>2. Len(seal) = 1 /\ seal[1].kind = "SEAL" /\ Len(head) \in Nat
    BY <1>5 DEF Fr
  <2>3. w[Len(head) + 1] = seal[1] /\ Len(head) + 1 \in DOMAIN w
    BY <1>6, <2>1, <2>2 DEF JoinOf
  <2> QED
    BY <2>2, <2>3
<1> HIDE DEF head, w, o, f, d
<1>8. Written(d, f, w)
  BY <1>2, <1>3, <1>6, StoreWritten
<1>9. /\ \A g : HeadedIn(d, g) =>
           HeadedIn(disk, g) \/ (g = f /\ f # Unlinked /\ Has(w, {"HEADER"}))
      /\ \A g : ClosedIn(disk, g) => ClosedIn(d, g)
  BY <1>8, WrittenOpen
<1>10. \A g : HeadedIn(d, g) => g.id <= segment_id
  <2> SUFFICES ASSUME NEW g, HeadedIn(d, g) PROVE g.id <= segment_id
    OBVIOUS
  <2>1. CASE HeadedIn(disk, g)
    BY <1>3, <2>1 DEF OInv
  <2>2. CASE g = f /\ f # Unlinked
    BY <1>3, <1>4, <2>2
  <2> QED
    BY <1>9, <2>1, <2>2
<1>11. \A g : OpenIn(d, g) => g = f /\ f # Unlinked
  <2> SUFFICES ASSUME NEW g, OpenIn(d, g) PROVE g = f /\ f # Unlinked
    OBVIOUS
  <2>1. g \in FileName /\ NoFile \notin FileName /\ Unlinked \notin FileName
    BY <1>3, HeadedNamed DEF OpenIn, NoFile, Unlinked, FileName
  <2>2. CASE HeadedIn(disk, g)
    <3>1. g = active_fd
      BY <1>3, <1>9, <2>2 DEF OInv, OpenIn
    <3> QED
      BY <1>4, <2>1, <3>1
  <2>3. CASE g = f /\ f # Unlinked
    BY <2>3
  <2> QED
    BY <1>9, <2>2, <2>3 DEF OpenIn
<1>12. CASE active_fd' = f /\ UNCHANGED <<segment_id, current_base_lsn>>
  <2>1. ActiveCurrent'
    BY <1>4, <1>12 DEF ActiveCurrent
  <2> QED
    BY <1>3, <1>10, <1>11, <1>12, <2>1 DEF OInv, d
<1>13. CASE seal = <<Fr("SEAL", o.lsn + 1, 0)>> /\ active_fd' = NoFile /\ segment_id' \in {segment_id, segment_id + 1}
  <2>1. ActiveCurrent'
    BY <1>13 DEF ActiveCurrent
  <2>2. \A g : ~OpenIn(d, g)
    <3> SUFFICES ASSUME f # Unlinked PROVE ClosedIn(d, f)
      BY <1>11 DEF OpenIn
    <3>1. PICK k \in DOMAIN w : w[k].kind = "SEAL"
      BY <1>7, <1>13
    <3>2. IsClosing(d, f, Len(FramesOf(f)) + k)
      BY <1>2, <3>1 DEF IsClosing
    <3> QED
      BY <3>2 DEF ClosedIn
  <2>3. \A g : HeadedIn(d, g) => g.id <= segment_id'
    <3> SUFFICES ASSUME NEW g, HeadedIn(d, g) PROVE g.id <= segment_id'
      OBVIOUS
    <3>1. g.id \in Nat /\ g.id <= segment_id
      BY <1>3, <1>10, HeadedNamed
    <3> QED
      BY <1>3, <1>13, <3>1
  <2> QED
    BY <1>3, <2>1, <2>2, <2>3 DEF OInv, d
<1> QED
  BY <1>2, <1>12, <1>13 DEF AppendEnds, f

\* The other writes give no segment a header; shutdown closes the one it writes to.
LEMMA MarkersOpen ==
    Faults \subseteq {"fsync"} /\ OInv /\ CInv' /\ (Sync \/ Checkpoint \/ ShutdownSeal) => OInv'
<1> SUFFICES ASSUME Faults \subseteq {"fsync"}, OInv, CInv', Sync \/ Checkpoint \/ ShutdownSeal
             PROVE  OInv'
  OBVIOUS
<1> DEFINE d == disk'
<1>1. "write" \notin Faults /\ IInv /\ DiskType(disk) /\ next_lsn \in Nat
      /\ active_fd \in FileName \cup {Unlinked, NoFile}
  BY DEF OInv, CInv, IInv, TypeOK, CatalogueType
<1>2. PICK f \in FileName \cup {Unlinked}, new \in Seq(Frame), fs \in BOOLEAN :
        d = StoreFd(f, new, fs) /\ ~Has(new, {"TORN", "ROW", "HEADER"})
  BY <1>1, MarkerFrames
<1>3. up /\ up' /\ UNCHANGED <<segment_id, current_base_lsn>> /\ active_fd' \in {active_fd, NoFile}
  <2>1. CASE Sync
    BY <2>1 DEF Sync, catalogue
  <2>2. CASE Checkpoint
    BY <2>2 DEF Checkpoint, catalogue
  <2>3. CASE ShutdownSeal
    BY <2>3 DEF ShutdownSeal
  <2> QED
    BY <2>1, <2>2, <2>3
<1>4. Sync \/ Checkpoint => active_fd' = active_fd
  BY DEF Sync, Checkpoint, catalogue
<1> HIDE DEF d
<1>5. Written(d, f, new)
  BY <1>1, <1>2, StoreWritten
<1>6. ~Has(new, {"HEADER"})
  BY <1>2 DEF Has
<1>7. \A g : (HeadedIn(d, g) => HeadedIn(disk, g)) /\ (ClosedIn(disk, g) => ClosedIn(d, g))
  BY <1>5, <1>6, WrittenOpen
<1>8. ActiveCurrent'
  BY <1>3 DEF OInv, ActiveCurrent
<1>9. \A g : OpenIn(d, g) => g = active_fd
  BY <1>3, <1>7 DEF OInv, OpenIn
<1>10. \A g : OpenIn(d, g) => g = active_fd'
  <2>1. CASE Sync \/ Checkpoint
    BY <1>4, <1>9, <2>1
  <2>2. CASE ShutdownSeal
    <3> SUFFICES ASSUME OpenIn(d, active_fd) PROVE FALSE
      BY <1>9
    <3>1. active_fd \in FileName /\ active_fd # NoFile /\ active_fd # Unlinked
      <4>1. HeadedIn(disk, active_fd)
        BY <1>7 DEF OpenIn
      <4>2. active_fd \in FileName /\ NoFile \notin FileName /\ Unlinked \notin FileName
        BY <1>1, <4>1, HeadedNamed DEF NoFile, Unlinked, FileName
      <4> QED
        BY <4>2
    <3>2. PICK oo \in WriteOutcome, fo \in FsyncOutcome :
            disk' = StoreFd(active_fd, Bytes(Fr("SHUTDOWN", next_lsn, 0), oo), fo)
      BY <2>2, <3>1 DEF ShutdownSeal
    <3> DEFINE fr == Fr("SHUTDOWN", next_lsn, 0)
               tail == <<fr>>
    <3>3. Bytes(fr, oo) = tail /\ fo \in BOOLEAN
      BY <1>1, OutcomeType DEF WriteOutcome, Bytes
    <3>4. fr \in Frame /\ fr.kind = "SHUTDOWN"
      BY <1>1, FrameType DEF Kinds, Fr
    <3>5. d = StoreFd(active_fd, tail, fo)
      BY <3>2, <3>3 DEF d
    <3> HIDE DEF fr
    <3>6. tail \in Seq(Frame) /\ ~Has(tail, {"TORN"}) /\ 1 \in DOMAIN tail /\ tail[1] = fr
      BY <3>4 DEF Has
    <3> HIDE DEF tail
    <3>7. CleanDisk(disk)
      BY <1>1, <1>3 DEF OInv, CInv
    <3>8. \A k \in DOMAIN tail :
             /\ FrameIn(d, active_fd, Len(FramesOf(active_fd)) + k)
             /\ d[active_fd].frames[Len(FramesOf(active_fd)) + k] = tail[k]
      BY <1>1, <3>1, <3>3, <3>5, <3>6, <3>7, CleanWrite
    <3>9. IsClosing(d, active_fd, Len(FramesOf(active_fd)) + 1)
      BY <3>4, <3>6, <3>8 DEF IsClosing
    <3> QED
      BY <3>9 DEF OpenIn, ClosedIn
  <2> QED
    BY <2>1, <2>2
<1>11. \A g : HeadedIn(d, g) => g.id <= segment_id'
  BY <1>3, <1>7 DEF OInv
<1> QED
  BY <1>3, <1>8, <1>10, <1>11 DEF OInv, d

LEMMA PruneOpens == OInv /\ CInv' /\ Prune => OInv'
<1> SUFFICES ASSUME OInv, CInv', Prune PROVE OInv'
  OBVIOUS
<1>1. PICK files : /\ disk' = [f \in DOMAIN disk \ files |-> disk[f]]
                   /\ active_fd' = IF active_fd \in files THEN Unlinked ELSE active_fd
  BY DEF Prune
<1>2. up /\ up' /\ UNCHANGED <<segment_id, current_base_lsn>>
  BY DEF Prune
<1>3. \A g : HeadedIn(disk', g) => HeadedIn(disk, g) /\ g \notin files
  BY <1>1 DEF HeadedIn, FrameIn
<1>4. \A g : g \notin files /\ ClosedIn(disk, g) => ClosedIn(disk', g)
  BY <1>1 DEF ClosedIn, IsClosing, FrameIn
<1>5. \A g : OpenIn(disk', g) => g = active_fd'
  BY <1>1, <1>2, <1>3, <1>4 DEF OpenIn, OInv
<1>6. ActiveCurrent'
  BY <1>1, <1>2 DEF OInv, ActiveCurrent
<1> QED
  BY <1>2, <1>3, <1>5, <1>6 DEF OInv

LEMMA QuietOpens == OInv /\ CInv' /\ Quiet => OInv'
<1> SUFFICES ASSUME OInv, CInv', Quiet PROVE OInv'
  OBVIOUS
<1>1. UNCHANGED <<disk, up, active_fd, segment_id, current_base_lsn>>
  BY QuietActions
<1>2. \A g : (HeadedIn(disk', g) <=> HeadedIn(disk, g)) /\ (OpenIn(disk', g) <=> OpenIn(disk, g))
  BY <1>1 
<1> QED
  BY <1>1, <1>2 DEF OInv, ActiveCurrent

\* Truncation neither opens nor closes a segment.
LEMMA TruncateOpens ==
    ASSUME IInv, NEW cut \in SUBSET Damaged, NEW fs \in BOOLEAN, Truncate(cut, fs)
    PROVE  \A f : /\ HeadedIn(disk', f) <=> HeadedIn(disk, f)
                  /\ OpenIn(disk', f) <=> OpenIn(disk, f)
<1> DEFINE d == disk'
<1>1. /\ \A f, i : FrameIn(d, f, i) <=> FrameIn(disk, f, i)
      /\ \A f, i : FrameIn(disk, f, i) => d[f].frames[i] = disk[f].frames[i]
  BY TruncateFrames
<1> HIDE DEF d
<1>2. \A f : (HeadedIn(d, f) <=> HeadedIn(disk, f)) /\ (ClosedIn(d, f) <=> ClosedIn(disk, f))
  BY <1>1 DEF HeadedIn, ClosedIn, IsClosing
<1> QED
  BY <1>2 DEF OpenIn, d

LEMMA RecoverOpens == OInv /\ CInv' /\ Recover => OInv'
<1> SUFFICES ASSUME OInv, CInv', Recover PROVE OInv'
  OBVIOUS
<1>1. PICK cut \in SUBSET Damaged, fs \in FsyncOutcome : Truncate(cut, fs)
  BY DEF Recover
<1>2. /\ IInv /\ DiskType(disk) /\ fs \in BOOLEAN /\ ~up /\ up'
  BY OutcomeType DEF OInv, CInv, IInv, TypeOK, Recover
<1>3. \A f : (HeadedIn(disk', f) <=> HeadedIn(disk, f)) /\ (OpenIn(disk', f) <=> OpenIn(disk, f))
  BY <1>1, <1>2, TruncateOpens
<1>4. \A f : (HeadedIn(disk, f) <=> f \in Headed) /\ (OpenIn(disk, f) <=> f \in Open)
  <2>1. \A f : HeadedIn(disk, f) => f \in DOMAIN disk
    BY DEF HeadedIn, FrameIn
  <2> QED
    BY <1>2, <2>1, KeptHas DEF Headed, Open, OpenIn
<1>5. Headed \subseteq FileName /\ Open \subseteq Headed
  BY <1>2 DEF Headed, Open, DiskType
<1>6. \A f, g : f \in Open /\ g \in Headed => g.id <= f.id /\ (g \in Open => g = f)
  BY <1>2, <1>4 DEF OInv
<1>7. CASE Headed = {}
  <2>1. active_fd' = NoFile
    BY <1>5, <1>7 DEF Recover
  <2> QED
    BY <1>2, <1>3, <1>4, <1>5, <1>7, <2>1 DEF OInv, ActiveCurrent
<1>8. CASE Headed # {} /\ Open = {}
  <2>1. active_fd' = NoFile
    BY <1>8 DEF Recover
  <2>2. PICK h \in Headed : IsMaxId(h) /\ segment_id' = h.id + 1
    BY <1>8 DEF Recover
  <2>3. \A g \in Headed : g.id <= segment_id'
    <3> SUFFICES ASSUME NEW g \in Headed PROVE g.id <= h.id + 1
      BY <2>2
    <3>1. g.id \in Nat /\ h.id \in Nat /\ g.id <= h.id
      BY <1>5, <2>2 DEF IsMaxId, FileName
    <3> QED
      BY <3>1
  <2> QED
    BY <1>2, <1>3, <1>4, <1>8, <2>1, <2>3 DEF OInv, ActiveCurrent
<1>9. CASE Open # {}
  <2>1. PICK f \in Open : active_fd' = f /\ current_base_lsn' = f.base
    BY <1>5, <1>9 DEF Recover
  <2>2. PICK h \in Headed : IsMaxId(h) /\ segment_id' = h.id
    BY <1>5, <1>9 DEF Recover
  <2>3. segment_id' = f.id
    <3>1. f.id \in Nat /\ h.id \in Nat /\ f.id <= h.id /\ h.id <= f.id
      BY <1>5, <1>6, <2>1, <2>2 DEF IsMaxId, FileName
    <3> QED
      BY <2>2, <3>1
  <2>4. ActiveCurrent'
    <3>1. f = [id |-> f.id, base |-> f.base]
      BY <1>5, <2>1 DEF FileName
    <3> QED
      BY <2>1, <2>3, <3>1 DEF ActiveCurrent
  <2>5. \A g : HeadedIn(disk', g) => g.id <= segment_id'
    BY <1>3, <1>4, <1>6, <2>1, <2>3
  <2>6. \A g : OpenIn(disk', g) => g = active_fd'
    BY <1>3, <1>4, <1>5, <1>6, <2>1
  <2> QED
    BY <1>2, <2>4, <2>5, <2>6 DEF OInv
<1> QED
  BY <1>7, <1>8, <1>9

\* A call cut short may open its own segment, and leaves closed what was closed.
LEMMA InterruptedOpen ==
    ASSUME OInv, CInv', up, ~up', NEW f \in FileName \cup {Unlinked}, NEW w \in Seq(Frame),
           Interrupted(f, w), f = Current \/ ~Has(w, {"HEADER"})
    PROVE  OInv'
<1> DEFINE d == disk'
<1>1. PICK t \in 0 .. Len(w), torn \in BOOLEAN :
        d = StoreFd(f, SubSeq(w, 1, t) \o (IF torn THEN <<Torn>> ELSE <<>>), FALSE)
  BY DEF Interrupted
<1> DEFINE p == SubSeq(w, 1, t) \o (IF torn THEN <<Torn>> ELSE <<>>)
<1>2. p \in Seq(Frame) /\ \A i \in DOMAIN p : (i \in DOMAIN w /\ p[i] = w[i]) \/ p[i].kind = "TORN"
  BY PrefixFrames
<1>3. d = StoreFd(f, p, FALSE) /\ FALSE \in BOOLEAN /\ DiskType(disk) /\ DiskType(d)
      /\ segment_id \in Nat
  BY <1>1 DEF OInv, CInv, IInv, TypeOK, CatalogueType
<1> HIDE DEF p, d
<1>4. Written(d, f, p)
  BY <1>2, <1>3, StoreWritten
<1>5. Has(p, {"HEADER"}) => Has(w, {"HEADER"})
  BY <1>2 DEF Has
<1>6. /\ \A g : HeadedIn(d, g) => HeadedIn(disk, g) \/ (g = f /\ f = Current)
      /\ \A g : ClosedIn(disk, g) => ClosedIn(d, g)
  BY <1>4, <1>5, WrittenOpen
<1>7. \A g : HeadedIn(d, g) => g \in FileName /\ g # NoFile /\ g # Unlinked
  <2>1. NoFile \notin FileName /\ Unlinked \notin FileName
    BY DEF NoFile, Unlinked, FileName
  <2> QED
    BY <1>3, <2>1, HeadedNamed
<1>8. Current # Unlinked => Current.id = segment_id
  BY DEF OInv, ActiveCurrent, Current
<1>9. \A g : HeadedIn(d, g) => g.id <= segment_id
  <2> SUFFICES ASSUME NEW g, HeadedIn(d, g) PROVE g.id <= segment_id
    OBVIOUS
  <2>1. CASE HeadedIn(disk, g)
    BY <2>1 DEF OInv
  <2>2. CASE g = Current
    <3>1. g.id = segment_id
      BY <1>7, <1>8, <2>2
    <3> QED
      BY <1>3, <3>1
  <2> QED
    BY <1>6, <2>1, <2>2
<1>10. \A g : OpenIn(d, g) => g = Current
  <2> SUFFICES ASSUME NEW g, OpenIn(d, g), HeadedIn(disk, g) PROVE g = Current
    BY <1>6 DEF OpenIn
  <2>1. g = active_fd
    BY <1>6 DEF OpenIn, OInv
  <2> QED
    BY <1>7, <2>1 DEF OpenIn, Current
<1>11. \A g, h : OpenIn(d, g) /\ HeadedIn(d, h) => h.id <= g.id /\ (OpenIn(d, h) => h = g)
  BY <1>7, <1>8, <1>9, <1>10 DEF OpenIn
<1> QED
  BY <1>11 DEF OInv, d

LEMMA StopOpens == Faults \subseteq {"fsync"} /\ OInv /\ CInv' /\ Stop => OInv'
<1> SUFFICES ASSUME Faults \subseteq {"fsync"}, OInv, CInv', Stop PROVE OInv'
  OBVIOUS
<1>1. IInv /\ TypeOK /\ next_lsn \in Nat /\ active_fd \in FileName \cup {NoFile, Unlinked}
      /\ segment_id \in Nat /\ current_base_lsn \in Nat
  BY DEF OInv, CInv, IInv, TypeOK, CatalogueType
<1>2. CASE ProcessEnds
  <2>1. up /\ ~up' /\ disk' = disk
    BY <1>2 DEF ProcessEnds, Down
  <2>2. \A g : HeadedIn(disk, g) => g \in FileName /\ g # NoFile /\ g # Unlinked
    <3>1. NoFile \notin FileName /\ Unlinked \notin FileName
      BY DEF NoFile, Unlinked, FileName
    <3> QED
      BY <1>1, <3>1, HeadedNamed DEF TypeOK
  <2>3. \A f, g : OpenIn(disk, f) /\ HeadedIn(disk, g) => g.id <= f.id /\ (OpenIn(disk, g) => g = f)
    <3> SUFFICES ASSUME NEW f, NEW g, OpenIn(disk, f), HeadedIn(disk, g)
                 PROVE  g.id <= f.id /\ (OpenIn(disk, g) => g = f)
      OBVIOUS
    <3>1. f = active_fd /\ g.id <= segment_id /\ (OpenIn(disk, g) => g = active_fd)
      BY <2>1 DEF OInv
    <3>2. f = [id |-> segment_id, base |-> current_base_lsn]
      BY <2>1, <2>2, <3>1 DEF OInv, ActiveCurrent, OpenIn
    <3> QED
      BY <3>1, <3>2
  <2> QED
    BY <2>1, <2>3 DEF OInv
<1>3. CASE CrashInAppend
  <2> DEFINE o == AfterOpen("ok")
             none == <<>>
             fr == Fr("SEAL", o.lsn + 1, 0)
             seal == IF o.space + 1 >= MaxSegSize THEN <<fr>> ELSE none
             w == o.wrote \o <<Row(o.lsn)>> \o seal
  <2>1. up /\ ~up' /\ Interrupted(o.file, w)
    BY <1>3 DEF CrashInAppend, Down
  <2>2. "ok" \in WriteOutcome /\ o = AfterOpen("ok")
    BY DEF WriteOutcome
  <2>3. o.file = Current
    BY DEF AfterOpen, Current
  <2> HIDE DEF o
  <2>4. o.file \in FileName \cup {Unlinked} /\ o.lsn \in Nat /\ o.wrote \in Seq(Frame)
    BY <1>1, <2>2, AfterOpenType
  <2>5. Row(o.lsn) \in Frame
    BY <1>1, <2>4, RowType
  <2>6. fr \in Frame
    BY <2>4, FrameType DEF Kinds
  <2> HIDE DEF fr
  <2>7. seal \in Seq(Frame)
    BY <2>6
  <2> HIDE DEF seal
  <2>8. w \in Seq(Frame)
    BY <2>4, <2>5, <2>7
  <2> HIDE DEF w
  <2> QED
    BY <2>1, <2>3, <2>4, <2>8, InterruptedOpen
<1>4. ASSUME up, ~up', NEW f \in FileName \cup {Unlinked}, NEW kind \in {"CHECKPOINT", "SHUTDOWN"},
             Interrupted(f, <<Fr(kind, next_lsn, 0)>>)
      PROVE  OInv'
  <2> DEFINE fr == Fr(kind, next_lsn, 0)
             w == <<fr>>
  <2>1. fr \in Frame /\ fr.kind # "HEADER"
    BY <1>1, FrameType DEF Kinds, Fr
  <2>2. Interrupted(f, w)
    BY <1>4
  <2> HIDE DEF fr
  <2>3. w \in Seq(Frame) /\ ~Has(w, {"HEADER"})
    BY <2>1 DEF Has
  <2> HIDE DEF w
  <2> QED
    BY <1>4, <2>2, <2>3, InterruptedOpen
<1>5. CASE CrashInCheckpoint
  <2> DEFINE f == [id |-> segment_id, base |-> current_base_lsn]
  <2>1. f \in FileName \cup {Unlinked}
    BY <1>1 DEF FileName
  <2>2. up /\ ~up' /\ Interrupted(f, <<Fr("CHECKPOINT", next_lsn, 0)>>)
    BY <1>5 DEF CrashInCheckpoint, Down
  <2> HIDE DEF f
  <2> QED
    BY <1>4, <2>1, <2>2
<1>6. CASE CrashInShutdown
  <2>1. up /\ ~up' /\ Interrupted(active_fd, <<Fr("SHUTDOWN", next_lsn, 0)>>) /\ active_fd # NoFile
    BY <1>6 DEF CrashInShutdown, Down
  <2> QED
    BY <1>1, <1>4, <2>1
<1>7. CASE CrashInRecovery
  <2>1. PICK cut \in SUBSET Damaged : Truncate(cut, TRUE)
    BY <1>7 DEF CrashInRecovery
  <2>2. \A f : (HeadedIn(disk', f) <=> HeadedIn(disk, f)) /\ (OpenIn(disk', f) <=> OpenIn(disk, f))
    BY <1>1, <2>1, TruncateOpens
  <2>3. ~up /\ ~up'
    BY <1>7 DEF CrashInRecovery
  <2> QED
    BY <2>2, <2>3 DEF OInv
<1>8. CASE PowerLoss
  BY <1>8 DEF PowerLoss
<1> QED
  BY <1>2, <1>3, <1>5, <1>6, <1>7, <1>8 DEF Stop

-----------------------------------------------------------------------------
(* The theorem.                                                            *)

LEMMA OpenInvariance == Faults \subseteq {"fsync"} => (Spec => []OInv)
<1> SUFFICES ASSUME Faults \subseteq {"fsync"} PROVE Spec => []OInv
  OBVIOUS
<1>1. Init => OInv
  <2> SUFFICES ASSUME Init PROVE OInv
    OBVIOUS
  <2>1. CInv
    BY InitIInv DEF CInv, Init
  <2> QED
    BY <2>1 DEF OInv, Init, OpenIn, HeadedIn, FrameIn
<1>2. OInv /\ CInv' /\ [Next]_vars => OInv'
  BY AppendOpens, MarkersOpen, PruneOpens, QuietOpens, RecoverOpens, StopOpens DEF Next, Quiet
<1> QED
  BY <1>1, <1>2, CleanInvariance, PTL DEF Spec

LEMMA NextDInv ==
    /\ Strategy = "ALWAYS"
    /\ "fsync" \notin Faults \/ (up => ActiveCurrent)
    /\ DInv /\ IInv' /\ [Next]_vars
    => DInv'
<1> SUFFICES ASSUME Strategy = "ALWAYS", "fsync" \notin Faults \/ (up => ActiveCurrent),
                    DInv, IInv', [Next]_vars
             PROVE  DInv'
  OBVIOUS
<1>1. CASE AppendSealUnsynced
  <2>1. up /\ "fsync" \in Faults
    BY <1>1 DEF AppendSealUnsynced, AppendCall, FsyncOutcome
  <2> QED
    BY <1>1, <2>1, AppendSealUnsyncedExposes
<1>2. CASE AppendFails \/ AppendRow \/ AppendSeals
  BY <1>2, AppendFailsExposes, AppendRowExposes, AppendSealsExposes
<1>3. CASE Sync \/ Checkpoint \/ ShutdownSeal \/ Prune
  BY <1>3, SyncExposes, CheckpointExposes, ShutdownSealExposes, PruneExposes
<1>4. CASE Quiet
  BY <1>4, QuietExposes
<1>5. CASE Recover \/ Stop
  BY <1>5, RecoverExposes, StopExposes
<1> QED
  BY <1>1, <1>2, <1>3, <1>4, <1>5 DEF Next, AppendStep, Quiet

\* With Strategy "ALWAYS", every row this WAL object wrote at or below durable_lsn is covered by
\* an fsync: under failed writes and power loss, if no fsync fails, and when fsyncs alone fail;
\* with the prune worker or without, for any segment size.
THEOREM DurableIsSynced ==
    Strategy = "ALWAYS" /\ ("fsync" \notin Faults \/ Faults \subseteq {"fsync"})
      => (Spec => []DurableLsnHonest)
<1> SUFFICES ASSUME Strategy = "ALWAYS", "fsync" \notin Faults \/ Faults \subseteq {"fsync"}
             PROVE  Spec => []DurableLsnHonest
  OBVIOUS
<1>1. Init => DInv
  <2> SUFFICES ASSUME Init PROVE DInv
    OBVIOUS
  <2>1. IInv
    BY InitIInv
  <2> QED
    BY <2>1 DEF DInv, Init, RowsPositive, RowIn
<1>2. Spec => []("fsync" \notin Faults \/ (up => ActiveCurrent))
  <2>1. CASE "fsync" \notin Faults
    <3>1. "fsync" \notin Faults \/ (up => ActiveCurrent)
      BY <2>1
    <3>2. ("fsync" \notin Faults \/ (up => ActiveCurrent))'
      BY <2>1
    <3>3. Init => ("fsync" \notin Faults \/ (up => ActiveCurrent))
      BY <2>1
    <3>4. ("fsync" \notin Faults \/ (up => ActiveCurrent)) /\ [Next]_vars =>
            ("fsync" \notin Faults \/ (up => ActiveCurrent))'
      BY <2>1
    <3> QED
      BY <3>3, <3>4, PTL DEF Spec
  <2>2. CASE Faults \subseteq {"fsync"}
    <3>1. OInv => ("fsync" \notin Faults \/ (up => ActiveCurrent))
      BY DEF OInv
    <3> QED
      BY <2>2, <3>1, OpenInvariance, PTL
  <2> QED
    BY <2>1, <2>2
<1>3. /\ "fsync" \notin Faults \/ (up => ActiveCurrent)
      /\ DInv /\ IInv' /\ [Next]_vars
      => DInv'
  BY NextDInv
<1>4. DInv => DurableLsnHonest
  <2> SUFFICES ASSUME DInv, NEW f \in DOMAIN disk, NEW i \in DOMAIN disk[f].frames,
                      LiveRow(f, i), boot_lsn <= disk[f].frames[i].lsn,
                      disk[f].frames[i].lsn <= durable_lsn
               PROVE  i <= disk[f].synced
    BY DEF DurableLsnHonest
  <2>1. RowIn(disk, f, i) /\ DiskType(disk) /\ durable_lsn \in Nat
    BY DEF RowIn, LiveRow, DInv, IInv, TypeOK, CatalogueType
  <2>2. disk[f].frames[i].lsn \in Nat /\ i \in Nat /\ disk[f].synced \in Nat
    BY <2>1, RowsAreFrames DEF DiskType, File
  <2>3. disk[f].frames[i].lsn > 0
    BY <2>1 DEF DInv, RowsPositive
  <2>4. up
    BY <2>1, <2>2, <2>3 DEF DInv
  <2>5. ~(i > disk[f].synced)
    <3> SUFFICES ASSUME i > disk[f].synced PROVE FALSE
      OBVIOUS
    <3>1. durable_lsn < disk[f].frames[i].lsn
      BY <2>1, <2>4 DEF DInv, Exposed
    <3> QED
      BY <2>1, <2>2, <3>1
  <2> QED
    BY <2>2, <2>5
<1> QED
  BY <1>1, <1>2, <1>3, <1>4, Invariance, PTL DEF Spec
=============================================================================
