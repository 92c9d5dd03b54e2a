------------------------------ MODULE LsmProofs ------------------------------
(***************************************************************************)
(* Theorems about LsmEngine for every value of its constants: any number   *)
(* of appends, failed writes and iterators, any size of an sstable; and    *)
(* about what a coordinator's sweep makes of a bucket of any size.         *)
(***************************************************************************)
EXTENDS LsmEngine, TLAPS, FiniteSetTheorems, SequenceTheorems, WellFoundedInduction

-----------------------------------------------------------------------------
(* What append is given.                                                   *)

Record == [key : Keys, val : Nat]

\* A call's argument, as the proofs use it.
Given(records) ==
    /\ records \in Seq(Record)
    /\ Len(records) \in Nat \ {0}
    /\ Head(records).key \in Keys
    /\ Last(records).key \in Keys
    /\ Head(records).key <= Last(records).key
    /\ KeysOf(records) \subseteq Keys

PlanType == plan \in [appends : Nat, batches : SUBSET Batches, faults : Nat, opens : Nat]

LEMMA BatchGiven ==
    ASSUME PlanType, NEW batch \in plan.batches
    PROVE  Given(Records(batch))
<1> DEFINE records == Records(batch)
<1>1. batch \in Seq(Keys) /\ batch # <<>> /\ plan.appends \in Nat
      /\ \A i, j \in DOMAIN batch : i < j => batch[i] <= batch[j]
  BY DEF PlanType, Batches
<1>2. DOMAIN batch = 1 .. Len(batch) /\ Len(batch) \in Nat \ {0}
      /\ \A i \in 1 .. Len(batch) : batch[i] \in Keys
  BY <1>1
<1>3. records = [i \in 1 .. Len(batch) |-> [key |-> batch[i], val |-> plan.appends]]
  BY <1>2 DEF Records
<1>4. \A i \in 1 .. Len(batch) : [key |-> batch[i], val |-> plan.appends] \in Record
  BY <1>1, <1>2 DEF Record
<1>5. records \in Seq(Record) /\ Len(records) = Len(batch)
      /\ \A i \in 1 .. Len(batch) : records[i].key = batch[i]
  BY <1>2, <1>3, <1>4
<1> HIDE DEF records
<1>6. Head(records) = records[1] /\ Last(records) = records[Len(batch)]
  BY <1>2, <1>5 DEF Last
<1>7. 1 \in DOMAIN batch /\ Len(batch) \in DOMAIN batch
  BY <1>2
<1>8. Head(records).key <= Last(records).key
  <2>1. CASE Len(batch) = 1
    <3>1. 1 \in 1 .. Len(batch)
      BY <2>1
    <3>2. batch[1] \in Keys
      BY <1>2, <3>1
    <3>3. Keys \subseteq Nat
      BY LsmAssumption DEF LsmAssumption
    <3>4. batch[1] \in Nat
      BY <3>2, <3>3
    <3>5. Head(records).key = batch[1] /\ Last(records).key = batch[1]
      BY <1>5, <1>6, <2>1, <3>1
    <3> QED
      BY <3>4, <3>5
  <2>2. CASE Len(batch) # 1
    <3>1. 1 < Len(batch)
      BY <1>2, <2>2
    <3>2. batch[1] <= batch[Len(batch)]
      BY <1>1, <1>7, <3>1
    <3> QED
      BY <1>2, <1>5, <1>6, <3>2
  <2> QED
    BY <2>1, <2>2
<1>9. KeysOf(records) \subseteq Keys
  BY <1>2, <1>5 DEF KeysOf
<1> QED
  BY <1>2, <1>5, <1>6, <1>8, <1>9 DEF Given, records

-----------------------------------------------------------------------------
(* Files.                                                                  *)

IsSeq(s) == \E S : s \in Seq(S)

LEMMA IsSeqLen ==
    ASSUME NEW s, IsSeq(s)
    PROVE  Len(s) \in Nat /\ DOMAIN s = 1 .. Len(s)
  BY DEF IsSeq

LEMMA IsSeqConcat ==
    ASSUME NEW s, NEW t, IsSeq(s), IsSeq(t)
    PROVE  IsSeq(s \o t)
<1>1. PICK S : s \in Seq(S)
  BY DEF IsSeq
<1>2. PICK T : t \in Seq(T)
  BY DEF IsSeq
<1>3. s \in Seq(S \cup T) /\ t \in Seq(S \cup T)
  BY <1>1, <1>2, SeqMonotonic
<1>4. s \o t \in Seq(S \cup T)
  BY <1>3
<1> QED
  BY <1>4 DEF IsSeq

LEMMA IsSeqOne ==
    ASSUME NEW x
    PROVE  IsSeq(<<x>>)
<1>1. <<x>> \in Seq({x})
  OBVIOUS
<1> QED
  BY <1>1 DEF IsSeq

\* What a failed write leaves.
LEMMA PartIsSeq ==
    ASSUME NEW s, IsSeq(s), NEW part \in PartsOf(s)
    PROVE  IsSeq(part)
<1>1. PICK S : s \in Seq(S)
  BY DEF IsSeq
<1>2. PICK n \in 0 .. Len(s) - 1 : part = SubSeq(s, 1, n) \/ part = Append(SubSeq(s, 1, n), Torn)
  BY DEF PartsOf
<1> DEFINE p == SubSeq(s, 1, n)
<1>3. p \in Seq(S)
  <2>1. \A i \in 1 .. n : s[i] \in S
    BY <1>1
  <2> QED
    BY <2>1, SubSeqProperties
<1> HIDE DEF p
<1>4. p \in Seq(S \cup {Torn}) /\ Torn \in S \cup {Torn}
  BY <1>3, SeqMonotonic
<1>5. Append(p, Torn) \in Seq(S \cup {Torn})
  BY <1>4
<1> QED
  BY <1>2, <1>3, <1>5 DEF IsSeq, p

LEMMA BytesAreSeq ==
    ASSUME NEW records, Given(records)
    PROVE  IsSeq(compute_db_bytes(records)) /\ IsSeq(FirstBytes(records))
<1> DEFINE rows == [i \in DOMAIN records |-> RowCell(records[i])]
<1>1. DOMAIN records = 1 .. Len(records) /\ Len(records) \in Nat
  BY DEF Given
<1>2. rows \in Seq({RowCell(records[i]) : i \in DOMAIN records})
  BY <1>1
<1>3. IsSeq(rows)
  BY <1>2 DEF IsSeq
<1> HIDE DEF rows
<1>4. IsSeq(rows \o <<BlockEnd(Len(records))>>)
  BY <1>3, IsSeqOne, IsSeqConcat
<1>5. IsSeq(compute_db_bytes(records))
  BY <1>4 DEF compute_db_bytes, rows
<1>6. IsSeq(<<Header>> \o compute_db_bytes(records))
  BY <1>5, IsSeqOne, IsSeqConcat
<1> QED
  BY <1>5, <1>6 DEF FirstBytes

LEMMA FooterIsSeq == ASSUME NEW records PROVE IsSeq(ClosingBytes(records))
  BY IsSeqOne DEF ClosingBytes, Footer

FilesType(d) == \A p \in DOMAIN d : IsSeq(d[p])

LEMMA StoredType ==
    ASSUME FilesType(disk), NEW path, NEW bytes, IsSeq(bytes)
    PROVE  FilesType(Stored(path, bytes)) /\ DOMAIN Stored(path, bytes) = DOMAIN disk \cup {path}
<1>1. IsSeq(File(path))
  <2>1. <<>> \in Seq({})
    OBVIOUS
  <2> QED
    BY <2>1 DEF File, FilesType, IsSeq
<1>2. IsSeq(File(path) \o bytes)
  BY <1>1, IsSeqConcat
<1> QED
  BY <1>2 DEF Stored, FilesType

-----------------------------------------------------------------------------
(* Files, descriptor and index.                                            *)

(* What keeps TypeOK: an open descriptor is on a file that is there, since  *)
(* every opening that keeps it writes to the file, if only a part.         *)
FilesInv ==
    /\ PlanType
    /\ current_sstable_id \in Nat \ {0}
    /\ active_file_descriptor \in {None, current_sstable_id, current_sstable_id - 1}
    /\ active_file_descriptor # None => active_file_descriptor \in DOMAIN disk
    /\ FilesType(disk)
    /\ DOMAIN disk \subseteq 1 .. current_sstable_id
    /\ DOMAIN sent \subseteq DOMAIN disk
    /\ hurt \subseteq DOMAIN disk
    /\ bloom \subseteq Keys
    /\ data_block_offsets \in Seq(Nat)
    /\ first_keys_sstable_list \in Seq(Keys)
    /\ Len(data_block_offsets) = Len(first_keys_sstable_list)

LEMMA PlanSteps ==
    ASSUME PlanType, Calls \/ CallsAndFails \/ (plan.opens > 0 /\ plan' = [plan EXCEPT !.opens = @ - 1])
    PROVE  PlanType'
<1> DEFINE B == SUBSET Batches
<1>1. plan \in [appends : Nat, batches : B, faults : Nat, opens : Nat]
  BY DEF PlanType
<1> HIDE DEF B
<1>2. plan' \in [appends : Nat, batches : B, faults : Nat, opens : Nat]
  <2>1. CASE Calls
    BY <1>1, <2>1 DEF Calls
  <2>2. CASE CallsAndFails
    <3>1. PICK half : half = [plan EXCEPT !.appends = @ - 1]
      OBVIOUS
    <3>2. half \in [appends : Nat, batches : B, faults : Nat, opens : Nat]
          /\ half.faults = plan.faults
      BY <1>1, <2>2, <3>1 DEF CallsAndFails
    <3>3. plan' = [half EXCEPT !.faults = @ - 1] /\ half.faults > 0
      BY <2>2, <3>1, <3>2 DEF CallsAndFails
    <3> QED
      BY <3>2, <3>3
  <2>3. CASE plan.opens > 0 /\ plan' = [plan EXCEPT !.opens = @ - 1]
    BY <1>1, <2>3
  <2> QED
    BY <2>1, <2>2, <2>3
<1> QED
  BY <1>2 DEF PlanType, B

\* A write to one file, whole or not, with what is told of it.
LEMMA WriteFiles ==
    ASSUME FilesInv, NEW path, NEW bytes, IsSeq(bytes), disk' = Stored(path, bytes),
           current_sstable_id' \in {current_sstable_id, current_sstable_id + 1},
           path \in 1 .. current_sstable_id,
           DOMAIN sent' \subseteq DOMAIN sent \cup {path}, hurt' \subseteq hurt \cup {path}
    PROVE  /\ FilesType(disk)' /\ DOMAIN disk' = DOMAIN disk \cup {path}
           /\ DOMAIN disk' \subseteq 1 .. current_sstable_id'
           /\ DOMAIN sent' \subseteq DOMAIN disk' /\ hurt' \subseteq DOMAIN disk'
<1>1. FilesType(disk)' /\ DOMAIN disk' = DOMAIN disk \cup {path}
  BY StoredType DEF FilesInv
<1>2. 1 .. current_sstable_id \subseteq 1 .. current_sstable_id'
  BY DEF FilesInv
<1> QED
  BY <1>1, <1>2 DEF FilesInv

LEMMA BlockKept ==
    ASSUME FilesInv, NEW records, Given(records), KeepsBlock(records), Path # None
    PROVE  /\ data_block_offsets' \in Seq(Nat) /\ first_keys_sstable_list' \in Seq(Keys)
           /\ Len(data_block_offsets') = Len(first_keys_sstable_list')
           /\ bloom' \subseteq Keys
<1>1. Len(File(Path)) \in Nat
  BY IsSeqLen DEF FilesInv, FilesType, File, Path
<1>2. data_block_offsets' = Append(data_block_offsets, Len(File(Path)))
      /\ first_keys_sstable_list' = Append(first_keys_sstable_list, Head(records).key)
      /\ bloom' = bloom \cup KeysOf(records)
  BY DEF KeepsBlock, Offsets, FirstKeys, Filter
<1>3. Head(records).key \in Keys /\ KeysOf(records) \subseteq Keys
  BY DEF Given
<1> QED
  BY <1>1, <1>2, <1>3 DEF FilesInv

LEMMA OpeningFiles ==
    ASSUME FilesInv, NEW records, Given(records),
           AppendCannotOpen(records) \/ AppendOpens(records) \/ AppendOpensInPart(records)
    PROVE  FilesInv'
<1>1. current_sstable_id \in Nat \ {0} /\ current_sstable_id \in 1 .. current_sstable_id
  BY DEF FilesInv
<1>2. IsSeq(FirstBytes(records)) /\ Head(records).key \in Keys /\ KeysOf(records) \subseteq Keys
  BY BytesAreSeq DEF Given
<1>3. CASE AppendCannotOpen(records)
  <2>1. PlanType'
    BY <1>3, PlanSteps DEF AppendCannotOpen, FilesInv
  <2> QED
    BY <1>3, <2>1 DEF AppendCannotOpen, FilesInv
<1>4. ASSUME OpenedWith(records)
      PROVE  /\ data_block_offsets' \in Seq(Nat) /\ first_keys_sstable_list' \in Seq(Keys)
             /\ Len(data_block_offsets') = Len(first_keys_sstable_list')
             /\ bloom' \subseteq Keys /\ active_file_descriptor' = current_sstable_id
  <2>1. data_block_offsets' = <<1>> /\ first_keys_sstable_list' = <<Head(records).key>>
        /\ bloom' = KeysOf(records) /\ active_file_descriptor' = current_sstable_id
    BY <1>4 DEF OpenedWith
  <2>2. <<1>> \in Seq(Nat) /\ <<Head(records).key>> \in Seq(Keys)
        /\ Len(<<1>>) = Len(<<Head(records).key>>)
    BY <1>2
  <2> QED
    BY <1>2, <2>1, <2>2
<1>5. CASE AppendOpens(records)
  <2>1. PlanType' /\ OpenedWith(records) /\ current_sstable_id' = current_sstable_id + 1
    BY <1>5, PlanSteps DEF AppendOpens, FilesInv
  <2>2. disk' = Stored(current_sstable_id, FirstBytes(records)) /\ hurt' = hurt
        /\ DOMAIN sent' = DOMAIN sent \cup {current_sstable_id}
    BY <1>5 DEF AppendOpens, Acked
  <2>3. /\ FilesType(disk)' /\ DOMAIN disk' = DOMAIN disk \cup {current_sstable_id}
        /\ DOMAIN disk' \subseteq 1 .. current_sstable_id'
        /\ DOMAIN sent' \subseteq DOMAIN disk' /\ hurt' \subseteq DOMAIN disk'
    BY <1>1, <1>2, <2>1, <2>2, WriteFiles
  <2>4. active_file_descriptor' = current_sstable_id' - 1 /\ current_sstable_id' \in Nat \ {0}
    BY <1>1, <1>4, <2>1
  <2> QED
    BY <1>4, <2>1, <2>3, <2>4 DEF FilesInv
<1>6. CASE AppendOpensInPart(records)
  <2>1. PlanType' /\ OpenedWith(records) /\ current_sstable_id' = current_sstable_id
    BY <1>6, PlanSteps DEF AppendOpensInPart, FilesInv
  <2>2. PICK part \in PartsOf(FirstBytes(records)) : disk' = Stored(current_sstable_id, part)
    BY <1>6 DEF AppendOpensInPart
  <2>3. IsSeq(part) /\ hurt' = hurt \cup {current_sstable_id} /\ sent' = sent
    BY <1>2, <1>6, <2>2, PartIsSeq DEF AppendOpensInPart, Hurt
  <2>4. /\ FilesType(disk)' /\ DOMAIN disk' = DOMAIN disk \cup {current_sstable_id}
        /\ DOMAIN disk' \subseteq 1 .. current_sstable_id'
        /\ DOMAIN sent' \subseteq DOMAIN disk' /\ hurt' \subseteq DOMAIN disk'
    BY <1>1, <2>1, <2>2, <2>3, WriteFiles
  <2> QED
    BY <1>1, <1>4, <2>1, <2>4 DEF FilesInv
<1> QED
  BY <1>3, <1>5, <1>6

LEMMA AddingFiles ==
    ASSUME FilesInv, NEW records, Given(records),
           \/ AppendAddsInPart(records) \/ AppendAdds(records)
           \/ AppendCloses(records) \/ AppendClosesInPart(records)
    PROVE  FilesInv'
<1>1. Path # None /\ current_sstable_id' = current_sstable_id
  BY DEF AppendAddsInPart, AppendAdds, AppendCloses, AppendClosesInPart, Closes, AddsBlock
<1>2. Path \in DOMAIN disk /\ Path \in 1 .. current_sstable_id /\ current_sstable_id \in Nat \ {0}
  BY <1>1 DEF FilesInv, Path
<1>3. IsSeq(compute_db_bytes(records)) /\ IsSeq(ClosingBytes(records))
  BY BytesAreSeq, FooterIsSeq
<1>4. PlanType'
  BY PlanSteps DEF AppendAddsInPart, AppendAdds, AppendCloses, AppendClosesInPart, FilesInv
<1>5. \E bytes : IsSeq(bytes) /\ disk' = Stored(Path, bytes)
  <2>1. CASE AppendAddsInPart(records)
    <3>1. PICK part \in PartsOf(compute_db_bytes(records)) : disk' = Stored(Path, part)
      BY <2>1 DEF AppendAddsInPart
    <3> QED
      BY <1>3, <3>1, PartIsSeq
  <2>2. CASE AppendAdds(records)
    BY <1>3, <2>2 DEF AppendAdds
  <2>3. CASE AppendCloses(records)
    <3>1. disk' = Stored(Path, compute_db_bytes(records) \o ClosingBytes(records))
      BY <2>3 DEF AppendCloses
    <3> QED
      BY <1>3, <3>1, IsSeqConcat
  <2>4. CASE AppendClosesInPart(records)
    <3>1. PICK part \in PartsOf(ClosingBytes(records)) :
            disk' = Stored(Path, compute_db_bytes(records) \o part)
      BY <2>4 DEF AppendClosesInPart
    <3> QED
      BY <1>3, <3>1, PartIsSeq, IsSeqConcat
  <2> QED
    BY <2>1, <2>2, <2>3, <2>4
<1>6. DOMAIN sent' \subseteq DOMAIN sent \cup {Path} /\ hurt' \subseteq hurt \cup {Path}
  <2>1. CASE AppendAddsInPart(records)
    BY <2>1 DEF AppendAddsInPart, Hurt
  <2>2. CASE AppendAdds(records)
    BY <2>2 DEF AppendAdds, Acked
  <2>3. CASE AppendCloses(records)
    BY <2>3 DEF AppendCloses, Closes, Acked
  <2>4. CASE AppendClosesInPart(records)
    BY <2>4 DEF AppendClosesInPart, Closes, Acked, Hurt
  <2> QED
    BY <2>1, <2>2, <2>3, <2>4
<1>7. /\ FilesType(disk)' /\ DOMAIN disk' = DOMAIN disk \cup {Path}
      /\ DOMAIN disk' \subseteq 1 .. current_sstable_id'
      /\ DOMAIN sent' \subseteq DOMAIN disk' /\ hurt' \subseteq DOMAIN disk'
  <2>1. PICK bytes : IsSeq(bytes) /\ disk' = Stored(Path, bytes)
    BY <1>5
  <2> QED
    BY <1>1, <1>2, <1>6, <2>1, WriteFiles
<1>8. active_file_descriptor' = None \/ active_file_descriptor' = Path
  BY DEF AppendAddsInPart, AppendAdds, AppendCloses, AppendClosesInPart, Path
<1>9. /\ data_block_offsets' \in Seq(Nat) /\ first_keys_sstable_list' \in Seq(Keys)
      /\ Len(data_block_offsets') = Len(first_keys_sstable_list')
      /\ bloom' \subseteq Keys
  <2>1. CASE AppendCloses(records)
    <3>1. data_block_offsets' = <<>> /\ first_keys_sstable_list' = <<>> /\ bloom' = {}
      BY <2>1 DEF AppendCloses
    <3> QED
      BY <3>1
  <2>2. CASE ~AppendCloses(records)
    <3>1. KeepsBlock(records)
      BY <2>2 DEF AppendAddsInPart, AppendAdds, AppendClosesInPart
    <3> QED
      BY <1>1, <3>1, BlockKept
  <2> QED
    BY <2>1, <2>2
<1> QED
  BY <1>1, <1>2, <1>4, <1>7, <1>8, <1>9 DEF FilesInv, Path

\* Iterators are constructed, copied, read and destroyed.
IteratorStep ==
    \/ \E path : Open(path)
    \/ \E id : get_iterator(id) \/ NextDies(id) \/ Destroy(id)

LEMMA FilesStep ==
    ASSUME FilesInv, [Next]_vars
    PROVE  FilesInv'
<1>1. CASE \E batch \in plan.batches : append(Records(batch))
  <2>1. PICK batch \in plan.batches : append(Records(batch))
    BY <1>1
  <2>2. Given(Records(batch))
    BY BatchGiven DEF FilesInv
  <2> DEFINE records == Records(batch)
  <2>3. Given(records) /\ append(records)
    BY <2>1, <2>2
  <2> HIDE DEF records
  <2> QED
    BY <2>3, OpeningFiles, AddingFiles DEF append
<1>2. CASE (\E path : Open(path)) \/ (\E id : get_iterator(id))
  <2>1. PlanType'
    BY <1>2, PlanSteps DEF Open, get_iterator, Takes, FilesInv
  <2> QED
    BY <1>2, <2>1 DEF Open, get_iterator, FilesInv, FilesType, engine
<1>3. ASSUME UNCHANGED <<disk, engine, plan, sent, hurt>>
      PROVE  FilesInv'
  BY <1>3 DEF FilesInv, FilesType, PlanType, engine
<1>4. CASE \E id : NextDies(id) \/ Destroy(id)
  BY <1>3, <1>4 DEF NextDies, Destroy
<1>5. CASE FindOverlaps \/ GroupNext \/ UNCHANGED vars
  BY <1>3, <1>5 DEF FindOverlaps, GroupNext, vars
<1> QED
  BY <1>1, <1>2, <1>4, <1>5 DEF Next

LEMMA FilesInit == Init => FilesInv
<1> SUFFICES ASSUME Init PROVE FilesInv
  OBVIOUS
<1>1. PlanType
  BY LsmAssumption DEF LsmAssumption, Init, PlanType
<1>2. <<>> \in Seq(Nat) /\ <<>> \in Seq(Keys)
  OBVIOUS
<1>3. DOMAIN disk = {} /\ DOMAIN sent = {}
  BY DEF Init
<1> QED
  BY <1>1, <1>2, <1>3 DEF Init, FilesInv, FilesType

-----------------------------------------------------------------------------
(* Runs.                                                                   *)

OpeningRecord == {o \in [path : Nat, first : Keys, last : Keys] : o.first <= o.last}
RunRecord == [paths_to_files : Seq(Nat), first_key_run : Seq(Keys), last_key_run : Seq(Keys)]

AllRuns == Append(runs_list, active_run)

\* A run's files are those opened after the first so many, each with the keys of its opening.
KnowsFiles(run, base, openings) ==
    \A y \in 1 .. Len(run.paths_to_files) :
       openings[base + y] = [path |-> run.paths_to_files[y], first |-> run.first_key_run[y],
                           last |-> run.last_key_run[y]]

\* The openings, in fives, are the runs': the first four of each five have their paths there, and
\* what is left over is the active run's.
RunsInv ==
    /\ opened \in Seq(OpeningRecord)
    /\ runs_list \in Seq(RunRecord)
    /\ active_run \in RunRecord
    /\ Len(active_run.paths_to_files) \in 0 .. 4
    /\ Len(active_run.first_key_run) = Len(active_run.paths_to_files)
    /\ Len(active_run.last_key_run) = Len(active_run.paths_to_files)
    /\ Len(opened) = 5 * Len(runs_list) + Len(active_run.paths_to_files)
    /\ \A r \in 1 .. Len(runs_list) :
          Len(runs_list[r].paths_to_files) = 4 /\ KnowsFiles(runs_list[r], 5 * (r - 1), opened)
    /\ KnowsFiles(active_run, 5 * Len(runs_list), opened)

\* Whatever is open or listed was opened.
ListedInv ==
    /\ IsSeq(sstable_list)
    /\ Path # None => \E n \in DOMAIN opened : opened[n].path = Path
    /\ \A i \in DOMAIN sstable_list : \E n \in DOMAIN opened :
          opened[n].path = sstable_list[i].file_address

LEMMA RunsInit == Init => RunsInv /\ ListedInv
<1> SUFFICES ASSUME Init PROVE RunsInv /\ ListedInv
  OBVIOUS
<1>1. <<>> \in Seq(OpeningRecord) /\ <<>> \in Seq(RunRecord) /\ <<>> \in Seq(Nat) /\ <<>> \in Seq(Keys)
      /\ Len(<<>>) = 0
  OBVIOUS
<1>2. active_run \in RunRecord /\ active_run.paths_to_files = <<>>
      /\ active_run.first_key_run = <<>> /\ active_run.last_key_run = <<>>
  BY <1>1 DEF Init, EmptyRun, Run, RunRecord
<1>3. RunsInv
  BY <1>1, <1>2 DEF Init, RunsInv, KnowsFiles
<1>4. IsSeq(sstable_list) /\ DOMAIN sstable_list = {}
  BY <1>1 DEF Init, IsSeq
<1> QED
  BY <1>3, <1>4 DEF Init, ListedInv, Path

LEMMA KnowsMore ==
    ASSUME NEW S, NEW openings \in Seq(S), NEW o, NEW base \in Nat, NEW run \in RunRecord,
           KnowsFiles(run, base, openings), base + Len(run.paths_to_files) <= Len(openings)
    PROVE  KnowsFiles(run, base, Append(openings, o))
<1>1. Len(run.paths_to_files) \in Nat
  BY DEF RunRecord
<1>2. \A i \in 1 .. Len(openings) : Append(openings, o)[i] = openings[i]
  OBVIOUS
<1> QED
  BY <1>1, <1>2 DEF KnowsFiles

LEMMA OpeningRuns ==
    ASSUME RunsInv, FilesInv, NEW records, Given(records), RollOver(records),
           opened' = Append(opened, [path |-> current_sstable_id, first |-> Head(records).key,
                                     last |-> Last(records).key])
    PROVE  RunsInv'
<1> DEFINE id   == current_sstable_id
           fst  == Head(records).key
           lst  == Last(records).key
           o    == [path |-> id, first |-> fst, last |-> lst]
           ps   == active_run.paths_to_files
           fs   == active_run.first_key_run
           ls   == active_run.last_key_run
           n    == Len(ps)
           m    == Len(runs_list)
<1>1. id \in Nat /\ fst \in Keys /\ lst \in Keys /\ fst <= lst /\ opened' = Append(opened, o)
  BY DEF FilesInv, Given
<1>2. ps \in Seq(Nat) /\ fs \in Seq(Keys) /\ ls \in Seq(Keys) /\ n \in 0 .. 4
      /\ Len(fs) = n /\ Len(ls) = n /\ m \in Nat /\ Len(opened) = 5 * m + n
  BY DEF RunsInv, RunRecord
<1>3. WithKeys(active_run, records) = Run(ps, Append(fs, fst), Append(ls, lst))
  BY DEF WithKeys
<1>4. o \in OpeningRecord /\ o.path = id /\ o.first = fst /\ o.last = lst
  BY <1>1 DEF OpeningRecord
<1>5. \A y \in 1 .. n : opened[5 * m + y] = [path |-> ps[y], first |-> fs[y], last |-> ls[y]]
  BY DEF RunsInv, KnowsFiles
<1>6. opened \in Seq(OpeningRecord) /\ runs_list \in Seq(RunRecord)
      /\ \A r \in 1 .. m : Len(runs_list[r].paths_to_files) = 4 /\ KnowsFiles(runs_list[r], 5 * (r - 1), opened)
  BY DEF RunsInv
<1>7. (n < 4 /\ active_run' = Run(Append(ps, id), Append(fs, fst), Append(ls, lst))
              /\ runs_list' = runs_list)
      \/ (~(n < 4) /\ active_run' = EmptyRun
              /\ runs_list' = Append(runs_list, Run(ps, Append(fs, fst), Append(ls, lst))))
  BY <1>3 DEF RollOver, Run, WithPath
<1> HIDE DEF o, ps, fs, ls, id, fst, lst, n, m
<1>8. opened' \in Seq(OpeningRecord) /\ Len(opened') = Len(opened) + 1
      /\ opened'[Len(opened) + 1] = o
      /\ \A i \in 1 .. Len(opened) : opened'[i] = opened[i]
  BY <1>1, <1>4, <1>6
<1>9. \A r \in 1 .. m : KnowsFiles(runs_list[r], 5 * (r - 1), opened')
  <2> TAKE r \in 1 .. m
  <2>1. runs_list[r] \in RunRecord /\ Len(runs_list[r].paths_to_files) = 4
        /\ KnowsFiles(runs_list[r], 5 * (r - 1), opened)
    BY <1>6 DEF m
  <2>2. 5 * (r - 1) \in Nat /\ 5 * (r - 1) + 4 <= Len(opened)
    BY <1>2
  <2> QED
    BY <1>1, <1>6, <2>1, <2>2, KnowsMore
<1>10. CASE n < 4
  <2> DEFINE run == Run(Append(ps, id), Append(fs, fst), Append(ls, lst))
             qs == Append(ps, id)
             gs == Append(fs, fst)
             ks == Append(ls, lst)
  <2>1. active_run' = run /\ runs_list' = runs_list
    BY <1>7, <1>10
  <2>2. qs \in Seq(Nat) /\ gs \in Seq(Keys) /\ ks \in Seq(Keys)
        /\ Len(qs) = n + 1 /\ Len(gs) = n + 1 /\ Len(ks) = n + 1
    BY <1>1, <1>2 DEF n
  <2>3. \A y \in 1 .. n : qs[y] = ps[y] /\ gs[y] = fs[y] /\ ks[y] = ls[y]
    BY <1>1, <1>2 DEF n
  <2>4. qs[n + 1] = id /\ gs[n + 1] = fst /\ ks[n + 1] = lst
    BY <1>1, <1>2 DEF n
  <2> HIDE DEF qs, gs, ks
  <2>5. run = [paths_to_files |-> qs, first_key_run |-> gs, last_key_run |-> ks]
    BY DEF Run, qs, gs, ks
  <2> HIDE DEF run
  <2>6. run \in RunRecord
    BY <2>2, <2>5 DEF RunRecord
  <2>7. KnowsFiles(run, 5 * m, opened')
    <3>1. \A y \in 1 .. n + 1 : opened'[5 * m + y] = [path |-> qs[y], first |-> gs[y], last |-> ks[y]]
      <4> TAKE y \in 1 .. n + 1
      <4>1. CASE y \in 1 .. n
        <5>1. 5 * m + y \in 1 .. Len(opened)
          BY <1>2, <4>1
        <5> QED
          BY <1>5, <1>8, <2>3, <4>1, <5>1
      <4>2. CASE y = n + 1
        <5>1. 5 * m + y = Len(opened) + 1
          BY <1>2, <4>2
        <5> QED
          BY <1>8, <2>4, <4>2, <5>1 DEF o
      <4> QED
        BY <1>2, <4>1, <4>2
    <3> QED
      BY <2>2, <2>5, <3>1 DEF KnowsFiles
  <2>8. Len(opened') = 5 * m + (n + 1) /\ n + 1 \in 0 .. 4
    BY <1>2, <1>8, <1>10
  <2>9. run.paths_to_files = qs /\ run.first_key_run = gs /\ run.last_key_run = ks
    BY <2>5
  <2> QED
    BY <1>6, <1>8, <1>9, <2>1, <2>2, <2>6, <2>7, <2>8, <2>9 DEF RunsInv, m
<1>11. CASE ~(n < 4)
  <2> DEFINE run == Run(ps, Append(fs, fst), Append(ls, lst))
             gs == Append(fs, fst)
             ks == Append(ls, lst)
  <2>1. active_run' = EmptyRun /\ runs_list' = Append(runs_list, run) /\ n = 4
    BY <1>2, <1>7, <1>11
  <2>2. gs \in Seq(Keys) /\ ks \in Seq(Keys)
        /\ \A y \in 1 .. n : gs[y] = fs[y] /\ ks[y] = ls[y]
    BY <1>1, <1>2
  <2> HIDE DEF gs, ks
  <2>3. run = [paths_to_files |-> ps, first_key_run |-> gs, last_key_run |-> ks]
    BY DEF Run, gs, ks
  <2> HIDE DEF run
  <2>4. run \in RunRecord
    BY <1>2, <2>2, <2>3 DEF RunRecord
  <2>5. Len(run.paths_to_files) = 4 /\ KnowsFiles(run, 5 * m, opened')
    <3>1. \A y \in 1 .. n : opened'[5 * m + y] = [path |-> ps[y], first |-> gs[y], last |-> ks[y]]
      <4> TAKE y \in 1 .. n
      <4>1. 5 * m + y \in 1 .. Len(opened)
        BY <1>2
      <4> QED
        BY <1>5, <1>8, <2>2, <4>1
    <3> QED
      BY <2>1, <2>3, <3>1 DEF KnowsFiles, n
  <2>6. runs_list' \in Seq(RunRecord) /\ Len(runs_list') = m + 1 /\ runs_list'[m + 1] = run
        /\ \A r \in 1 .. m : runs_list'[r] = runs_list[r]
    BY <1>6, <2>1, <2>4 DEF m
  <2>7. \A r \in 1 .. m + 1 :
           Len(runs_list'[r].paths_to_files) = 4 /\ KnowsFiles(runs_list'[r], 5 * (r - 1), opened')
    <3> TAKE r \in 1 .. m + 1
    <3>1. CASE r \in 1 .. m
      BY <1>6, <1>9, <2>6, <3>1
    <3>2. CASE r = m + 1
      <4>1. 5 * (r - 1) = 5 * m
        BY <1>2, <3>2
      <4> QED
        BY <2>5, <2>6, <3>2, <4>1
    <3> QED
      BY <1>2, <3>1, <3>2
  <2>8. active_run'.paths_to_files = <<>> /\ active_run'.first_key_run = <<>>
        /\ active_run'.last_key_run = <<>> /\ active_run' \in RunRecord /\ Len(<<>>) = 0
    BY <2>1 DEF EmptyRun, Run, RunRecord
  <2>9. KnowsFiles(active_run', 5 * Len(runs_list'), opened')
    BY <2>8 DEF KnowsFiles
  <2>10. Len(opened') = 5 * (m + 1)
    BY <1>2, <1>8, <2>1
  <2>11. 0 \in 0 .. 4 /\ 5 * (m + 1) = 5 * (m + 1) + 0
    BY <1>2
  <2> QED
    BY <1>8, <2>6, <2>7, <2>8, <2>9, <2>10, <2>11 DEF RunsInv
<1> QED
  BY <1>10, <1>11

LEMMA RunsStep ==
    ASSUME RunsInv, FilesInv, [Next]_vars
    PROVE  RunsInv'
<1>1. ASSUME UNCHANGED runs PROVE RunsInv'
  BY <1>1 DEF RunsInv, runs
<1>2. CASE \E batch \in plan.batches : append(Records(batch))
  <2>1. PICK batch \in plan.batches : append(Records(batch))
    BY <1>2
  <2>2. Given(Records(batch))
    BY BatchGiven DEF FilesInv
  <2> DEFINE records == Records(batch)
  <2>3. Given(records) /\ append(records)
    BY <2>1, <2>2
  <2> HIDE DEF records
  <2>4. CASE AppendCannotOpen(records) \/ AppendOpens(records) \/ AppendOpensInPart(records)
    <3>1. Opening(records)
      BY <2>4 DEF AppendCannotOpen, AppendOpens, AppendOpensInPart, OpenedWith
    <3> QED
      BY <2>3, <3>1, OpeningRuns DEF Opening
  <2>5. CASE AppendAddsInPart(records) \/ AppendAdds(records) \/ AppendCloses(records)
             \/ AppendClosesInPart(records)
    <3>1. AddsBlock(records)
      BY <2>5 DEF AppendAddsInPart, AppendAdds, AppendCloses, AppendClosesInPart, Closes
    <3> QED
      BY <1>1, <3>1 DEF AddsBlock
  <2> QED
    BY <2>3, <2>4, <2>5 DEF append
<1>3. CASE IteratorStep
  BY <1>1, <1>3 DEF IteratorStep, Open, get_iterator, NextDies, Destroy
<1>4. CASE FindOverlaps \/ GroupNext \/ UNCHANGED vars
  BY <1>1, <1>4 DEF FindOverlaps, GroupNext, vars
<1> QED
  BY <1>2, <1>3, <1>4 DEF Next, IteratorStep

LEMMA AppendSeq ==
    ASSUME NEW s, IsSeq(s), NEW x
    PROVE  /\ IsSeq(Append(s, x))
           /\ DOMAIN Append(s, x) = DOMAIN s \cup {Len(s) + 1}
           /\ Append(s, x)[Len(s) + 1] = x
           /\ \A i \in DOMAIN s : Append(s, x)[i] = s[i]
<1>1. PICK S : s \in Seq(S)
  BY DEF IsSeq
<1>2. s \in Seq(S \cup {x}) /\ x \in S \cup {x}
  BY <1>1, SeqMonotonic
<1>3. Append(s, x) \in Seq(S \cup {x})
  BY <1>2
<1> QED
  BY <1>2, <1>3 DEF IsSeq

LEMMA ListedStep ==
    ASSUME ListedInv, RunsInv, FilesInv, [Next]_vars
    PROVE  ListedInv'
<1>1. IsSeq(opened)
  BY DEF RunsInv, IsSeq
<1>2. ASSUME opened' = opened, UNCHANGED sstable_list, Path' \in {Path, None}
      PROVE  ListedInv'
  BY <1>2 DEF ListedInv
<1>3. ASSUME NEW o, opened' = Append(opened, o), UNCHANGED sstable_list, Path' \in {None, o.path}
      PROVE  ListedInv'
  <2>1. \A n \in DOMAIN opened : n \in DOMAIN opened' /\ opened'[n] = opened[n]
    BY <1>1, <1>3, AppendSeq
  <2>2. \E n \in DOMAIN opened' : opened'[n] = o
    BY <1>1, <1>3, AppendSeq
  <2> QED
    BY <1>3, <2>1, <2>2 DEF ListedInv
<1>4. ASSUME NEW s, opened' = opened, sstable_list' = Append(sstable_list, s),
             s.file_address = Path, Path # None, Path' \in {Path, None}
      PROVE  ListedInv'
  <2>1. IsSeq(sstable_list') /\ DOMAIN sstable_list' = DOMAIN sstable_list \cup {Len(sstable_list) + 1}
        /\ sstable_list'[Len(sstable_list) + 1] = s
        /\ \A i \in DOMAIN sstable_list : sstable_list'[i] = sstable_list[i]
    BY <1>4, AppendSeq DEF ListedInv
  <2>2. \E n \in DOMAIN opened : opened[n].path = s.file_address
    BY <1>4 DEF ListedInv
  <2>3. \A i \in DOMAIN sstable_list' : \E n \in DOMAIN opened :
           opened[n].path = sstable_list'[i].file_address
    BY <2>1, <2>2 DEF ListedInv
  <2> QED
    BY <1>4, <2>1, <2>3 DEF ListedInv
<1>5. CASE \E batch \in plan.batches : append(Records(batch))
  <2>1. PICK batch \in plan.batches : append(Records(batch))
    BY <1>5
  <2> DEFINE records == Records(batch)
             o == [path |-> current_sstable_id, first |-> Head(records).key, last |-> Last(records).key]
             s == [file_address |-> Path, first |-> first_string_entry, last |-> Last(records).key,
                   num_rows_in_sstable |-> Rows(records)]
  <2>2. append(records)
    BY <2>1
  <2> HIDE DEF records
  <2>3. CASE AppendCannotOpen(records) \/ AppendOpens(records) \/ AppendOpensInPart(records)
    <3>1. opened' = Append(opened, o) /\ UNCHANGED sstable_list
      BY <2>3 DEF AppendCannotOpen, AppendOpens, AppendOpensInPart, OpenedWith, Opening
    <3>2. Path' = None \/ Path' = current_sstable_id
      BY <2>3 DEF AppendCannotOpen, AppendOpens, AppendOpensInPart, OpenedWith, Opening, Path
    <3>3. o.path = current_sstable_id
      OBVIOUS
    <3> HIDE DEF o
    <3> QED
      BY <1>3, <3>1, <3>2, <3>3
  <2>4. CASE AppendAddsInPart(records) \/ AppendAdds(records)
    BY <1>2, <2>4 DEF AppendAddsInPart, AppendAdds, AddsBlock, Path, runs
  <2>5. CASE AppendCloses(records) \/ AppendClosesInPart(records)
    <3>1. sstable_list' = Append(sstable_list, s) /\ opened' = opened /\ Path # None
      BY <2>5 DEF AppendCloses, AppendClosesInPart, Closes, AddsBlock, runs
    <3>2. Path' \in {Path, None}
      BY <2>5 DEF AppendCloses, AppendClosesInPart, Path
    <3>3. s.file_address = Path
      OBVIOUS
    <3> HIDE DEF s
    <3> QED
      BY <1>4, <3>1, <3>2, <3>3
  <2> QED
    BY <2>2, <2>3, <2>4, <2>5 DEF append
<1>6. CASE IteratorStep
  BY <1>2, <1>6 DEF IteratorStep, Open, get_iterator, NextDies, Destroy, engine, runs, Path
<1>7. CASE FindOverlaps \/ GroupNext \/ UNCHANGED vars
  BY <1>2, <1>7 DEF FindOverlaps, GroupNext, vars, engine, runs, Path
<1> QED
  BY <1>5, <1>6, <1>7 DEF Next, IteratorStep

\* Where a file of all runs was opened.
LEMMA FileOpened ==
    ASSUME RunsInv, NEW r \in DOMAIN AllRuns, NEW y \in DOMAIN AllRuns[r].paths_to_files
    PROVE  /\ y \in 1 .. 4 /\ r \in Nat \ {0}
           /\ 5 * (r - 1) + y \in DOMAIN opened
           /\ opened[5 * (r - 1) + y] = [path |-> AllRuns[r].paths_to_files[y],
                 first |-> AllRuns[r].first_key_run[y], last |-> AllRuns[r].last_key_run[y]]
<1> DEFINE m == Len(runs_list)
           k == Len(active_run.paths_to_files)
<1>1. m \in Nat /\ DOMAIN AllRuns = 1 .. m + 1 /\ AllRuns[m + 1] = active_run
      /\ \A q \in 1 .. m : AllRuns[q] = runs_list[q]
  BY DEF RunsInv, AllRuns
<1>2. DOMAIN opened = 1 .. 5 * m + k /\ k \in 0 .. 4
  BY DEF RunsInv
<1> HIDE DEF m, k
<1>3. CASE r \in 1 .. m
  <2>1. AllRuns[r] = runs_list[r] /\ runs_list[r] \in RunRecord /\ Len(runs_list[r].paths_to_files) = 4
        /\ KnowsFiles(runs_list[r], 5 * (r - 1), opened)
    BY <1>1, <1>3 DEF RunsInv, m
  <2>2. y \in 1 .. 4
    BY <2>1 DEF RunRecord
  <2>3. opened[5 * (r - 1) + y] = [path |-> AllRuns[r].paths_to_files[y],
                 first |-> AllRuns[r].first_key_run[y], last |-> AllRuns[r].last_key_run[y]]
    BY <2>1, <2>2 DEF KnowsFiles
  <2>4. r \in Nat \ {0} /\ r <= m
    BY <1>1, <1>3
  <2>5. 5 * (r - 1) + y >= 1 /\ 5 * (r - 1) + y <= 5 * m /\ 5 * (r - 1) + y \in Nat
    BY <1>1, <2>2, <2>4
  <2>6. 5 * (r - 1) + y \in DOMAIN opened
    BY <1>1, <1>2, <2>2, <2>5
  <2> QED
    BY <2>2, <2>3, <2>4, <2>6
<1>4. CASE r = m + 1
  <2>1. AllRuns[r] = active_run /\ active_run \in RunRecord /\ KnowsFiles(active_run, 5 * m, opened)
    BY <1>1, <1>4 DEF RunsInv, m
  <2>2. y \in 1 .. k /\ k = Len(active_run.paths_to_files)
    BY <2>1 DEF RunRecord, k
  <2>3. 5 * (r - 1) = 5 * m
    BY <1>1, <1>4
  <2>4. opened[5 * (r - 1) + y] = [path |-> AllRuns[r].paths_to_files[y],
                 first |-> AllRuns[r].first_key_run[y], last |-> AllRuns[r].last_key_run[y]]
    BY <2>1, <2>2, <2>3 DEF KnowsFiles
  <2>5. y \in 1 .. 4 /\ 5 * m + y \in 1 .. 5 * m + k
    <3>1. m \in Nat /\ k \in 0 .. 4 /\ y \in 1 .. k
      BY <1>1, <1>2, <2>2
    <3>2. y >= 1 /\ y <= k /\ k <= 4 /\ y \in Nat
      BY <3>1
    <3>3. 5 * m + y \in Nat /\ 5 * m + y >= 1 /\ 5 * m + y <= 5 * m + k
      BY <3>1, <3>2
    <3> QED
      BY <3>1, <3>2, <3>3
  <2>6. r \in Nat \ {0}
    BY <1>1, <1>4
  <2> QED
    BY <1>2, <2>3, <2>4, <2>5, <2>6
<1> QED
  BY <1>1, <1>3, <1>4

\* Which file of which run an opening's is.
LEMMA OpenedFile ==
    ASSUME RunsInv, NEW n \in DOMAIN opened, n % 5 # 0
    PROVE  \E r \in DOMAIN AllRuns : \E y \in DOMAIN AllRuns[r].paths_to_files :
              opened[n].path = AllRuns[r].paths_to_files[y]
<1> DEFINE m == Len(runs_list)
           k == Len(active_run.paths_to_files)
           r == (n \div 5) + 1
           y == n % 5
<1>1. m \in Nat /\ DOMAIN AllRuns = 1 .. m + 1 /\ AllRuns[m + 1] = active_run
      /\ \A q \in 1 .. m : AllRuns[q] = runs_list[q]
  BY DEF RunsInv, AllRuns
<1>2. DOMAIN opened = 1 .. 5 * m + k
      /\ k \in 0 .. 4
  BY DEF RunsInv
<1> HIDE DEF m, k
<1>3. n \in Nat
  BY <1>1, <1>2
<1>4. n = 5 * (r - 1) + y /\ y \in 1 .. 4 /\ r \in Nat \ {0}
  BY <1>3
<1> HIDE DEF r, y
<1>5. r <= m + 1
  <2>1. n <= 5 * m + 4
    BY <1>1, <1>2, <1>3
  <2> QED
    BY <1>1, <1>3, <1>4, <2>1
<1>6. y \in DOMAIN AllRuns[r].paths_to_files
  <2>1. CASE r = m + 1
    <3>1. DOMAIN active_run.paths_to_files = 1 .. k
      BY DEF RunsInv, RunRecord, k
    <3> QED
      BY <1>1, <1>2, <1>4, <2>1, <3>1
  <2>2. CASE r \in 1 .. m
    <3>1. runs_list[r] \in RunRecord /\ Len(runs_list[r].paths_to_files) = 4
      BY <2>2 DEF RunsInv, m
    <3>2. DOMAIN runs_list[r].paths_to_files = 1 .. 4
      BY <3>1 DEF RunRecord
    <3> QED
      BY <1>1, <1>4, <2>2, <3>2
  <2> QED
    BY <1>1, <1>4, <1>5, <2>1, <2>2
<1>7. r \in DOMAIN AllRuns
  BY <1>1, <1>4, <1>5
<1>8. opened[n].path = AllRuns[r].paths_to_files[y]
  <2>1. opened[5 * (r - 1) + y] = [path |-> AllRuns[r].paths_to_files[y],
                 first |-> AllRuns[r].first_key_run[y], last |-> AllRuns[r].last_key_run[y]]
    BY <1>6, <1>7, FileOpened
  <2>2. opened[n] = [path |-> AllRuns[r].paths_to_files[y],
                 first |-> AllRuns[r].first_key_run[y], last |-> AllRuns[r].last_key_run[y]]
    BY <1>4, <2>1
  <2> QED
    BY <2>2
<1> QED
  BY <1>6, <1>7, <1>8

LEMMA FifthForgotten ==
    ASSUME RunsInv, ListedInv
    PROVE  EveryFifthForgotten
<1> DEFINE all == Append(runs_list, active_run)
           found == UNION {{all[r].paths_to_files[y] : y \in DOMAIN all[r].paths_to_files} : r \in DOMAIN all}
<1>1. all = AllRuns
  BY DEF AllRuns
<1>2. ASSUME NEW r \in DOMAIN all, NEW y \in DOMAIN all[r].paths_to_files
      PROVE  \E n \in DOMAIN opened : n % 5 # 0 /\
                opened[n] = [path |-> all[r].paths_to_files[y], first |-> all[r].first_key_run[y],
                             last |-> all[r].last_key_run[y]]
  <2>1. y \in 1 .. 4 /\ r \in Nat \ {0} /\ 5 * (r - 1) + y \in DOMAIN opened
        /\ opened[5 * (r - 1) + y] = [path |-> all[r].paths_to_files[y],
                 first |-> all[r].first_key_run[y], last |-> all[r].last_key_run[y]]
    BY <1>1, <1>2, FileOpened
  <2>2. (5 * (r - 1) + y) % 5 # 0
    BY <2>1
  <2> QED
    BY <2>1, <2>2
<1>3. found = {opened[n].path : n \in {k \in DOMAIN opened : k % 5 # 0}}
  <2>1. ASSUME NEW p \in found PROVE \E n \in DOMAIN opened : n % 5 # 0 /\ opened[n].path = p
    <3>1. PICK r \in DOMAIN all : \E y \in DOMAIN all[r].paths_to_files : p = all[r].paths_to_files[y]
      BY <2>1
    <3>2. PICK y \in DOMAIN all[r].paths_to_files : p = all[r].paths_to_files[y]
      BY <3>1
    <3>3. PICK n \in DOMAIN opened : n % 5 # 0 /\
                opened[n] = [path |-> all[r].paths_to_files[y], first |-> all[r].first_key_run[y],
                             last |-> all[r].last_key_run[y]]
      BY <1>2
    <3> QED
      BY <3>2, <3>3
  <2>2. ASSUME NEW n \in DOMAIN opened, n % 5 # 0 PROVE opened[n].path \in found
    BY <1>1, <2>2, OpenedFile
  <2> QED
    BY <2>1, <2>2
<1>4. \A s \in ToSet(sstable_list) : \E n \in DOMAIN opened : opened[n].path = s.file_address
  BY DEF ListedInv, ToSet
<1>5. \A g \in RangesOf(all) : \E n \in DOMAIN opened :
         opened[n] = [path |-> g.path, first |-> g.first, last |-> g.last]
  <2> TAKE g \in RangesOf(all)
  <2>1. PICK r \in DOMAIN all : \E y \in DOMAIN all[r].paths_to_files :
           g = [path |-> all[r].paths_to_files[y], first |-> all[r].first_key_run[y],
                last |-> all[r].last_key_run[y], at |-> <<r, y>>]
    BY DEF RangesOf
  <2>2. PICK y \in DOMAIN all[r].paths_to_files :
           g = [path |-> all[r].paths_to_files[y], first |-> all[r].first_key_run[y],
                last |-> all[r].last_key_run[y], at |-> <<r, y>>]
    BY <2>1
  <2>3. g.path = all[r].paths_to_files[y] /\ g.first = all[r].first_key_run[y]
        /\ g.last = all[r].last_key_run[y]
    BY <2>2
  <2> QED
    BY <1>2, <2>3
<1> QED
  BY <1>3, <1>4, <1>5 DEF EveryFifthForgotten

-----------------------------------------------------------------------------
(* Readers.                                                                *)

IteratorRecord == [path : Nat, loaded : BOOLEAN, objects : Nat, dead : BOOLEAN]

\* Only iterators of which an object is left are registered.
RegistryInv ==
    /\ iterators \in Seq(IteratorRecord)
    /\ \A id \in DOMAIN readers : id \in DOMAIN iterators /\ Alive(id)

LEMMA RegistryInit == Init => RegistryInv
  BY DEF Init, RegistryInv

\* One iterator's record changes.
LEMMA RegistryOne ==
    ASSUME RegistryInv, NEW id \in DOMAIN iterators, NEW it \in IteratorRecord,
           iterators' = [iterators EXCEPT ![id] = it],
           \A i \in DOMAIN readers' : i \in DOMAIN readers /\ (i = id => it.objects > 0)
    PROVE  RegistryInv'
<1>1. iterators' \in Seq(IteratorRecord) /\ DOMAIN iterators' = DOMAIN iterators
      /\ \A i \in DOMAIN iterators : iterators'[i] = IF i = id THEN it ELSE iterators[i]
  BY DEF RegistryInv
<1>2. ASSUME NEW i \in DOMAIN readers' PROVE i \in DOMAIN iterators' /\ iterators'[i].objects > 0
  BY <1>1, <1>2 DEF RegistryInv, Alive
<1> QED
  BY <1>1, <1>2 DEF RegistryInv, Alive

LEMMA RegistryStep ==
    ASSUME RegistryInv, FilesInv, [Next]_vars
    PROVE  RegistryInv'
<1>1. ASSUME UNCHANGED <<readers, iterators>> PROVE RegistryInv'
  BY <1>1 DEF RegistryInv, Alive
<1>2. CASE \E batch \in plan.batches : append(Records(batch))
  <2>1. PICK records : append(records)
    BY <1>2
  <2>2. UNCHANGED its
    BY <2>1 DEF append, AppendCannotOpen, AppendOpens, AppendOpensInPart, AppendAdds, AppendAddsInPart,
      AppendCloses, AppendClosesInPart, OpenedWith, Opening, Closes, AddsBlock
  <2> QED
    BY <1>1, <2>2 DEF its
<1>3. ASSUME NEW path \in Nat, Open(path)
      PROVE  RegistryInv'
  <2> DEFINE id == Len(iterators) + 1
             it == [path |-> path, loaded |-> create_metadata_for_iteratoring(path),
                    objects |-> 1, dead |-> FALSE]
  <2>1. iterators' = Append(iterators, it) /\ register_iterator(id, path)
    BY <1>3 DEF Open
  <2>2. it \in IteratorRecord /\ it.objects = 1
    BY DEF IteratorRecord, create_metadata_for_iteratoring
  <2>3. DOMAIN readers' \subseteq DOMAIN readers \cup {id}
    BY <2>1 DEF register_iterator, Registered
  <2> HIDE DEF it
  <2>4. iterators' \in Seq(IteratorRecord) /\ DOMAIN iterators' = DOMAIN iterators \cup {id}
        /\ iterators'[id] = it /\ \A i \in DOMAIN iterators : iterators'[i] = iterators[i]
    BY <2>1, <2>2 DEF RegistryInv
  <2>5. ASSUME NEW i \in DOMAIN readers' PROVE i \in DOMAIN iterators' /\ iterators'[i].objects > 0
    BY <2>2, <2>3, <2>4, <2>5 DEF RegistryInv, Alive
  <2> QED
    BY <2>4, <2>5 DEF RegistryInv, Alive
<1>4. ASSUME NEW id \in DOMAIN iterators, get_iterator(id) \/ NextDies(id) \/ Destroy(id)
      PROVE  RegistryInv'
  <2>1. iterators[id] \in IteratorRecord /\ iterators[id].objects > 0
    BY <1>4 DEF RegistryInv, get_iterator, NextDies, Destroy, Alive
  <2>2. CASE get_iterator(id)
    <3>1. PICK it : it = [iterators[id] EXCEPT !.objects = @ + 1]
      OBVIOUS
    <3>2. it \in IteratorRecord /\ it.objects > 0
      BY <2>1, <3>1 DEF IteratorRecord
    <3>3. iterators' = [iterators EXCEPT ![id] = it] /\ readers' = readers
      BY <2>2, <3>1 DEF get_iterator
    <3> QED
      BY <3>2, <3>3, RegistryOne
  <2>3. CASE NextDies(id)
    <3>1. PICK it : it = [iterators[id] EXCEPT !.dead = TRUE]
      OBVIOUS
    <3>2. it \in IteratorRecord /\ it.objects > 0
      BY <2>1, <3>1 DEF IteratorRecord
    <3>3. iterators' = [iterators EXCEPT ![id] = it] /\ readers' = readers
      BY <2>3, <3>1 DEF NextDies
    <3> QED
      BY <3>2, <3>3, RegistryOne
  <2>4. CASE Destroy(id)
    <3>1. PICK it : it = [iterators[id] EXCEPT !.objects = @ - 1]
      OBVIOUS
    <3>2. it \in IteratorRecord
      BY <2>1, <3>1 DEF IteratorRecord
    <3>3. iterators' = [iterators EXCEPT ![id] = it] /\ DOMAIN readers' = DOMAIN readers \ {id}
      BY <2>4, <3>1 DEF Destroy, un_register_iterator
    <3> QED
      BY <3>2, <3>3, RegistryOne
  <2> QED
    BY <1>4, <2>2, <2>3, <2>4
<1>5. CASE FindOverlaps \/ GroupNext \/ UNCHANGED vars
  BY <1>1, <1>5 DEF FindOverlaps, GroupNext, vars, its
<1>6. 1 .. current_sstable_id \subseteq Nat
  BY DEF FilesInv
<1> QED
  BY <1>2, <1>3, <1>4, <1>5, <1>6 DEF Next

-----------------------------------------------------------------------------

CounterInv == grouping.counter \in Int

LEMMA CounterStep ==
    ASSUME CounterInv, [Next]_vars
    PROVE  CounterInv'
<1>1. CASE UNCHANGED grouping
  BY <1>1 DEF CounterInv
<1>2. CASE FindOverlaps
  <2>1. grouping'.counter = 0
    BY <1>2 DEF FindOverlaps, NoGrouping
  <2> QED
    BY <2>1 DEF CounterInv
<1>3. CASE GroupNext
  <2>1. PICK end : grouping' = Grouped(end)
    BY <1>3 DEF GroupNext
  <2>2. grouping'.counter = IF end.last THEN grouping.counter - 1 ELSE grouping.counter + 1
    BY <2>1 DEF Grouped
  <2> QED
    BY <2>2 DEF CounterInv
<1>4. CASE \E batch \in plan.batches : append(Records(batch))
  <2>1. PICK records : append(records)
    BY <1>4
  <2>2. UNCHANGED its
    BY <2>1 DEF append, AppendCannotOpen, AppendOpens, AppendOpensInPart, AppendAdds, AppendAddsInPart,
      AppendCloses, AppendClosesInPart, OpenedWith, Opening, Closes, AddsBlock
  <2> QED
    BY <1>1, <2>2 DEF its
<1>5. CASE IteratorStep
  BY <1>1, <1>5 DEF IteratorStep, Open, get_iterator, NextDies, Destroy
<1>6. CASE UNCHANGED vars
  BY <1>1, <1>6 DEF vars, its
<1> QED
  BY <1>2, <1>3, <1>4, <1>5, <1>6 DEF Next, IteratorStep

EngineInv == FilesInv /\ RunsInv /\ ListedInv /\ RegistryInv /\ CounterInv

LEMMA EngineInvariance == Spec => []EngineInv
<1>1. Init => EngineInv
  <2>1. Init => CounterInv
    BY DEF Init, NoGrouping, CounterInv
  <2> QED
    BY <2>1, FilesInit, RunsInit, RegistryInit DEF EngineInv
<1>2. EngineInv /\ [Next]_vars => EngineInv'
  BY FilesStep, RunsStep, ListedStep, RegistryStep, CounterStep DEF EngineInv
<1> QED
  BY <1>1, <1>2, PTL DEF Spec

\* The engine's state is well formed however many appends, failed writes and iterators there are:
\* a descriptor that is open is on a file that is there and that is the current one or the last.
THEOREM EngineTyped == Spec => []TypeOK
<1>1. EngineInv => TypeOK
  BY DEF EngineInv, FilesInv, RunsInv, RegistryInv, CounterInv, TypeOK
<1> QED
  BY <1>1, EngineInvariance, PTL

\* Of all openings of append, whatever fails, it is exactly every fifth whose file is in no run:
\* compaction can never reach it, though the sstable is listed.
THEOREM FifthFilesLost == Spec => []EveryFifthForgotten
<1>1. EngineInv => EveryFifthForgotten
  BY FifthForgotten DEF EngineInv
<1> QED
  BY <1>1, EngineInvariance, PTL

-----------------------------------------------------------------------------
(* Reading a file: the parts of a sequence.                                *)

LEMMA FirstOf ==
    ASSUME NEW T, T \subseteq Nat, T # {}
    PROVE  \E x \in T : \A y \in T : ~(y < x)
<1>1. PICK x \in T : \A y \in T : ~ (<<y, x>> \in OpToRel(<, Nat))
  BY NatLessThanWellFounded, WFMin
<1>2. \A y \in T : ~(y < x)
  BY <1>1 DEF OpToRel
<1> QED
  BY <1>2

LEMMA SubSeqCut ==
    ASSUME NEW S, NEW R \in Seq(S), NEW a \in 0 .. Len(R), NEW b \in a .. Len(R)
    PROVE  /\ SubSeq(R, a + 1, b) \in Seq(S)
           /\ SubSeq(R, 1, a) \o SubSeq(R, a + 1, b) = SubSeq(R, 1, b)
<1>1. \A i \in 1 .. Len(R) : R[i] \in S
  OBVIOUS
<1> DEFINE p == SubSeq(R, 1, a)
           q == SubSeq(R, a + 1, b)
           t == SubSeq(R, 1, b)
<1>2. p \in Seq(S) /\ Len(p) = a /\ \A i \in 1 .. a : p[i] = R[i]
  BY <1>1, SubSeqProperties
<1>3. q \in Seq(S) /\ Len(q) = b - a /\ \A i \in 1 .. b - a : q[i] = R[a + i]
  <2>1. \A i \in a + 1 .. b : R[i] \in S
    BY <1>1
  <2>2. a + 1 \in Int /\ b \in Int
    OBVIOUS
  <2> QED
    BY <2>1, <2>2, SubSeqProperties
<1>4. t \in Seq(S) /\ Len(t) = b /\ \A i \in 1 .. b : t[i] = R[i]
  BY <1>1, SubSeqProperties
<1> HIDE DEF p, q, t
<1>0. a \in Nat /\ b \in Nat /\ a <= b
  OBVIOUS
<1>5. p \o q \in Seq(S) /\ Len(p \o q) = b
  BY <1>0, <1>2, <1>3
<1>6. \A i \in 1 .. b : (p \o q)[i] = R[i]
  <2> TAKE i \in 1 .. b
  <2>1. CASE i <= a
    <3>1. (p \o q)[i] = p[i]
      BY <1>0, <1>2, <1>3, <2>1
    <3> QED
      BY <1>0, <1>2, <2>1, <3>1
  <2>2. CASE ~(i <= a)
    <3>1. (p \o q)[i] = q[i - a] /\ i - a \in 1 .. b - a
      BY <1>0, <1>2, <1>3, <2>2
    <3>2. a + (i - a) = i
      BY <1>0
    <3> QED
      BY <1>3, <3>1, <3>2
  <2> QED
    BY <2>1, <2>2
<1>7. p \o q = t
  BY <1>4, <1>5, <1>6, SeqEqual
<1> QED
  BY <1>3, <1>7 DEF p, q, t

\* The parts of a sequence, one after the other, are the sequence.
LEMMA FlattenParts ==
    ASSUME NEW S, NEW R \in Seq(S), NEW m \in Nat \ {0}, NEW parts, parts = [b \in 1 .. m |-> parts[b]],
           NEW cuts \in [0 .. m -> 0 .. Len(R)], cuts[0] = 0, cuts[m] = Len(R),
           \A b \in 1 .. m : cuts[b - 1] <= cuts[b] /\ parts[b] = SubSeq(R, cuts[b - 1] + 1, cuts[b])
    PROVE  FlattenSeq(parts) = R
<1> DEFINE E(f) == [i \in 1 .. m |-> IF i = 1 THEN parts[i] ELSE f[i - 1] \o parts[i]]
           w == [i \in 1 .. m |-> SubSeq(R, 1, cuts[i])]
           g == CHOOSE f : f = E(f)
<1>1. Len(parts) = m
  OBVIOUS
<1>2. \A i \in 1 .. m : w[i] = IF i = 1 THEN parts[i] ELSE w[i - 1] \o parts[i]
  <2> SUFFICES ASSUME NEW i \in 1 .. m
               PROVE  w[i] = IF i = 1 THEN parts[i] ELSE w[i - 1] \o parts[i]
    OBVIOUS
  <2>1. cuts[i] \in 0 .. Len(R) /\ cuts[i - 1] \in 0 .. Len(R) /\ cuts[i - 1] <= cuts[i] /\ w[i] = SubSeq(R, 1, cuts[i])
        /\ parts[i] = SubSeq(R, cuts[i - 1] + 1, cuts[i])
    OBVIOUS
  <2>2. CASE i = 1
    <3>1. i - 1 = 0 /\ cuts[i - 1] + 1 = 1
      BY <2>2
    <3> QED
      BY <2>1, <2>2, <3>1
  <2>3. CASE i # 1
    <3>1. w[i - 1] = SubSeq(R, 1, cuts[i - 1])
      BY <2>3
    <3>2. cuts[i] \in cuts[i - 1] .. Len(R)
      BY <2>1
    <3>3. SubSeq(R, 1, cuts[i - 1]) \o SubSeq(R, cuts[i - 1] + 1, cuts[i]) = SubSeq(R, 1, cuts[i])
      BY <2>1, <3>2, SubSeqCut
    <3> HIDE DEF w
    <3> QED
      BY <2>1, <2>3, <3>1, <3>3
  <2> QED
    BY <2>2, <2>3
<1>3. w = E(w)
  BY <1>2
<1>4. g = E(g)
  BY <1>3
<1>5. FlattenSeq(parts) = g[m]
  BY <1>1 DEF FlattenSeq
<1>6. g[m] = w[m]
  <2> DEFINE T == {i \in 1 .. m : g[i] # w[i]}
  <2> HIDE DEF g, w
  <2>1. ASSUME T # {} PROVE FALSE
    <3>0. T \subseteq Nat
      OBVIOUS
    <3>1. PICK x \in T : \A y \in T : ~(y < x)
      <4> HIDE DEF T
      <4> QED
        BY <2>1, <3>0, FirstOf
    <3>2. x \in 1 .. m /\ g[x] # w[x] /\ (x # 1 => g[x - 1] = w[x - 1])
      <4>1. x - 1 \in 1 .. m => x - 1 \notin T
        <5>1. x \in Nat /\ x - 1 < x
          BY <3>0
        <5> QED
          BY <3>1, <5>1
      <4> QED
        BY <4>1
    <3>3. g[x] = IF x = 1 THEN parts[x] ELSE g[x - 1] \o parts[x]
      BY <1>4, <3>2
    <3> QED
      BY <1>2, <3>2, <3>3
  <2> QED
    BY <2>1
<1>7. w[m] = R
  BY SubSeqFull
<1> QED
  BY <1>5, <1>6, <1>7

-----------------------------------------------------------------------------
(* How the data blocks lie in a file.                                      *)

EndOf(offs, stop, b) == IF b < Len(offs) THEN offs[b + 1] ELSE stop

\* The header, and then the blocks up to cell stop hold the records R: of the cells before the
\* rows of block b, b are no rows.
Laid(f, R, offs, firsts, stop) ==
    /\ offs \in Seq(Nat) /\ Len(firsts) = Len(offs)
    /\ IF Len(offs) = 0 THEN stop = 1 ELSE offs[1] = 1
    /\ stop = Len(R) + Len(offs) + 1 /\ stop <= Len(f)
    /\ \A b \in 1 .. Len(offs) :
          /\ b <= offs[b] /\ offs[b] + 1 < EndOf(offs, stop, b) /\ EndOf(offs, stop, b) <= Len(R) + b + 1
          /\ f[EndOf(offs, stop, b)] = BlockEnd(EndOf(offs, stop, b) - offs[b] - 1)
          /\ \A i \in offs[b] + 1 .. EndOf(offs, stop, b) - 1 : f[i] = RowCell(R[i - b])
          /\ firsts[b] = R[offs[b] - b + 1].key

LEMMA CellFields ==
    /\ \A n : BlockEnd(n).cell = "TAIL" /\ BlockEnd(n).rows = n
    /\ \A r : RowCell(r).cell = "ROW" /\ RowCell(r).record = r
  BY DEF BlockEnd, RowCell

LEMMA ConcatCells ==
    ASSUME NEW s, NEW t, IsSeq(s), IsSeq(t)
    PROVE  /\ Len(s \o t) = Len(s) + Len(t) /\ Len(s) \in Nat /\ Len(t) \in Nat
           /\ \A i \in 1 .. Len(s) : (s \o t)[i] = s[i]
           /\ \A i \in 1 .. Len(t) : (s \o t)[Len(s) + i] = t[i]
<1>1. PICK S : s \in Seq(S)
  BY DEF IsSeq
<1>2. PICK T : t \in Seq(T)
  BY DEF IsSeq
<1>3. s \in Seq(S \cup T) /\ t \in Seq(S \cup T)
  BY <1>1, <1>2, SeqMonotonic
<1> QED
  BY <1>3

LEMMA ConcatTwice ==
    ASSUME NEW r, NEW s, NEW t, IsSeq(r), IsSeq(s), IsSeq(t)
    PROVE  r \o (s \o t) = (r \o s) \o t
<1>1. PICK Q : r \in Seq(Q)
  BY DEF IsSeq
<1>2. PICK S : s \in Seq(S)
  BY DEF IsSeq
<1>3. PICK T : t \in Seq(T)
  BY DEF IsSeq
<1>4. r \in Seq(Q \cup S \cup T) /\ s \in Seq(Q \cup S \cup T) /\ t \in Seq(Q \cup S \cup T)
  BY <1>1, <1>2, <1>3, SeqMonotonic
<1> QED
  BY <1>4, ConcatAssociative

LEMMA Bytes ==
    ASSUME NEW records, Given(records)
    PROVE  LET bytes == compute_db_bytes(records)
               n == Len(records)
           IN  /\ Len(bytes) = n + 1 /\ n \in Nat \ {0} /\ bytes[n + 1] = BlockEnd(n)
               /\ \A i \in 1 .. n : bytes[i] = RowCell(records[i])
<1> DEFINE rows == [i \in DOMAIN records |-> RowCell(records[i])]
           n == Len(records)
<1>1. DOMAIN records = 1 .. n /\ n \in Nat \ {0}
  BY DEF Given
<1>2. IsSeq(rows) /\ Len(rows) = n /\ \A i \in 1 .. n : rows[i] = RowCell(records[i])
  <2>1. rows \in Seq({RowCell(records[i]) : i \in DOMAIN records})
    BY <1>1
  <2>2. DOMAIN rows = 1 .. n /\ \A i \in 1 .. n : rows[i] = RowCell(records[i])
    BY <1>1
  <2> HIDE DEF rows
  <2>3. Len(rows) = n
    BY <1>1, <2>1, <2>2
  <2> QED
    BY <2>1, <2>2, <2>3 DEF IsSeq
<1> HIDE DEF rows, n
<1> DEFINE tail == <<BlockEnd(n)>>
<1>3. IsSeq(tail) /\ Len(tail) = 1 /\ tail[1] = BlockEnd(n)
  BY IsSeqOne
<1>4. compute_db_bytes(records) = rows \o tail
  BY DEF compute_db_bytes, rows, n
<1> HIDE DEF tail
<1>5. Len(rows \o tail) = n + 1 /\ (rows \o tail)[n + 1] = BlockEnd(n)
      /\ \A i \in 1 .. n : (rows \o tail)[i] = RowCell(records[i])
  <2>1. /\ Len(rows \o tail) = n + 1
        /\ \A i \in 1 .. n : (rows \o tail)[i] = rows[i]
        /\ \A i \in 1 .. 1 : (rows \o tail)[n + i] = tail[i]
    <3>1. /\ Len(rows \o tail) = Len(rows) + Len(tail)
          /\ \A i \in 1 .. Len(rows) : (rows \o tail)[i] = rows[i]
          /\ \A i \in 1 .. Len(tail) : (rows \o tail)[Len(rows) + i] = tail[i]
      <4>1. IsSeq(rows) /\ IsSeq(tail)
        BY <1>2, <1>3
      <4> QED
        BY <4>1, ConcatCells
    <3> QED
      BY <1>2, <1>3, <3>1
  <2>2. 1 \in 1 .. 1
    OBVIOUS
  <2>3. (rows \o tail)[n + 1] = tail[1]
    BY <2>1, <2>2
  <2> QED
    BY <1>2, <1>3, <2>1, <2>3
<1> QED
  BY <1>1, <1>4, <1>5 DEF n

LEMMA LaidStart == Laid(<<Header>>, <<>>, <<>>, <<>>, 1)
<1>1. Len(<<>>) = 0 /\ <<>> \in Seq(Nat) /\ Len(<<Header>>) = 1
  OBVIOUS
<1> QED
  BY <1>1 DEF Laid

\* What comes behind the blocks does not matter.
LEMMA LaidBehind ==
    ASSUME NEW f, NEW t, IsSeq(f), IsSeq(t), NEW R, Len(R) \in Nat, NEW offs, NEW firsts, NEW stop,
           Laid(f, R, offs, firsts, stop)
    PROVE  Laid(f \o t, R, offs, firsts, stop)
<1>1. Len(f \o t) = Len(f) + Len(t) /\ Len(f) \in Nat /\ Len(t) \in Nat
      /\ \A i \in 1 .. Len(f) : (f \o t)[i] = f[i]
  BY ConcatCells
<1>2. offs \in Seq(Nat) /\ stop = Len(R) + Len(offs) + 1 /\ stop <= Len(f)
  BY DEF Laid
<1>3. ASSUME NEW b \in 1 .. Len(offs)
      PROVE  /\ (f \o t)[EndOf(offs, stop, b)] = f[EndOf(offs, stop, b)]
             /\ \A i \in offs[b] + 1 .. EndOf(offs, stop, b) - 1 : (f \o t)[i] = f[i]
  <2> DEFINE end == EndOf(offs, stop, b)
  <2>1. b <= offs[b] /\ offs[b] + 1 < end /\ end <= Len(R) + b + 1
    BY DEF Laid
  <2>2. end \in Nat /\ offs[b] \in Nat /\ Len(offs) \in Nat
    BY <1>2 DEF EndOf
  <2> HIDE DEF end
  <2>3. end <= stop
    BY <1>2, <2>1, <2>2
  <2>4. end \in 1 .. Len(f)
    <3>1. 1 <= end
      BY <2>1, <2>2
    <3>2. stop \in Nat
      BY <1>2, <2>2
    <3>3. end <= Len(f)
      BY <1>1, <1>2, <2>2, <2>3, <3>2
    <3> QED
      BY <2>2, <3>1, <3>3
  <2>5. \A i \in offs[b] + 1 .. end - 1 : i \in 1 .. Len(f)
    BY <2>2, <2>4
  <2> QED
    BY <1>1, <2>4, <2>5 DEF end
<1>4. stop <= Len(f \o t)
  BY <1>1, <1>2
<1> QED
  BY <1>3, <1>4 DEF Laid

\* One more block, right behind.
LEMMA LaidMore ==
    ASSUME NEW f, IsSeq(f), NEW R \in Seq(Record), NEW offs, NEW firsts \in Seq(Keys),
           Laid(f, R, offs, firsts, Len(f)), NEW records, Given(records)
    PROVE  LET bytes == compute_db_bytes(records)
           IN  Laid(f \o bytes, R \o records, Append(offs, Len(f)), Append(firsts, Head(records).key),
                    Len(f) + Len(bytes))
<1> DEFINE bytes == compute_db_bytes(records)
           n  == Len(records)
           k  == Len(R)
           m  == Len(offs)
           L  == Len(f)
           f2 == f \o bytes
           R2 == R \o records
           o2 == Append(offs, L)
           k2 == Append(firsts, Head(records).key)
           stop == L + n + 1
<1>1. Len(bytes) = n + 1 /\ n \in Nat \ {0} /\ bytes[n + 1] = BlockEnd(n)
      /\ \A i \in 1 .. n : bytes[i] = RowCell(records[i])
  BY Bytes
<1>2. IsSeq(bytes)
  BY BytesAreSeq
<1> HIDE DEF bytes
<1>3. Len(f2) = L + (n + 1) /\ L \in Nat /\ (\A i \in 1 .. L : f2[i] = f[i])
      /\ \A i \in 1 .. n + 1 : f2[L + i] = bytes[i]
  <2>1. Len(f2) = L + Len(bytes) /\ L \in Nat /\ (\A i \in 1 .. L : f2[i] = f[i])
        /\ \A i \in 1 .. Len(bytes) : f2[L + i] = bytes[i]
    BY <1>2, ConcatCells
  <2> HIDE DEF f2, L, n
  <2> QED
    BY <1>1, <2>1
<1>4. R2 \in Seq(Record) /\ Len(R2) = k + n /\ k \in Nat /\ (\A i \in 1 .. k : R2[i] = R[i])
      /\ \A i \in 1 .. n : R2[k + i] = records[i]
  <2>1. records \in Seq(Record)
    BY DEF Given
  <2> QED
    BY <2>1
<1>5. offs \in Seq(Nat) /\ m \in Nat /\ L = k + m + 1 /\ (IF m = 0 THEN L = 1 ELSE offs[1] = 1) /\ Len(firsts) = m
  BY DEF Laid
<1>6. o2 \in Seq(Nat) /\ Len(o2) = m + 1 /\ o2[m + 1] = L /\ \A b \in 1 .. m : o2[b] = offs[b]
  BY <1>3, <1>5
<1>7. Len(k2) = m + 1 /\ k2[m + 1] = Head(records).key /\ \A b \in 1 .. m : k2[b] = firsts[b]
  BY <1>5
<1>8. Head(records) = records[1]
  BY DEF Given
<1> HIDE DEF n, k, m, L, f2, R2, o2, k2
<1>0. n \in Nat /\ 1 <= n /\ k \in Nat /\ m \in Nat /\ L \in Nat /\ L = k + m + 1 /\ Len(R2) = k + n
  BY <1>1, <1>3, <1>4, <1>5
<1>9. ASSUME NEW b \in 1 .. m
      PROVE  /\ b <= o2[b] /\ o2[b] + 1 < EndOf(o2, stop, b) /\ EndOf(o2, stop, b) <= Len(R2) + b + 1
             /\ f2[EndOf(o2, stop, b)] = BlockEnd(EndOf(o2, stop, b) - o2[b] - 1)
             /\ \A i \in o2[b] + 1 .. EndOf(o2, stop, b) - 1 : f2[i] = RowCell(R2[i - b])
             /\ k2[b] = R2[o2[b] - b + 1].key
  <2> DEFINE end == EndOf(offs, L, b)
  <2>1. /\ b <= offs[b] /\ offs[b] + 1 < end /\ end <= k + b + 1
        /\ f[end] = BlockEnd(end - offs[b] - 1)
        /\ \A i \in offs[b] + 1 .. end - 1 : f[i] = RowCell(R[i - b])
        /\ firsts[b] = R[offs[b] - b + 1].key
    BY DEF Laid, L, m, k
  <2>2. EndOf(o2, stop, b) = end /\ o2[b] = offs[b] /\ end \in Nat /\ offs[b] \in Nat
    <3>1. CASE b < m
      <4>1. b + 1 \in 1 .. m /\ b < m + 1
        BY <1>5, <3>1
      <4>2. EndOf(o2, stop, b) = o2[b + 1] /\ end = offs[b + 1]
        BY <1>6, <3>1, <4>1 DEF EndOf, m
      <4> QED
        BY <1>5, <1>6, <4>1, <4>2 DEF m
    <3>2. CASE b = m
      <4>1. EndOf(o2, stop, b) = o2[m + 1] /\ end = L
        BY <1>5, <1>6, <3>2 DEF EndOf, m
      <4> QED
        BY <1>3, <1>5, <1>6, <4>1 DEF m
    <3> QED
      BY <1>5, <3>1, <3>2
  <2> HIDE DEF end
  <2>3. end \in 1 .. L /\ b \in Nat
    <3>1. b \in Nat /\ b <= m
      BY <1>0
    <3>2. 1 <= end /\ end <= k + b + 1
      BY <2>1, <2>2
    <3> QED
      BY <1>0, <2>2, <3>1, <3>2
  <2>4. \A i \in offs[b] + 1 .. end - 1 : i \in 1 .. L /\ i - b \in 1 .. k
    <3> TAKE i \in offs[b] + 1 .. end - 1
    <3>1. offs[b] + 1 <= i /\ i <= end - 1 /\ i \in Int /\ b <= offs[b] /\ end <= k + b + 1 /\ end <= L
      BY <2>1, <2>2, <2>3
    <3> QED
      BY <1>0, <2>2, <2>3, <3>1
  <2>5. \A i \in offs[b] + 1 .. end - 1 : f2[i] = RowCell(R2[i - b])
    BY <1>3, <1>4, <2>1, <2>4
  <2>6. offs[b] - b + 1 \in 1 .. k
    <3>1. b <= offs[b] /\ offs[b] + 1 < end /\ end <= k + b + 1
      BY <2>1
    <3>2. b \in Nat /\ 1 <= b /\ k \in Nat /\ offs[b] \in Nat /\ end \in Nat
      BY <1>0, <2>2, <2>3
    <3>3. 1 <= offs[b] - b + 1 /\ offs[b] - b + 1 \in Int
      BY <3>1, <3>2
    <3>4. offs[b] - b + 1 <= k
      BY <3>1, <3>2
    <3> QED
      BY <3>2, <3>3, <3>4
  <2>7. end <= Len(R2) + b + 1
    BY <1>1, <1>4, <2>1, <2>2, <2>3
  <2> QED
    BY <1>3, <1>4, <1>7, <2>1, <2>2, <2>3, <2>5, <2>6, <2>7
<1>10. LET b == m + 1
       IN  /\ b <= o2[b] /\ o2[b] + 1 < EndOf(o2, stop, b) /\ EndOf(o2, stop, b) <= Len(R2) + b + 1
           /\ f2[EndOf(o2, stop, b)] = BlockEnd(EndOf(o2, stop, b) - o2[b] - 1)
           /\ \A i \in o2[b] + 1 .. EndOf(o2, stop, b) - 1 : f2[i] = RowCell(R2[i - b])
           /\ k2[b] = R2[o2[b] - b + 1].key
  <2>1. EndOf(o2, stop, m + 1) = stop
    BY <1>5, <1>6 DEF EndOf
  <2> HIDE DEF stop
  <2>2. stop = L + (n + 1) /\ stop \in Nat
    BY <1>1, <1>3 DEF stop
  <2>3. m + 1 <= L /\ L + 1 < stop /\ stop <= Len(R2) + (m + 1) + 1
    BY <1>0, <2>2
  <2>4. f2[stop] = BlockEnd(n) /\ stop - L - 1 = n
    <3>1. n + 1 \in 1 .. n + 1 /\ stop - L - 1 = n
      BY <1>1, <1>3, <2>2
    <3> QED
      BY <1>1, <1>3, <2>2, <3>1
  <2>5. \A i \in L + 1 .. stop - 1 : f2[i] = RowCell(R2[i - (m + 1)])
    <3> TAKE i \in L + 1 .. stop - 1
    <3>1. i - L \in 1 .. n /\ i - L \in 1 .. n + 1 /\ L + (i - L) = i /\ i - (m + 1) = k + (i - L)
      BY <1>1, <1>3, <1>4, <1>5, <2>2
    <3>2. f2[i] = bytes[i - L] /\ bytes[i - L] = RowCell(records[i - L])
      BY <1>1, <1>3, <3>1
    <3>3. R2[i - (m + 1)] = records[i - L]
      BY <1>4, <3>1
    <3> QED
      BY <3>2, <3>3
  <2>6. k2[m + 1] = R2[L - (m + 1) + 1].key
    <3>1. L - (m + 1) + 1 = k + 1 /\ 1 \in 1 .. n
      BY <1>1, <1>3, <1>4, <1>5
    <3>2. R2[k + 1] = records[1]
      BY <1>4, <3>1
    <3> QED
      BY <1>7, <1>8, <3>1, <3>2
  <2> QED
    BY <1>6, <2>1, <2>3, <2>4, <2>5, <2>6
<1>11. o2[1] = 1
  BY <1>5, <1>6
<1>12. stop = Len(R2) + Len(o2) + 1 /\ stop = Len(f2) /\ Len(o2) # 0
  BY <1>1, <1>3, <1>4, <1>5, <1>6
<1> HIDE DEF stop
<1>13. \A b \in 1 .. Len(o2) :
             /\ b <= o2[b] /\ o2[b] + 1 < EndOf(o2, stop, b) /\ EndOf(o2, stop, b) <= Len(R2) + b + 1
             /\ f2[EndOf(o2, stop, b)] = BlockEnd(EndOf(o2, stop, b) - o2[b] - 1)
             /\ \A i \in o2[b] + 1 .. EndOf(o2, stop, b) - 1 : f2[i] = RowCell(R2[i - b])
             /\ k2[b] = R2[o2[b] - b + 1].key
  <2> TAKE b \in 1 .. Len(o2)
  <2>1. b \in 1 .. m \/ b = m + 1
    BY <1>5, <1>6
  <2> QED
    BY <1>9, <1>10, <2>1
<1>14. stop <= Len(f2)
  BY <1>1, <1>3, <1>12
<1>15. Laid(f2, R2, o2, k2, stop)
  BY <1>6, <1>7, <1>11, <1>12, <1>13, <1>14 DEF Laid
<1>16. stop = Len(f) + Len(bytes)
  BY <1>1, <1>3 DEF stop, L
<1> QED
  BY <1>15, <1>16 DEF f2, R2, o2, k2, bytes, L

-----------------------------------------------------------------------------
(* Reading it.                                                             *)

\* One block, as long as it lies where the offsets say.
LEMMA BlockReads ==
    ASSUME NEW f, NEW R \in Seq(Record), NEW offs, NEW firsts, NEW stop, IsSeq(f),
           Laid(f, R, offs, firsts, stop), NEW b \in 1 .. Len(offs)
    PROVE  LET end == EndOf(offs, stop, b)
           IN  /\ offs[b] - b \in 0 .. Len(R) /\ end - b - 1 \in 0 .. Len(R) /\ offs[b] - b <= end - b - 1
               /\ BlockIn(f, offs[b], end) =
                     [ok |-> TRUE, records |-> SubSeq(R, offs[b] - b + 1, end - b - 1)]
<1> DEFINE end == EndOf(offs, stop, b)
           start == offs[b]
           n == end - start - 1
           got == [i \in 1 .. n |-> f[start + i].record]
           part == SubSeq(R, start - b + 1, end - b - 1)
<1>1. /\ b <= start /\ start + 1 < end /\ end <= Len(R) + b + 1
      /\ f[end] = BlockEnd(n)
      /\ \A i \in start + 1 .. end - 1 : f[i] = RowCell(R[i - b])
  BY DEF Laid
<1>2. offs \in Seq(Nat) /\ Len(offs) \in Nat /\ stop = Len(R) + Len(offs) + 1 /\ stop <= Len(f)
      /\ Len(f) \in Nat /\ Len(R) \in Nat
  BY IsSeqLen DEF Laid
<1>3. start \in Nat /\ end \in Nat /\ b \in Nat /\ b <= Len(offs)
  BY <1>2 DEF EndOf
<1> HIDE DEF end, start
<1>4. start - b \in 0 .. Len(R) /\ end - b - 1 \in 0 .. Len(R) /\ start - b <= end - b - 1
      /\ start < end /\ end <= Len(f) /\ n \in Nat /\ start + n <= end - 1
  BY <1>1, <1>2, <1>3
<1>5. f[end].rows = n /\ f[end].cell = "TAIL"
  BY <1>1, CellFields
<1>6. \A i \in start + 1 .. start + n : f[i].cell = "ROW"
  <2> TAKE i \in start + 1 .. start + n
  <2>1. i \in start + 1 .. end - 1
    BY <1>3
  <2> QED
    BY <1>1, <2>1, CellFields
<1>7. got = part
  <2>1. \A i \in start - b + 1 .. end - b - 1 : R[i] \in Record
    BY <1>4
  <2>2. part \in Seq(Record) /\ Len(part) = n /\ \A i \in 1 .. n : part[i] = R[start - b + i]
    <3>1. /\ start - b + 1 \in Int /\ end - b - 1 \in Int
          /\ Len(part) = IF start - b + 1 <= end - b - 1 THEN (end - b - 1) - (start - b + 1) + 1 ELSE 0
          /\ part \in Seq(Record)
          /\ \A i \in 1 .. (end - b - 1) - (start - b + 1) + 1 : part[i] = R[(start - b + 1) + i - 1]
      BY <1>3, <2>1, SubSeqProperties
    <3>2. (end - b - 1) - (start - b + 1) + 1 = n /\ start - b + 1 <= end - b - 1
      BY <1>1, <1>3
    <3>3. \A i \in 1 .. n : (start - b + 1) + i - 1 = start - b + i
      BY <1>3
    <3> HIDE DEF part, n
    <3> QED
      BY <3>1, <3>2, <3>3
  <2>3. \A i \in 1 .. n : f[start + i].record = R[start - b + i]
    <3> TAKE i \in 1 .. n
    <3>1. PICK j \in start + 1 .. end - 1 : j = start + i
      BY <1>3
    <3>2. f[start + i] = RowCell(R[start - b + i])
      <4>1. j - b = start - b + i
        BY <1>3, <3>1
      <4>2. f[j] = RowCell(R[j - b])
        BY <1>1
      <4> QED
        BY <3>1, <4>1, <4>2
    <3> QED
      BY <3>2, CellFields
  <2> HIDE DEF part
  <2>4. \A i \in 1 .. n : got[i] = part[i] /\ part[i] \in Record
    BY <2>2, <2>3
  <2>5. got \in Seq(Record) /\ Len(got) = n
    BY <1>4, <2>4
  <2> HIDE DEF got
  <2> QED
    BY <2>2, <2>4, <2>5, SeqEqual
<1> HIDE DEF got, part, n
<1>8. BlockIn(f, start, end) = [ok |-> TRUE, records |-> got]
  BY <1>4, <1>5, <1>6 DEF BlockIn, got
<1> QED
  BY <1>4, <1>7, <1>8 DEF start, end, part

LEMMA LaidReads ==
    ASSUME NEW path, NEW R \in Seq(Record), Len(R) # 0, NEW f, f = File(path), IsSeq(f), f # <<>>,
           NEW foot, foot = Last(f), foot.cell = "FOOTER", foot.total_rows = Len(R),
           Laid(f, R, foot.data_block_offsets, foot.first_keys, foot.data_block_metadata_start)
    PROVE  read_sstable(path) = [ok |-> TRUE, records |-> R]
<1> DEFINE offs == foot.data_block_offsets
           stop == foot.data_block_metadata_start
           m == Len(offs)
           end(b) == EndOf(offs, stop, b)
           parts == [b \in 1 .. m |-> SubSeq(R, offs[b] - b + 1, end(b) - b - 1)]
           cuts == [b \in 0 .. m |-> IF b = 0 THEN 0 ELSE end(b) - b - 1]
           blocks == [b \in 1 .. m |-> BlockIn(f, offs[b], end(b))]
<1>1. offs \in Seq(Nat) /\ m \in Nat /\ stop = Len(R) + m + 1 /\ (IF m = 0 THEN stop = 1 ELSE offs[1] = 1)
      /\ Len(R) \in Nat
  BY DEF Laid
<1>2. m # 0 /\ DOMAIN offs = 1 .. m
  BY <1>1
<1>3. \A b \in 1 .. m : /\ offs[b] - b \in 0 .. Len(R) /\ end(b) - b - 1 \in 0 .. Len(R)
                        /\ offs[b] - b <= end(b) - b - 1
                        /\ blocks[b] = [ok |-> TRUE, records |-> parts[b]]
  <2> TAKE b \in 1 .. m
  <2>1. /\ offs[b] - b \in 0 .. Len(R) /\ end(b) - b - 1 \in 0 .. Len(R) /\ offs[b] - b <= end(b) - b - 1
        /\ BlockIn(f, offs[b], end(b)) = [ok |-> TRUE, records |-> SubSeq(R, offs[b] - b + 1, end(b) - b - 1)]
    BY BlockReads
  <2>2. blocks[b] = BlockIn(f, offs[b], end(b)) /\ parts[b] = SubSeq(R, offs[b] - b + 1, end(b) - b - 1)
    OBVIOUS
  <2> HIDE DEF blocks, parts, end, offs, stop
  <2> QED
    BY <2>1, <2>2
<1>4. cuts \in [0 .. m -> 0 .. Len(R)] /\ cuts[0] = 0 /\ cuts[m] = Len(R)
  <2>1. end(m) = stop
    BY <1>1, <1>2 DEF EndOf
  <2> DEFINE last(b) == end(b) - b - 1
  <2>2. last(m) = Len(R)
    BY <1>1, <1>2, <2>1
  <2>3. \A b \in 1 .. m : last(b) \in 0 .. Len(R)
    BY <1>3
  <2>4. cuts = [b \in 0 .. m |-> IF b = 0 THEN 0 ELSE last(b)]
    OBVIOUS
  <2>5. m \in 0 .. m /\ 0 \in 0 .. m /\ 0 \in 0 .. Len(R)
    BY <1>1
  <2>6. \A b \in 0 .. m : b = 0 \/ b \in 1 .. m
    BY <1>1
  <2> HIDE DEF last, cuts, offs, m, end
  <2> QED
    BY <1>2, <2>2, <2>3, <2>4, <2>5, <2>6
<1>5. \A b \in 1 .. m : cuts[b - 1] = offs[b] - b /\ cuts[b] = end(b) - b - 1
  <2> TAKE b \in 1 .. m
  <2>1. CASE b = 1
    BY <1>1, <1>2, <2>1
  <2>2. CASE b # 1
    <3>1. b - 1 \in 1 .. m /\ b - 1 < m /\ (b - 1) + 1 = b
      BY <1>1, <2>2
    <3>2. end(b - 1) = offs[b]
      BY <3>1 DEF EndOf
    <3>3. offs[b] \in Nat
      BY <1>1
    <3>4. cuts[b - 1] = offs[b] - (b - 1) - 1
      BY <3>1, <3>2
    <3> QED
      BY <3>1, <3>3, <3>4
  <2> QED
    BY <2>1, <2>2
<1>6. \A b \in 1 .. m : cuts[b - 1] <= cuts[b] /\ parts[b] = SubSeq(R, cuts[b - 1] + 1, cuts[b])
  <2> TAKE b \in 1 .. m
  <2>1. parts[b] = SubSeq(R, offs[b] - b + 1, end(b) - b - 1)
    OBVIOUS
  <2>2. offs[b] - b <= end(b) - b - 1
    BY <1>3
  <2> HIDE DEF parts, cuts, offs, end
  <2> QED
    BY <1>5, <2>1, <2>2
<1>7. parts = [b \in 1 .. m |-> parts[b]]
  OBVIOUS
<1> HIDE DEF cuts, parts
<1>8. FlattenSeq(parts) = R
  <2>1. m \in Nat \ {0}
    BY <1>1, <1>2
  <2> HIDE DEF m, end, blocks, offs, stop
  <2> QED
    BY <1>4, <1>6, <1>7, <2>1, FlattenParts
<1>9. [b \in DOMAIN offs |-> blocks[b].records] = parts /\ \A b \in DOMAIN offs : blocks[b].ok
  <2>1. \A b \in 1 .. m : blocks[b].records = parts[b] /\ blocks[b].ok = TRUE
    <3> TAKE b \in 1 .. m
    <3>1. blocks[b] = [ok |-> TRUE, records |-> parts[b]]
      BY <1>3
    <3> HIDE DEF blocks, parts
    <3> QED
      BY <3>1
  <2> HIDE DEF blocks, offs, m
  <2> QED
    BY <1>2, <1>7, <2>1
<1>10. blocks = [i \in DOMAIN offs |-> BlockIn(f, offs[i], IF i < Len(offs) THEN offs[i + 1] ELSE foot.data_block_metadata_start)]
  BY <1>2 DEF EndOf
<1> HIDE DEF blocks
<1> QED
  BY <1>8, <1>9, <1>10 DEF read_sstable

-----------------------------------------------------------------------------
(* The invariant.                                                          *)

\* A file that is being written, with what append keeps of it.
Growing(f, R, offs, firsts, rows, filter, first) ==
    /\ IsSeq(f) /\ R \in Seq(Record) /\ R # <<>>
    /\ firsts \in Seq(Keys) /\ Laid(f, R, offs, firsts, Len(f))
    /\ rows = Len(R) /\ KeysOf(R) \subseteq filter /\ first = Head(R).key

\* A file that was closed, with its entry in sstable_list.
Sealed(s, f, R) ==
    LET foot == Last(f)
    IN  /\ IsSeq(f) /\ f # <<>> /\ R \in Seq(Record) /\ R # <<>>
        /\ foot.cell = "FOOTER" /\ foot.total_rows = Len(R)
        /\ Laid(f, R, foot.data_block_offsets, foot.first_keys, foot.data_block_metadata_start)
        /\ KeysOf(R) \subseteq foot.filter
        /\ s.num_rows_in_sstable = Len(R) /\ s.first = Head(R).key /\ s.last = Last(R).key

EntryReads(s, d, st, h) ==
    LET p == s.file_address
    IN  p \in DOMAIN d /\ (p \notin h => p \in DOMAIN st /\ Sealed(s, d[p], st[p]))

\* A file that is there before it is opened was left by a failed opening.
LeftHurt == current_sstable_id \in DOMAIN disk => current_sstable_id \in hurt

SentType == \A p \in DOMAIN sent : sent[p] \in Seq(Record)

OpenGrows ==
    Path # None /\ Path \notin hurt =>
       /\ Path \in DOMAIN sent
       /\ Growing(disk[Path], sent[Path], data_block_offsets, first_keys_sstable_list,
                  sstable_num_rows, bloom, first_string_entry)
       /\ \A i \in DOMAIN sstable_list : sstable_list[i].file_address # Path

ListedRead == \A i \in DOMAIN sstable_list : EntryReads(sstable_list[i], disk, sent, hurt)

ListedOnce ==
    \A i, j \in DOMAIN sstable_list :
       sstable_list[i].file_address = sstable_list[j].file_address
          => i = j \/ sstable_list[i].file_address \in hurt

ReadInv == LeftHurt /\ SentType /\ OpenGrows /\ ListedRead /\ ListedOnce

LEMMA ReadInit == Init => ReadInv
<1> SUFFICES ASSUME Init PROVE ReadInv
  OBVIOUS
<1>1. DOMAIN disk = {} /\ DOMAIN sent = {} /\ DOMAIN sstable_list = {} /\ Path = None
  BY DEF Init, Path
<1> QED
  BY <1>1 DEF ReadInv, LeftHurt, SentType, OpenGrows, ListedRead, ListedOnce

\* What a write to one file leaves alone.
LEMMA StoredAt ==
    ASSUME NEW path, NEW bytes, disk' = Stored(path, bytes)
    PROVE  /\ DOMAIN disk' = DOMAIN disk \cup {path} /\ disk'[path] = File(path) \o bytes
           /\ \A p \in DOMAIN disk : p # path => disk'[p] = disk[p]
  BY DEF Stored

LEMMA AckedAt ==
    ASSUME SentType, NEW path, NEW records \in Seq(Record), Acked(path, records)
    PROVE  /\ DOMAIN sent' = DOMAIN sent \cup {path} /\ SentType'
           /\ sent'[path] = (IF path \in DOMAIN sent THEN sent[path] ELSE <<>>) \o records
           /\ \A p \in DOMAIN sent : p # path => sent'[p] = sent[p]
<1> DEFINE before(p) == IF p \in DOMAIN sent THEN sent[p] ELSE <<>>
<1>1. \A p : before(p) \in Seq(Record)
  BY DEF SentType
<1>2. DOMAIN sent' = DOMAIN sent \cup {path}
      /\ \A p \in DOMAIN sent \cup {path} : sent'[p] = before(p) \o IF p = path THEN records ELSE <<>>
  BY DEF Acked
<1>3. \A p : before(p) \o <<>> = before(p) /\ before(p) \o records \in Seq(Record)
  BY <1>1
<1>4. \A p \in DOMAIN sent : p # path => sent'[p] = sent[p]
  BY <1>2, <1>3
<1>5. sent'[path] = before(path) \o records
  BY <1>2
<1> HIDE DEF before
<1>6. \A p \in DOMAIN sent' : sent'[p] = before(p) \o records \/ sent'[p] = before(p) \o <<>>
  BY <1>2
<1>7. SentType'
  BY <1>1, <1>3, <1>6 DEF SentType
<1> QED
  BY <1>2, <1>4, <1>5, <1>7 DEF before

\* The entries of other files read as before.
LEMMA OthersRead ==
    ASSUME ReadInv, NEW path, path \in DOMAIN disk',
           \A p \in DOMAIN disk \ {path} : p \in DOMAIN disk' /\ disk'[p] = disk[p],
           \A p \in DOMAIN sent \ {path} : p \in DOMAIN sent' /\ sent'[p] = sent[p],
           hurt \subseteq hurt',
           path \in hurt' \/ \A i \in DOMAIN sstable_list : sstable_list[i].file_address # path
    PROVE  \A i \in DOMAIN sstable_list : EntryReads(sstable_list[i], disk', sent', hurt')
<1> TAKE i \in DOMAIN sstable_list
<1> DEFINE s == sstable_list[i]
           p == s.file_address
<1>1. p \in DOMAIN disk /\ (p \notin hurt => p \in DOMAIN sent /\ Sealed(s, disk[p], sent[p]))
  BY DEF ReadInv, ListedRead, EntryReads
<1>2. CASE p = path
  BY <1>2 DEF EntryReads
<1>3. CASE p # path
  BY <1>1, <1>3 DEF EntryReads
<1> QED
  BY <1>2, <1>3

\* The keys and the ends of two sequences of records, one behind the other.
LEMMA RecordsConcat ==
    ASSUME NEW R \in Seq(Record), NEW records, Given(records)
    PROVE  /\ R \o records \in Seq(Record) /\ Len(R \o records) = Len(R) + Len(records)
           /\ Len(R \o records) # 0 /\ R \o records # <<>>
           /\ KeysOf(R \o records) \subseteq KeysOf(R) \cup KeysOf(records)
           /\ Last(R \o records) = Last(records)
           /\ Head(R \o records) = IF R = <<>> THEN Head(records) ELSE Head(R)
<1> DEFINE t == R \o records
           k == Len(R)
           n == Len(records)
<1>1. records \in Seq(Record) /\ n \in Nat \ {0} /\ k \in Nat
  BY DEF Given
<1>2. t \in Seq(Record) /\ Len(t) = k + n /\ (\A i \in 1 .. k : t[i] = R[i])
      /\ \A i \in 1 .. n : t[k + i] = records[i]
  BY <1>1
<1>3. DOMAIN R = 1 .. k /\ DOMAIN records = 1 .. n /\ DOMAIN t = 1 .. k + n
  BY <1>1, <1>2
<1> HIDE DEF t, k, n
<1>4. KeysOf(t) \subseteq KeysOf(R) \cup KeysOf(records)
  <2> SUFFICES ASSUME NEW i \in 1 .. k + n
               PROVE  t[i].key \in KeysOf(R) \cup KeysOf(records)
    BY <1>3 DEF KeysOf
  <2>1. CASE i <= k
    <3>1. i \in 1 .. k
      BY <1>1, <2>1
    <3>2. t[i] = R[i]
      BY <1>2, <3>1
    <3> QED
      BY <1>3, <3>1, <3>2 DEF KeysOf
  <2>2. CASE ~(i <= k)
    <3>1. PICK j \in 1 .. n : i = k + j
      <4>1. i - k \in 1 .. n /\ i = k + (i - k)
        BY <1>1, <2>2
      <4> QED
        BY <4>1
    <3>2. t[i] = records[j]
      BY <1>2, <3>1
    <3> QED
      BY <1>3, <3>2 DEF KeysOf
  <2> QED
    BY <2>1, <2>2
<1>5. Last(t) = t[k + n] /\ Last(records) = records[n] /\ n \in 1 .. n
  BY <1>1, <1>2 DEF Last, n
<1>6. Last(t) = Last(records)
  BY <1>2, <1>5
<1>7. Head(t) = t[1] /\ Head(records) = records[1]
  BY <1>1, <1>2 DEF n
<1>8. Head(t) = IF R = <<>> THEN Head(records) ELSE Head(R)
  <2>1. CASE R = <<>>
    <3>1. k = 0 /\ 1 \in 1 .. n /\ k + 1 = 1
      BY <1>1, <2>1 DEF k
    <3> QED
      BY <1>2, <1>7, <2>1, <3>1
  <2>2. CASE R # <<>>
    <3>1. k # 0 /\ Head(R) = R[1]
      BY <2>2 DEF k
    <3>2. 1 \in 1 .. k
      BY <1>1, <3>1
    <3> QED
      BY <1>2, <1>7, <2>2, <3>1, <3>2
  <2> QED
    BY <2>1, <2>2
<1>9. k + n # 0
  BY <1>1
<1>10. t # <<>>
  BY <1>2, <1>9
<1> QED
  BY <1>2, <1>4, <1>6, <1>8, <1>9, <1>10 DEF t, k, n

\* A file grows by a block.
LEMMA GrowsMore ==
    ASSUME NEW f, NEW R, NEW offs, NEW firsts, NEW rows, NEW filter, NEW first,
           Growing(f, R, offs, firsts, rows, filter, first), NEW records, Given(records)
    PROVE  LET bytes == compute_db_bytes(records)
           IN  /\ Growing(f \o bytes, R \o records, Append(offs, Len(f)), Append(firsts, Head(records).key),
                          rows + Len(records), filter \cup KeysOf(records), first)
               /\ Len(f \o bytes) = Len(f) + Len(bytes)
               /\ Last(R \o records) = Last(records)
<1> DEFINE bytes == compute_db_bytes(records)
<1>1. IsSeq(f) /\ R \in Seq(Record) /\ R # <<>> /\ firsts \in Seq(Keys) /\ Laid(f, R, offs, firsts, Len(f))
      /\ rows = Len(R) /\ KeysOf(R) \subseteq filter /\ first = Head(R).key
  BY DEF Growing
<1>2. IsSeq(bytes) /\ Head(records).key \in Keys
  BY BytesAreSeq DEF Given
<1>3. Laid(f \o bytes, R \o records, Append(offs, Len(f)), Append(firsts, Head(records).key), Len(f) + Len(bytes))
  BY <1>1, LaidMore
<1> HIDE DEF bytes
<1>4. IsSeq(f \o bytes) /\ Len(f \o bytes) = Len(f) + Len(bytes)
  BY <1>1, <1>2, IsSeqConcat, ConcatCells
<1>5. /\ R \o records \in Seq(Record) /\ Len(R \o records) = Len(R) + Len(records)
      /\ R \o records # <<>>
      /\ KeysOf(R \o records) \subseteq KeysOf(R) \cup KeysOf(records)
      /\ Last(R \o records) = Last(records)
      /\ Head(R \o records) = Head(R)
  BY <1>1, RecordsConcat
<1>6. Append(firsts, Head(records).key) \in Seq(Keys)
  BY <1>1, <1>2
<1>7. KeysOf(R \o records) \subseteq filter \cup KeysOf(records)
  BY <1>1, <1>5
<1>8. Growing(f \o bytes, R \o records, Append(offs, Len(f)), Append(firsts, Head(records).key),
              rows + Len(records), filter \cup KeysOf(records), first)
  BY <1>1, <1>3, <1>4, <1>5, <1>6, <1>7 DEF Growing
<1> QED
  BY <1>4, <1>5, <1>8 DEF bytes

\* A file's first block.
LEMMA GrowsFirst ==
    ASSUME NEW records, Given(records)
    PROVE  Growing(FirstBytes(records), records, <<1>>, <<Head(records).key>>, Len(records),
                   KeysOf(records), Head(records).key)
<1> DEFINE bytes == compute_db_bytes(records)
<1>1. IsSeq(<<Header>>) /\ Len(<<Header>>) = 1 /\ <<>> \in Seq(Record) /\ <<>> \in Seq(Keys)
  BY IsSeqOne
<1>2. records \in Seq(Record) /\ Len(records) # 0 /\ Head(records).key \in Keys
  BY DEF Given
<1>3. Laid(<<Header>> \o bytes, <<>> \o records, Append(<<>>, 1), Append(<<>>, Head(records).key), 1 + Len(bytes))
  BY <1>1, LaidStart, LaidMore
<1>4. <<>> \o records = records /\ Append(<<>>, 1) = <<1>> /\ Append(<<>>, Head(records).key) = <<Head(records).key>>
  BY <1>2
<1>5. IsSeq(bytes)
  BY BytesAreSeq
<1> HIDE DEF bytes
<1>6. Len(<<Header>> \o bytes) = 1 + Len(bytes) /\ IsSeq(<<Header>> \o bytes)
  BY <1>1, <1>5, IsSeqConcat, ConcatCells
<1>7. <<Head(records).key>> \in Seq(Keys) /\ records # <<>>
  BY <1>2
<1>8. Laid(<<Header>> \o bytes, records, <<1>>, <<Head(records).key>>, Len(<<Header>> \o bytes))
  BY <1>3, <1>4, <1>6
<1>9. Growing(<<Header>> \o bytes, records, <<1>>, <<Head(records).key>>, Len(records),
              KeysOf(records), Head(records).key)
  BY <1>2, <1>6, <1>7, <1>8 DEF Growing
<1> QED
  BY <1>9 DEF FirstBytes, bytes

LEMMA OpeningReads ==
    ASSUME FilesInv, FilesInv', ReadInv, NEW records, Given(records),
           AppendCannotOpen(records) \/ AppendOpens(records) \/ AppendOpensInPart(records)
    PROVE  ReadInv'
<1> DEFINE id == current_sstable_id
<1>1. current_sstable_id \in Nat \ {0} /\ DOMAIN disk \subseteq 1 .. id /\ DOMAIN sent \subseteq DOMAIN disk
      /\ sstable_list' = sstable_list
  BY DEF FilesInv, AppendCannotOpen, AppendOpens, AppendOpensInPart, OpenedWith, Opening
<1>2. CASE AppendCannotOpen(records)
  <2>1. UNCHANGED <<disk, active_file_descriptor, current_sstable_id, sent, hurt>> /\ Path = None
    BY <1>2 DEF AppendCannotOpen, Opening, Path
  <2> QED
    BY <1>1, <2>1 DEF ReadInv, LeftHurt, SentType, OpenGrows, ListedRead, ListedOnce, Path
<1>3. CASE AppendOpensInPart(records)
  <2>1. PICK part : disk' = Stored(id, part)
    BY <1>3 DEF AppendOpensInPart
  <2>2. sent' = sent /\ hurt' = hurt \cup {id} /\ current_sstable_id' = id /\ Path' = id
    BY <1>3 DEF AppendOpensInPart, OpenedWith, Hurt, Path
  <2>3. DOMAIN disk' = DOMAIN disk \cup {id} /\ \A p \in DOMAIN disk : p # id => disk'[p] = disk[p]
    BY <2>1, StoredAt
  <2>4. ListedRead'
    <3>1. \A i \in DOMAIN sstable_list : EntryReads(sstable_list[i], disk', sent', hurt')
      <4>1. id \in DOMAIN disk' /\ id \in hurt' /\ hurt \subseteq hurt'
        BY <2>2, <2>3
      <4> HIDE DEF id
      <4> QED
        BY <2>2, <2>3, <4>1, OthersRead
    <3> QED
      BY <1>1, <3>1 DEF ListedRead, EntryReads, Sealed, IsSeq
  <2>5. ListedOnce' /\ SentType'
    BY <1>1, <2>2 DEF ReadInv, ListedOnce, SentType
  <2>6. LeftHurt' /\ OpenGrows'
    BY <2>2 DEF LeftHurt, OpenGrows
  <2> QED
    BY <2>4, <2>5, <2>6 DEF ReadInv
<1>4. CASE AppendOpens(records)
  <2>1. disk' = Stored(id, FirstBytes(records)) /\ hurt' = hurt /\ current_sstable_id' = id + 1 /\ Path' = id
        /\ Acked(id, records)
    BY <1>4 DEF AppendOpens, OpenedWith, Path
  <2>2. /\ data_block_offsets' = <<1>> /\ first_keys_sstable_list' = <<Head(records).key>>
        /\ sstable_num_rows' = Len(records) /\ bloom' = KeysOf(records)
        /\ first_string_entry' = Head(records).key
    BY <1>4 DEF AppendOpens, OpenedWith
  <2>3. /\ DOMAIN disk' = DOMAIN disk \cup {id} /\ disk'[id] = File(id) \o FirstBytes(records)
        /\ \A p \in DOMAIN disk : p # id => disk'[p] = disk[p]
    BY <2>1, StoredAt
  <2>4. /\ DOMAIN sent' = DOMAIN sent \cup {id} /\ SentType'
        /\ sent'[id] = (IF id \in DOMAIN sent THEN sent[id] ELSE <<>>) \o records
        /\ \A p \in DOMAIN sent : p # id => sent'[p] = sent[p]
    BY <2>1, AckedAt DEF ReadInv, Given
  <2>5. id \notin hurt => /\ id \notin DOMAIN disk /\ id \notin DOMAIN sent
                          /\ \A i \in DOMAIN sstable_list : sstable_list[i].file_address # id
    BY <1>1 DEF ReadInv, LeftHurt, ListedRead, EntryReads
  <2>6. ListedRead'
    <3>1. \A i \in DOMAIN sstable_list : EntryReads(sstable_list[i], disk', sent', hurt')
      <4>1. id \in DOMAIN disk' /\ hurt \subseteq hurt'
            /\ (id \in hurt' \/ \A i \in DOMAIN sstable_list : sstable_list[i].file_address # id)
        BY <2>1, <2>3, <2>5
      <4> HIDE DEF id
      <4> QED
        BY <2>3, <2>4, <4>1, OthersRead
    <3> QED
      BY <1>1, <3>1 DEF ListedRead, EntryReads, Sealed, IsSeq
  <2>7. ListedOnce'
    BY <1>1, <2>1 DEF ReadInv, ListedOnce
  <2>8. LeftHurt'
    <3>1. id + 1 \notin DOMAIN disk'
      BY <1>1, <2>3
    <3> QED
      BY <2>1, <3>1 DEF LeftHurt
  <2>9. OpenGrows'
    <3>1. CASE id \in hurt
      BY <2>1, <3>1 DEF OpenGrows
    <3>2. CASE id \notin hurt
      <4>1. Growing(FirstBytes(records), records, <<1>>, <<Head(records).key>>, Len(records),
                   KeysOf(records), Head(records).key)
        BY GrowsFirst
      <4>2. IsSeq(FirstBytes(records)) /\ records \in Seq(Record)
        BY BytesAreSeq DEF Given
      <4>3. disk'[id] = FirstBytes(records)
        BY <2>3, <2>5, <3>2, <4>2 DEF File, IsSeq
      <4>4. sent'[id] = records
        BY <2>4, <2>5, <3>2, <4>2
      <4>5. \A i \in DOMAIN sstable_list' : sstable_list'[i].file_address # id
        BY <1>1, <2>5, <3>2
      <4>6. Growing(disk'[id], sent'[id], data_block_offsets', first_keys_sstable_list',
                    sstable_num_rows', bloom', first_string_entry')
        BY <2>2, <4>1, <4>3, <4>4
      <4>7. id \in DOMAIN sent'
        BY <2>4
      <4> HIDE DEF id
      <4> QED
        BY <2>1, <4>5, <4>6, <4>7 DEF OpenGrows, Growing
    <3> QED
      BY <3>1, <3>2
  <2> QED
    BY <2>4, <2>6, <2>7, <2>8, <2>9 DEF ReadInv
<1> QED
  BY <1>2, <1>3, <1>4

\* One entry more.
LEMMA ListGrows ==
    ASSUME ReadInv, IsSeq(sstable_list), NEW s, sstable_list' = Append(sstable_list, s),
           \A i \in DOMAIN sstable_list : EntryReads(sstable_list[i], disk', sent', hurt'),
           EntryReads(s, disk', sent', hurt'), hurt \subseteq hurt',
           s.file_address \in hurt'
             \/ \A i \in DOMAIN sstable_list : sstable_list[i].file_address # s.file_address
    PROVE  ListedRead' /\ ListedOnce'
<1> DEFINE n == Len(sstable_list)
           list == Append(sstable_list, s)
<1>1. n \in Nat /\ DOMAIN sstable_list = 1 .. n
  BY IsSeqLen
<1>2. DOMAIN list = 1 .. n + 1 /\ list[n + 1] = s /\ \A i \in 1 .. n : list[i] = sstable_list[i]
  <2>1. PICK S : sstable_list \in Seq(S)
    BY DEF IsSeq
  <2>2. sstable_list \in Seq(S \cup {s}) /\ s \in S \cup {s}
    BY <2>1, SeqMonotonic
  <2> QED
    BY <2>2
<1> HIDE DEF n, list
<1>3. \A i \in DOMAIN list : i \in 1 .. n \/ i = n + 1
  BY <1>1, <1>2
<1>4. \A i \in DOMAIN list : EntryReads(list[i], disk', sent', hurt')
  BY <1>1, <1>2, <1>3
<1>5. ASSUME NEW i \in DOMAIN list, NEW j \in DOMAIN list, list[i].file_address = list[j].file_address
      PROVE  i = j \/ list[i].file_address \in hurt'
  <2>1. CASE i \in 1 .. n /\ j \in 1 .. n
    BY <1>1, <1>2, <1>5, <2>1 DEF ReadInv, ListedOnce
  <2>2. CASE i \in 1 .. n /\ j = n + 1
    BY <1>1, <1>2, <1>5, <2>2
  <2>3. CASE i = n + 1 /\ j \in 1 .. n
    BY <1>1, <1>2, <1>5, <2>3
  <2> QED
    BY <1>3, <2>1, <2>2, <2>3
<1>6. sstable_list' = list
  BY DEF list
<1>7. ListedRead'
  BY <1>4, <1>6 DEF ListedRead
<1>8. ListedOnce'
  BY <1>5, <1>6 DEF ListedOnce
<1> QED
  BY <1>7, <1>8

\* The block that a call adds to a file whose writes have all succeeded.
LEMMA PathGrows ==
    ASSUME FilesInv, ReadInv, Path # None, Path \notin hurt, NEW records, Given(records)
    PROVE  LET f == disk[Path] \o compute_db_bytes(records)
           IN  /\ Path \in DOMAIN disk /\ Path \in DOMAIN sent /\ File(Path) = disk[Path]
               /\ Growing(f, sent[Path] \o records, Offsets, FirstKeys(records), Rows(records),
                          Filter(records), first_string_entry)
               /\ Len(f) = Len(disk[Path]) + Len(compute_db_bytes(records)) /\ IsSeq(disk[Path])
               /\ Last(sent[Path] \o records) = Last(records)
<1> DEFINE f == disk[Path]
           R == sent[Path]
<1>1. /\ Path \in DOMAIN sent /\ Path \in DOMAIN disk
      /\ Growing(f, R, data_block_offsets, first_keys_sstable_list,
                 sstable_num_rows, bloom, first_string_entry)
  BY DEF FilesInv, ReadInv, OpenGrows
<1>2. File(Path) = f /\ IsSeq(f)
  BY <1>1 DEF File, Growing
<1>3. /\ Offsets = Append(data_block_offsets, Len(f)) /\ Rows(records) = sstable_num_rows + Len(records)
      /\ FirstKeys(records) = Append(first_keys_sstable_list, Head(records).key)
      /\ Filter(records) = bloom \cup KeysOf(records)
  BY <1>2 DEF Offsets, Rows, FirstKeys, Filter
<1> HIDE DEF f, R
<1>4. /\ Growing(f \o compute_db_bytes(records), R \o records, Append(data_block_offsets, Len(f)),
                 Append(first_keys_sstable_list, Head(records).key), sstable_num_rows + Len(records),
                 bloom \cup KeysOf(records), first_string_entry)
      /\ Len(f \o compute_db_bytes(records)) = Len(f) + Len(compute_db_bytes(records))
      /\ Last(R \o records) = Last(records)
  BY <1>1, GrowsMore
<1> QED
  BY <1>1, <1>2, <1>3, <1>4 DEF f, R

\* A call that fails to write its block, or what follows the last.
LEMMA HurtReads ==
    ASSUME FilesInv, ListedInv, ReadInv, NEW records, Given(records),
           AppendAddsInPart(records) \/ AppendClosesInPart(records)
    PROVE  ReadInv'
<1>1. Path # None /\ current_sstable_id' = current_sstable_id /\ hurt' = hurt \cup {Path} /\ Path' = Path
  BY DEF AppendAddsInPart, AppendClosesInPart, Closes, AddsBlock, Hurt, Path
<1>2. Path \in DOMAIN disk
  BY <1>1 DEF FilesInv, Path
<1>3. DOMAIN disk' = DOMAIN disk /\ \A p \in DOMAIN disk : p # Path => disk'[p] = disk[p]
  <2>1. PICK bytes : disk' = Stored(Path, bytes)
    BY DEF AppendAddsInPart, AppendClosesInPart
  <2> QED
    BY <1>2, <2>1, StoredAt
<1>4. /\ SentType' /\ DOMAIN sent \subseteq DOMAIN sent'
      /\ \A p \in DOMAIN sent : p # Path => sent'[p] = sent[p]
  <2>1. CASE sent' = sent
    BY <2>1 DEF ReadInv, SentType
  <2>2. CASE Acked(Path, records)
    BY <2>2, AckedAt DEF ReadInv, Given
  <2> QED
    BY <2>1, <2>2 DEF AppendAddsInPart, AppendClosesInPart, Closes
<1>5. \A i \in DOMAIN sstable_list : EntryReads(sstable_list[i], disk', sent', hurt')
  <2>1. hurt \subseteq hurt' /\ Path \in hurt' /\ Path \in DOMAIN disk'
    BY <1>1, <1>2, <1>3
  <2> QED
    BY <1>3, <1>4, <2>1, OthersRead
<1>6. \/ sstable_list' = sstable_list
      \/ \E s : s.file_address = Path /\ sstable_list' = Append(sstable_list, s)
  BY DEF AppendAddsInPart, AppendClosesInPart, Closes
<1>7. LeftHurt' /\ OpenGrows'
  BY <1>1, <1>3 DEF ReadInv, LeftHurt, OpenGrows
<1>8. ListedRead' /\ ListedOnce'
  <2>1. CASE sstable_list' = sstable_list
    BY <1>1, <1>5, <2>1 DEF ListedRead, ListedOnce, EntryReads, Sealed, IsSeq, ReadInv
  <2>2. CASE sstable_list' # sstable_list
    <3>1. PICK s : s.file_address = Path /\ sstable_list' = Append(sstable_list, s)
      BY <1>6, <2>2
    <3>2. EntryReads(s, disk', sent', hurt')
      BY <1>1, <1>2, <1>3, <3>1 DEF EntryReads
    <3>3. Path \in hurt' /\ hurt \subseteq hurt'
      BY <1>1
    <3> QED
      BY <1>5, <3>1, <3>2, <3>3, ListGrows DEF ListedInv
  <2> QED
    BY <2>1, <2>2
<1> QED
  BY <1>4, <1>7, <1>8 DEF ReadInv

LEMMA AddsReads ==
    ASSUME FilesInv, ReadInv, NEW records, Given(records), AppendAdds(records)
    PROVE  ReadInv'
<1>1. /\ Path # None /\ current_sstable_id' = current_sstable_id /\ hurt' = hurt /\ Path' = Path
      /\ sstable_list' = sstable_list /\ first_string_entry' = first_string_entry
      /\ disk' = Stored(Path, compute_db_bytes(records)) /\ Acked(Path, records)
      /\ data_block_offsets' = Offsets /\ first_keys_sstable_list' = FirstKeys(records)
      /\ bloom' = Filter(records) /\ sstable_num_rows' = Rows(records)
  BY DEF AppendAdds, AddsBlock, KeepsBlock, Path
<1>2. Path \in DOMAIN disk
  BY <1>1 DEF FilesInv, Path
<1>3. /\ DOMAIN disk' = DOMAIN disk /\ disk'[Path] = File(Path) \o compute_db_bytes(records)
      /\ \A p \in DOMAIN disk : p # Path => disk'[p] = disk[p]
  BY <1>1, <1>2, StoredAt
<1>4. /\ DOMAIN sent' = DOMAIN sent \cup {Path} /\ SentType'
      /\ sent'[Path] = (IF Path \in DOMAIN sent THEN sent[Path] ELSE <<>>) \o records
      /\ \A p \in DOMAIN sent : p # Path => sent'[p] = sent[p]
  BY <1>1, AckedAt DEF ReadInv, Given
<1>5. Path \notin hurt => \A i \in DOMAIN sstable_list : sstable_list[i].file_address # Path
  BY <1>1 DEF ReadInv, OpenGrows
<1>6. ListedRead'
  <2>1. \A i \in DOMAIN sstable_list : EntryReads(sstable_list[i], disk', sent', hurt')
    BY <1>1, <1>2, <1>3, <1>4, <1>5, OthersRead
  <2> QED
    BY <1>1, <2>1 DEF ListedRead, EntryReads, Sealed, IsSeq
<1>7. LeftHurt' /\ ListedOnce'
  BY <1>1, <1>3 DEF ReadInv, LeftHurt, ListedOnce
<1>8. OpenGrows'
  <2>1. CASE Path \in hurt
    BY <1>1, <2>1 DEF OpenGrows
  <2>2. CASE Path \notin hurt
    <3>1. /\ Path \in DOMAIN sent /\ File(Path) = disk[Path]
          /\ Growing(disk[Path] \o compute_db_bytes(records), sent[Path] \o records, Offsets,
                     FirstKeys(records), Rows(records), Filter(records), first_string_entry)
      BY <1>1, <2>2, PathGrows
    <3>2. Growing(disk'[Path], sent'[Path], data_block_offsets', first_keys_sstable_list',
                  sstable_num_rows', bloom', first_string_entry')
      BY <1>1, <1>3, <1>4, <3>1
    <3> QED
      BY <1>1, <1>4, <1>5, <2>2, <3>2 DEF OpenGrows, Growing
  <2> QED
    BY <2>1, <2>2
<1> QED
  BY <1>4, <1>6, <1>7, <1>8 DEF ReadInv

LEMMA ClosesReads ==
    ASSUME FilesInv, ListedInv, ReadInv, NEW records, Given(records), AppendCloses(records)
    PROVE  ReadInv'
<1> DEFINE s == [file_address |-> Path, first |-> first_string_entry, last |-> Last(records).key,
                 num_rows_in_sstable |-> Rows(records)]
           bytes == compute_db_bytes(records)
<1>1. /\ Path # None /\ current_sstable_id' = current_sstable_id /\ hurt' = hurt /\ Path' = None
      /\ sstable_list' = Append(sstable_list, s) /\ Acked(Path, records)
      /\ disk' = Stored(Path, bytes \o ClosingBytes(records))
  BY DEF AppendCloses, Closes, AddsBlock, Path
<1>2. Path \in DOMAIN disk
  BY <1>1 DEF FilesInv, Path
<1>3. /\ DOMAIN disk' = DOMAIN disk /\ disk'[Path] = File(Path) \o (bytes \o ClosingBytes(records))
      /\ \A p \in DOMAIN disk : p # Path => disk'[p] = disk[p]
  <2> DEFINE written == bytes \o ClosingBytes(records)
  <2>1. disk' = Stored(Path, written)
    BY <1>1
  <2> HIDE DEF written
  <2>2. DOMAIN disk' = DOMAIN disk \cup {Path} /\ disk'[Path] = File(Path) \o written
        /\ \A p \in DOMAIN disk : p # Path => disk'[p] = disk[p]
    BY <2>1, StoredAt
  <2> QED
    BY <1>2, <2>2 DEF written
<1>4. /\ DOMAIN sent' = DOMAIN sent \cup {Path} /\ SentType'
      /\ sent'[Path] = (IF Path \in DOMAIN sent THEN sent[Path] ELSE <<>>) \o records
      /\ \A p \in DOMAIN sent : p # Path => sent'[p] = sent[p]
  BY <1>1, AckedAt DEF ReadInv, Given
<1>5. Path \notin hurt => \A i \in DOMAIN sstable_list : sstable_list[i].file_address # Path
  BY <1>1 DEF ReadInv, OpenGrows
<1>6. \A i \in DOMAIN sstable_list : EntryReads(sstable_list[i], disk', sent', hurt')
  BY <1>1, <1>2, <1>3, <1>4, <1>5, OthersRead
<1>7. s.file_address = Path /\ s.first = first_string_entry /\ s.last = Last(records).key
      /\ s.num_rows_in_sstable = Rows(records)
  OBVIOUS
<1> HIDE DEF s
<1>8. Path \notin hurt => Sealed(s, disk'[Path], sent'[Path])
  <2> SUFFICES ASSUME Path \notin hurt PROVE Sealed(s, disk'[Path], sent'[Path])
    OBVIOUS
  <2> DEFINE f == disk[Path] \o bytes
             R == sent[Path] \o records
             t == ClosingBytes(records)
             foot == t[1]
  <2>1. /\ Path \in DOMAIN sent /\ File(Path) = disk[Path] /\ IsSeq(disk[Path])
        /\ Growing(f, R, Offsets, FirstKeys(records), Rows(records), Filter(records), first_string_entry)
        /\ Len(f) = Len(disk[Path]) + Len(bytes)
        /\ Last(R) = Last(records)
    BY <1>1, PathGrows
  <2>2. t = <<foot>> /\ foot.cell = "FOOTER" /\ foot.data_block_offsets = Offsets /\ foot.data_block_metadata_start = Len(f)
        /\ foot.total_rows = Rows(records) /\ foot.first_keys = FirstKeys(records) /\ foot.filter = Filter(records)
    BY <2>1 DEF ClosingBytes, Footer
  <2>3. IsSeq(bytes) /\ IsSeq(t)
    BY BytesAreSeq, FooterIsSeq
  <2>4. disk'[Path] = f \o t
    <3> HIDE DEF bytes, t
    <3>1. disk[Path] \o (bytes \o t) = (disk[Path] \o bytes) \o t
      <4>1. PICK d : d = disk[Path] /\ IsSeq(d)
        BY <2>1
      <4>2. IsSeq(d) /\ IsSeq(bytes) /\ IsSeq(t)
        BY <2>3, <4>1
      <4>3. \A x, y, z : IsSeq(x) /\ IsSeq(y) /\ IsSeq(z) => x \o (y \o z) = (x \o y) \o z
        BY ConcatTwice
      <4>4. d \o (bytes \o t) = (d \o bytes) \o t
        BY <4>2, <4>3
      <4> QED
        BY <4>1, <4>4
    <3>2. disk'[Path] = disk[Path] \o (bytes \o t)
      BY <1>3, <2>1 DEF t
    <3> QED
      BY <3>1, <3>2
  <2>5. sent'[Path] = R
    BY <1>4, <2>1
  <2> HIDE DEF f, R, t, foot
  <2>6. /\ IsSeq(f) /\ R \in Seq(Record) /\ R # <<>> /\ Laid(f, R, Offsets, FirstKeys(records), Len(f))
        /\ Rows(records) = Len(R) /\ KeysOf(R) \subseteq Filter(records) /\ first_string_entry = Head(R).key
    BY <2>1 DEF Growing
  <2>7. Laid(f \o t, R, Offsets, FirstKeys(records), Len(f))
    BY <2>3, <2>6, LaidBehind
  <2>8. /\ IsSeq(f \o t) /\ Len(f \o t) = Len(f) + 1 /\ (f \o t)[Len(f) + 1] = foot /\ Len(f) \in Nat
    <3>1. Len(t) = 1 /\ t[1] = foot
      BY <2>2
    <3>2. /\ Len(f \o t) = Len(f) + Len(t) /\ Len(f) \in Nat
          /\ \A i \in 1 .. Len(t) : (f \o t)[Len(f) + i] = t[i]
      BY <2>3, <2>6, ConcatCells
    <3>3. 1 \in 1 .. Len(t)
      BY <3>1
    <3> QED
      BY <2>3, <2>6, <3>1, <3>2, <3>3, IsSeqConcat
  <2>9. Last(f \o t) = foot /\ f \o t # <<>>
    <3>1. Len(f \o t) # 0 /\ Last(f \o t) = foot
      BY <2>8 DEF Last
    <3> QED
      BY <3>1
  <2>10. Sealed(s, f \o t, R)
    BY <1>7, <2>1, <2>2, <2>6, <2>7, <2>8, <2>9 DEF Sealed
  <2> QED
    BY <2>4, <2>5, <2>10
<1>9. EntryReads(s, disk', sent', hurt')
  BY <1>1, <1>2, <1>3, <1>4, <1>7, <1>8 DEF EntryReads
<1>10. ListedRead' /\ ListedOnce'
  <2>1. s.file_address \in hurt' \/ \A i \in DOMAIN sstable_list : sstable_list[i].file_address # s.file_address
    BY <1>1, <1>5, <1>7
  <2>2. hurt \subseteq hurt' /\ IsSeq(sstable_list)
    BY <1>1 DEF ListedInv
  <2> QED
    BY <1>1, <1>6, <1>9, <2>1, <2>2, ListGrows
<1>11. LeftHurt' /\ OpenGrows'
  BY <1>1, <1>3 DEF ReadInv, LeftHurt, OpenGrows
<1> QED
  BY <1>4, <1>10, <1>11 DEF ReadInv

LEMMA ReadStep ==
    ASSUME FilesInv, FilesInv', ListedInv, ReadInv, [Next]_vars
    PROVE  ReadInv'
<1>1. CASE \E batch \in plan.batches : append(Records(batch))
  <2>1. PICK batch \in plan.batches : append(Records(batch))
    BY <1>1
  <2>2. Given(Records(batch))
    BY BatchGiven DEF FilesInv
  <2> DEFINE records == Records(batch)
  <2>3. Given(records) /\ append(records)
    BY <2>1, <2>2
  <2> HIDE DEF records
  <2> QED
    BY <2>3, OpeningReads, HurtReads, AddsReads, ClosesReads DEF append
<1>2. ASSUME UNCHANGED <<disk, engine, sent, hurt>>
      PROVE  ReadInv'
  BY <1>2 DEF ReadInv, LeftHurt, SentType, OpenGrows, ListedRead, ListedOnce, EntryReads, Sealed, Growing,
    IsSeq, Path, engine
<1>3. CASE IteratorStep
  BY <1>2, <1>3 DEF IteratorStep, Open, get_iterator, NextDies, Destroy
<1>4. CASE FindOverlaps \/ GroupNext \/ UNCHANGED vars
  BY <1>2, <1>4 DEF FindOverlaps, GroupNext, vars
<1> QED
  BY <1>1, <1>3, <1>4 DEF Next, IteratorStep

\* What a listed file reads as.
LEMMA ReadShows ==
    ASSUME ReadInv
    PROVE  ListedReadsBack
<1> SUFFICES ASSUME NEW i \in DOMAIN sstable_list, sstable_list[i].file_address \notin hurt
             PROVE  LET s == sstable_list[i]
                        f == disk[s.file_address]
                        foot == Last(f)
                        records == sent[s.file_address]
                    IN  /\ read_sstable(s.file_address) = [ok |-> TRUE, records |-> records]
                        /\ s.num_rows_in_sstable = Len(records)
                        /\ s.first = Head(records).key /\ s.last = Last(records).key
                        /\ \A b \in DOMAIN foot.data_block_offsets :
                              f[foot.data_block_offsets[b] + 1].record.key = foot.first_keys[b]
                        /\ KeysOf(records) \subseteq foot.filter
                        /\ \A j \in DOMAIN sstable_list :
                              sstable_list[j].file_address = s.file_address => i = j
  BY DEF ListedReadsBack
<1> DEFINE s == sstable_list[i]
           p == s.file_address
           f == disk[p]
           foot == Last(f)
           R == sent[p]
           offs == foot.data_block_offsets
           stop == foot.data_block_metadata_start
<1>1. p \in DOMAIN disk /\ p \in DOMAIN sent /\ Sealed(s, f, R)
  BY DEF ReadInv, ListedRead, EntryReads
<1>2. \A j \in DOMAIN sstable_list : sstable_list[j].file_address = p => i = j
  BY DEF ReadInv, ListedOnce
<1>3. f = File(p)
  BY <1>1 DEF File
<1> HIDE DEF f, R, p, s
<1>4. /\ IsSeq(f) /\ f # <<>> /\ R \in Seq(Record) /\ R # <<>>
      /\ foot.cell = "FOOTER" /\ foot.total_rows = Len(R)
      /\ Laid(f, R, offs, foot.first_keys, stop)
      /\ KeysOf(R) \subseteq foot.filter
      /\ s.num_rows_in_sstable = Len(R) /\ s.first = Head(R).key /\ s.last = Last(R).key
  BY <1>1 DEF Sealed
<1>5. Len(R) # 0
  BY <1>4
<1>6. read_sstable(p) = [ok |-> TRUE, records |-> R]
  BY <1>3, <1>4, <1>5, LaidReads
<1>7. \A b \in DOMAIN offs : f[offs[b] + 1].record.key = foot.first_keys[b]
  <2> HIDE DEF offs, stop, foot
  <2>1. offs \in Seq(Nat) /\ DOMAIN offs = 1 .. Len(offs) /\ Len(offs) \in Nat /\ stop \in Nat
    BY <1>4 DEF Laid
  <2> TAKE b \in DOMAIN offs
  <2>2. offs[b] \in Nat /\ EndOf(offs, stop, b) \in Nat /\ b \in Nat
    BY <2>1 DEF EndOf
  <2>3. /\ offs[b] + 1 < EndOf(offs, stop, b)
        /\ \A k \in offs[b] + 1 .. EndOf(offs, stop, b) - 1 : f[k] = RowCell(R[k - b])
        /\ foot.first_keys[b] = R[offs[b] - b + 1].key
    BY <1>4, <2>1 DEF Laid
  <2>4. PICK k \in offs[b] + 1 .. EndOf(offs, stop, b) - 1 : k = offs[b] + 1
    BY <2>2, <2>3
  <2>5. f[k] = RowCell(R[k - b]) /\ k - b = offs[b] - b + 1
    BY <2>2, <2>3, <2>4
  <2> QED
    BY <2>3, <2>4, <2>5, CellFields
<1> QED
  BY <1>2, <1>4, <1>6, <1>7 DEF s, f, R, p

\* An sstable that append has listed with none of its own writes having failed reads back as the
\* records of the calls that returned true, in their order; its index, its filter and its listed
\* keys are those of the records.  However many files are written and whatever became of the others.
THEOREM ListedFilesRead == Spec => []ListedReadsBack
<1> DEFINE Inv == FilesInv /\ ListedInv
<1>1. EngineInv => Inv
  BY DEF EngineInv
<1>2. Inv /\ Inv' /\ ReadInv /\ [Next]_vars => ReadInv'
  BY ReadStep
<1>3. ReadInv => ListedReadsBack
  BY ReadShows
<1> HIDE DEF Inv
<1> QED
  BY <1>1, <1>2, <1>3, ReadInit, EngineInvariance, PTL DEF Spec

-----------------------------------------------------------------------------
(* What find_overlaps_in_runs makes of a bucket with any number of runs.   *)
(*                                                                         *)
(* The ends of the ranges are met downwards, so a range's last key comes   *)
(* before its first.  The counter is therefore the number of ranges with   *)
(* the last key still to come less those with the first still to come.     *)

\* Ranges and their ends.
FirstEnd(g) == [key |-> g.first, path |-> g.path, last |-> FALSE, at |-> g.at]
LastEnd(g)  == [key |-> g.last, path |-> g.path, last |-> TRUE, at |-> g.at]

\* Ranges as those of a bucket are.
Ranged(R) ==
    /\ IsFiniteSet(R)
    /\ \A g \in R : g.first \in Nat /\ g.last \in Nat /\ g.first <= g.last
    /\ \A g, h \in R : g.at = h.at => g = h

LastsIn(R, s)  == {g \in R : LastEnd(g) \in s.vec}
FirstsIn(R, s) == {g \in R : FirstEnd(g) \in s.vec}

\* No range holds t and a greater key.
Gap(R, t) == \A g \in R : g.last <= t \/ t < g.first
Above(R, t) == {g \in R : t < g.first}
Below(R, t) == {g \in R : g.last <= t}
Paths(G) == {g.path : g \in G}

Overlap(g, h) == g.first < h.last /\ h.first < g.last

-----------------------------------------------------------------------------
(* The invariant, of the locals s while they sweep over R.                 *)

\* What is left to meet is not above what has been met.
Downwards(R, s) ==
    /\ s.vec \subseteq EndsOf(R)
    /\ \A e \in s.vec : \A met \in EndsOf(R) \ s.vec : e.key <= met.key

Counted(R, s) ==
    /\ s.counter = Cardinality(LastsIn(R, s)) - Cardinality(FirstsIn(R, s))
    /\ s.counter = 0 => s.active_set = {}

Covered(R, s) == (UNION s.jobs) \cup s.active_set = Paths(R \ LastsIn(R, s))

\* Jobs lie on one side of a gap; what is being collected lies below it as soon as an end there
\* has been met: just before, every range above had met both its ends, and the counter was 0.
GapsKept(R, s) ==
    \A t \in Keys : Gap(R, t) =>
       /\ \A job \in s.jobs : job \subseteq Paths(Above(R, t)) \/ job \subseteq Paths(Below(R, t))
       /\ s.active_set \subseteq
             IF \A g \in Below(R, t) : FirstEnd(g) \in s.vec /\ LastEnd(g) \in s.vec
             THEN Paths(Above(R, t)) ELSE Paths(Below(R, t))

\* Where no range is a single key, a range that is open is being collected, and two that overlap
\* have been collected together.
OverlapsKept(R, s) ==
    (\A g \in R : g.first < g.last) =>
       /\ \A g \in R \ LastsIn(R, s) : FirstEnd(g) \in s.vec => g.path \in s.active_set
       /\ \A g, h \in R \ LastsIn(R, s) : Overlap(g, h) =>
             \E X \in s.jobs \cup {s.active_set} : {g.path, h.path} \subseteq X

Sweep(R, s) ==
    Downwards(R, s) /\ Counted(R, s) /\ Covered(R, s) /\ GapsKept(R, s) /\ OverlapsKept(R, s)

\* While there is something to group, nothing is appended: the ranges stay the same.
GroupingInv ==
    \/ grouping = NoGrouping
    \/ plan.appends = 0 /\ Sweep(RangesOf(runs_list), grouping)

-----------------------------------------------------------------------------
(* Ends.                                                                   *)

LEMMA EndFields ==
    ASSUME NEW g
    PROVE  /\ FirstEnd(g).key = g.first /\ FirstEnd(g).path = g.path
           /\ FirstEnd(g).last = FALSE /\ FirstEnd(g).at = g.at
           /\ LastEnd(g).key = g.last /\ LastEnd(g).path = g.path
           /\ LastEnd(g).last = TRUE /\ LastEnd(g).at = g.at
  BY DEF FirstEnd, LastEnd

LEMMA EndsAre ==
    ASSUME NEW R
    PROVE  /\ \A g \in R : FirstEnd(g) \in EndsOf(R) /\ LastEnd(g) \in EndsOf(R)
           /\ \A e \in EndsOf(R) : \E g \in R : e = FirstEnd(g) \/ e = LastEnd(g)
<1>1. EndsOf(R) = {FirstEnd(g) : g \in R} \cup {LastEnd(g) : g \in R}
  BY DEF EndsOf, FirstEnd, LastEnd
<1> QED
  BY <1>1

LEMMA EndsDiffer ==
    ASSUME NEW R, Ranged(R), NEW g \in R, NEW h \in R
    PROVE  /\ FirstEnd(g) # LastEnd(h)
           /\ FirstEnd(g) = FirstEnd(h) => g = h
           /\ LastEnd(g) = LastEnd(h) => g = h
<1> DEFINE fg == FirstEnd(g)
           fh == FirstEnd(h)
           lg == LastEnd(g)
           lh == LastEnd(h)
<1>0. fg.at = g.at /\ fh.at = h.at /\ lg.at = g.at /\ lh.at = h.at /\ fg.last = FALSE /\ lh.last = TRUE
  BY EndFields
<1> HIDE DEF fg, fh, lg, lh
<1>1. fg # lh
  BY <1>0
<1>2. fg = fh => g.at = h.at
  BY <1>0
<1>3. lg = lh => g.at = h.at
  BY <1>0
<1> QED
  BY <1>1, <1>2, <1>3 DEF Ranged, fg, fh, lg, lh

\* What meeting one end changes.
LEMMA GroupedIs ==
    ASSUME NEW e, NEW s, s = Grouped(e)
    PROVE  /\ s.vec = grouping.vec \ {e}
           /\ s.counter = IF e.last THEN grouping.counter - 1 ELSE grouping.counter + 1
           /\ LET A == IF e.last THEN grouping.active_set \cup {e.path} ELSE grouping.active_set
              IN  IF s.counter = 0 THEN s.active_set = {} /\ s.jobs = grouping.jobs \cup {A}
                  ELSE s.active_set = A /\ s.jobs = grouping.jobs
<1> DEFINE counter == IF e.last THEN grouping.counter - 1 ELSE grouping.counter + 1
           A == IF e.last THEN grouping.active_set \cup {e.path} ELSE grouping.active_set
<1>1. s = [vec |-> grouping.vec \ {e}, counter |-> counter,
           active_set |-> IF counter = 0 THEN {} ELSE A,
           jobs |-> IF counter = 0 THEN grouping.jobs \cup {A} ELSE grouping.jobs]
  BY DEF Grouped
<1> HIDE DEF counter, A
<1>2. /\ s.vec = grouping.vec \ {e} /\ s.counter = counter
      /\ s.active_set = IF counter = 0 THEN {} ELSE A
      /\ s.jobs = IF counter = 0 THEN grouping.jobs \cup {A} ELSE grouping.jobs
  BY <1>1
<1> QED
  BY <1>2 DEF counter, A

\* One end of one range is met: a last or a first.
LEMMA OneMet ==
    ASSUME NEW R, Ranged(R), Downwards(R, grouping), NEW e \in grouping.vec, NEW s, s = Grouped(e)
    PROVE  \E g \in R :
              \/ e = LastEnd(g) /\ g \in LastsIn(R, grouping)
                 /\ LastsIn(R, s) = LastsIn(R, grouping) \ {g} /\ FirstsIn(R, s) = FirstsIn(R, grouping)
              \/ e = FirstEnd(g) /\ g \in FirstsIn(R, grouping)
                 /\ FirstsIn(R, s) = FirstsIn(R, grouping) \ {g} /\ LastsIn(R, s) = LastsIn(R, grouping)
<1>1. s.vec = grouping.vec \ {e}
  BY GroupedIs
<1>2. PICK g \in R : e = FirstEnd(g) \/ e = LastEnd(g)
  BY EndsAre DEF Downwards
<1>3. CASE e = LastEnd(g)
  <2>1. \A h \in R : LastEnd(h) = e <=> h = g
    BY <1>3, EndsDiffer
  <2>2. \A h \in R : FirstEnd(h) # e
    BY <1>3, EndsDiffer
  <2> QED
    BY <1>1, <1>2, <1>3, <2>1, <2>2 DEF LastsIn, FirstsIn
<1>4. CASE e = FirstEnd(g)
  <2>1. \A h \in R : FirstEnd(h) = e <=> h = g
    BY <1>4, EndsDiffer
  <2>2. \A h \in R : LastEnd(h) # e
    BY <1>4, EndsDiffer
  <2> QED
    BY <1>1, <1>2, <1>4, <2>1, <2>2 DEF LastsIn, FirstsIn
<1> QED
  BY <1>2, <1>3, <1>4

LEMMA PartsFinite ==
    ASSUME NEW R, Ranged(R), NEW s
    PROVE  /\ IsFiniteSet(LastsIn(R, s)) /\ IsFiniteSet(FirstsIn(R, s))
           /\ Cardinality(LastsIn(R, s)) \in Nat /\ Cardinality(FirstsIn(R, s)) \in Nat
<1>1. LastsIn(R, s) \in SUBSET R /\ FirstsIn(R, s) \in SUBSET R
  BY DEF LastsIn, FirstsIn
<1>2. IsFiniteSet(LastsIn(R, s)) /\ IsFiniteSet(FirstsIn(R, s))
  BY <1>1, FS_Subset DEF Ranged
<1> QED
  BY <1>2, FS_CardinalityType

-----------------------------------------------------------------------------
(* One step keeps each part of the invariant.                              *)

LEMMA DownwardsKept ==
    ASSUME NEW R, Downwards(R, grouping), NEW e \in grouping.vec, NEW s, s = Grouped(e),
           \A other \in grouping.vec : other.key <= e.key
    PROVE  Downwards(R, s)
<1>1. s.vec = grouping.vec \ {e}
  BY GroupedIs
<1> QED
  BY <1>1 DEF Downwards

LEMMA CountedKept ==
    ASSUME NEW R, Ranged(R), Downwards(R, grouping), Counted(R, grouping),
           NEW e \in grouping.vec, NEW s, s = Grouped(e)
    PROVE  Counted(R, s)
<1>1. s.counter = (IF e.last THEN grouping.counter - 1 ELSE grouping.counter + 1)
      /\ (s.counter = 0 => s.active_set = {})
  BY GroupedIs
<1> DEFINE L == LastsIn(R, grouping)
           F == FirstsIn(R, grouping)
<1>2. IsFiniteSet(L) /\ IsFiniteSet(F) /\ Cardinality(L) \in Nat /\ Cardinality(F) \in Nat
  BY PartsFinite
<1>3. grouping.counter = Cardinality(L) - Cardinality(F)
  BY DEF Counted
<1>4. PICK g \in R :
         \/ e = LastEnd(g) /\ g \in L /\ LastsIn(R, s) = L \ {g} /\ FirstsIn(R, s) = F
         \/ e = FirstEnd(g) /\ g \in F /\ FirstsIn(R, s) = F \ {g} /\ LastsIn(R, s) = L
  BY OneMet
<1> HIDE DEF L, F
<1>5. CASE e = LastEnd(g) /\ g \in L /\ LastsIn(R, s) = L \ {g} /\ FirstsIn(R, s) = F
  <2>1. Cardinality(LastsIn(R, s)) = Cardinality(L) - 1
    BY <1>2, <1>5, FS_RemoveElement
  <2>2. e.last = TRUE
    BY <1>5, EndFields
  <2> QED
    BY <1>1, <1>2, <1>3, <1>5, <2>1, <2>2 DEF Counted
<1>6. CASE e = FirstEnd(g) /\ g \in F /\ FirstsIn(R, s) = F \ {g} /\ LastsIn(R, s) = L
  <2>1. Cardinality(FirstsIn(R, s)) = Cardinality(F) - 1
    BY <1>2, <1>6, FS_RemoveElement
  <2>2. e.last = FALSE
    BY <1>6, EndFields
  <2> QED
    BY <1>1, <1>2, <1>3, <1>6, <2>1, <2>2 DEF Counted
<1> QED
  BY <1>4, <1>5, <1>6

LEMMA CoveredKept ==
    ASSUME NEW R, Ranged(R), Downwards(R, grouping), Covered(R, grouping),
           NEW e \in grouping.vec, NEW s, s = Grouped(e)
    PROVE  Covered(R, s)
<1> DEFINE A == IF e.last THEN grouping.active_set \cup {e.path} ELSE grouping.active_set
           L == LastsIn(R, grouping)
<1>1. (UNION s.jobs) \cup s.active_set = (UNION grouping.jobs) \cup A
  <2>1. IF s.counter = 0 THEN s.active_set = {} /\ s.jobs = grouping.jobs \cup {A}
        ELSE s.active_set = A /\ s.jobs = grouping.jobs
    BY GroupedIs
  <2> HIDE DEF A
  <2> QED
    BY <2>1
<1>2. PICK g \in R :
         \/ e = LastEnd(g) /\ g \in L /\ LastsIn(R, s) = L \ {g}
         \/ e = FirstEnd(g) /\ LastsIn(R, s) = L
  BY OneMet
<1>3. CASE e = LastEnd(g) /\ g \in L /\ LastsIn(R, s) = L \ {g}
  <2>1. A = grouping.active_set \cup {g.path}
    BY <1>3, EndFields
  <2>2. Paths(R \ LastsIn(R, s)) = Paths(R \ L) \cup {g.path}
    BY <1>2, <1>3 DEF Paths
  <2> QED
    BY <1>1, <2>1, <2>2 DEF Covered
<1>4. CASE e = FirstEnd(g) /\ LastsIn(R, s) = L
  <2>1. A = grouping.active_set
    BY <1>4, EndFields
  <2> QED
    BY <1>1, <1>4, <2>1 DEF Covered
<1> QED
  BY <1>2, <1>3, <1>4

\* Whether no end below t has been met.
Untouched(R, t, s) == \A g \in Below(R, t) : FirstEnd(g) \in s.vec /\ LastEnd(g) \in s.vec

LEMMA GapsStay ==
    ASSUME NEW R, Ranged(R), Downwards(R, grouping), Counted(R, grouping), GapsKept(R, grouping),
           NEW e \in grouping.vec, NEW s, s = Grouped(e),
           \A other \in grouping.vec : other.key <= e.key
    PROVE  GapsKept(R, s)
<1> SUFFICES ASSUME NEW t \in Keys, Gap(R, t)
             PROVE  /\ \A job \in s.jobs : job \subseteq Paths(Above(R, t)) \/ job \subseteq Paths(Below(R, t))
                    /\ s.active_set \subseteq
                          IF Untouched(R, t, s) THEN Paths(Above(R, t)) ELSE Paths(Below(R, t))
  BY DEF GapsKept, Untouched
<1> DEFINE A   == IF e.last THEN grouping.active_set \cup {e.path} ELSE grouping.active_set
           abv == Paths(Above(R, t))
           blw == Paths(Below(R, t))
<1>1. s.vec = grouping.vec \ {e}
      /\ IF s.counter = 0 THEN s.active_set = {} /\ s.jobs = grouping.jobs \cup {A}
         ELSE s.active_set = A /\ s.jobs = grouping.jobs
  BY GroupedIs
<1>2. /\ \A job \in grouping.jobs : job \subseteq abv \/ job \subseteq blw
      /\ grouping.active_set \subseteq IF Untouched(R, t, grouping) THEN abv ELSE blw
  BY DEF GapsKept, Untouched
<1>3. t \in Nat /\ \A g \in R : g.first \in Nat /\ g.last \in Nat /\ g.first <= g.last
  BY LsmAssumption DEF LsmAssumption, Ranged
<1>4. PICK g \in R : e = FirstEnd(g) \/ e = LastEnd(g)
  BY EndsAre DEF Downwards
<1>5. e.path = g.path /\ (e.key = g.first \/ e.key = g.last)
  BY <1>4, EndFields
<1>6. e \notin s.vec
  BY <1>1
<1>7. A \subseteq grouping.active_set \cup {g.path}
  BY <1>5
<1> HIDE DEF A, abv, blw
<1>8. CASE g \in Below(R, t)
  <2>1. e.key \in Nat /\ e.key <= t
    BY <1>3, <1>4, <1>5, <1>8 DEF Below
  <2>2. ASSUME Untouched(R, t, grouping)
        PROVE  grouping.active_set = {}
    <3>1. \A h \in R : h \in Below(R, t) => FirstEnd(h) \in grouping.vec /\ LastEnd(h) \in grouping.vec
      BY <2>2 DEF Untouched
    <3>2. ASSUME NEW h \in R, h \notin Below(R, t)
          PROVE  FirstEnd(h) \notin grouping.vec /\ LastEnd(h) \notin grouping.vec
      <4>1. t < h.first /\ t < h.last
        BY <1>3, <3>2 DEF Gap, Below
      <4>2. FirstEnd(h).key = h.first /\ LastEnd(h).key = h.last
        BY EndFields
      <4>3. ~(h.first <= e.key) /\ ~(h.last <= e.key)
        BY <1>3, <2>1, <4>1
      <4> QED
        BY <4>2, <4>3
    <3>3. LastsIn(R, grouping) = FirstsIn(R, grouping)
      BY <3>1, <3>2 DEF LastsIn, FirstsIn
    <3>4. Cardinality(LastsIn(R, grouping)) \in Nat
      BY PartsFinite
    <3>5. grouping.counter = 0
      BY <3>3, <3>4 DEF Counted
    <3> QED
      BY <3>5 DEF Counted
  <2>3. g.path \in blw
    BY <1>8 DEF blw, Paths
  <2>4. A \subseteq blw
    BY <1>2, <1>7, <2>2, <2>3
  <2>5. ~Untouched(R, t, s)
    BY <1>4, <1>6, <1>8 DEF Untouched
  <2> QED
    BY <1>1, <1>2, <2>4, <2>5 DEF abv, blw
<1>9. CASE g \notin Below(R, t)
  <2>1. t < g.first /\ t < g.last /\ g \in Above(R, t)
    BY <1>3, <1>4, <1>9 DEF Gap, Below, Above
  <2>2. e.key \in Nat /\ t < e.key
    BY <1>3, <1>4, <1>5, <2>1
  <2>3. ASSUME NEW h \in Below(R, t)
        PROVE  FirstEnd(h) \in grouping.vec /\ LastEnd(h) \in grouping.vec
    <3>1. h \in R /\ h.first <= t /\ h.last <= t /\ h.first \in Nat /\ h.last \in Nat
      BY <1>3, <2>3 DEF Below
    <3>2. FirstEnd(h).key = h.first /\ LastEnd(h).key = h.last
      BY EndFields
    <3>3. ~(e.key <= h.first) /\ ~(e.key <= h.last)
      BY <1>3, <2>2, <3>1
    <3>4. FirstEnd(h) \in EndsOf(R) /\ LastEnd(h) \in EndsOf(R)
      BY <3>1, EndsAre
    <3> QED
      BY <3>2, <3>3, <3>4 DEF Downwards
  <2>4. Untouched(R, t, grouping)
    BY <2>3 DEF Untouched
  <2>5. Untouched(R, t, s)
    <3>1. \A h \in Below(R, t) : h \in R /\ h # g
      BY <1>9 DEF Below
    <3>2. \A h \in Below(R, t) : FirstEnd(h) # e /\ LastEnd(h) # e
      BY <1>4, <3>1, EndsDiffer
    <3> QED
      BY <1>1, <2>3, <3>2 DEF Untouched
  <2>6. g.path \in abv
    BY <2>1 DEF abv, Paths
  <2>7. A \subseteq abv
    BY <1>2, <1>7, <2>4, <2>6
  <2> QED
    BY <1>1, <1>2, <2>5, <2>7 DEF abv, blw
<1> QED
  BY <1>8, <1>9

\* With no single key among the ranges, a range whose last is to come has its first to come.
LEMMA LastsBeforeFirsts ==
    ASSUME NEW R, Ranged(R), NEW s, Downwards(R, s), \A g \in R : g.first < g.last
    PROVE  LastsIn(R, s) \subseteq FirstsIn(R, s)
<1> SUFFICES ASSUME NEW g \in R, LastEnd(g) \in s.vec, FirstEnd(g) \notin s.vec PROVE FALSE
  BY DEF LastsIn, FirstsIn
<1>1. LastEnd(g).key <= FirstEnd(g).key
  BY EndsAre DEF Downwards
<1>2. g.last <= g.first
  BY <1>1, EndFields
<1>3. g.first < g.last /\ g.first \in Nat /\ g.last \in Nat
  BY DEF Ranged
<1> QED
  BY <1>2, <1>3

LEMMA OverlapsStay ==
    ASSUME NEW R, Ranged(R), Downwards(R, grouping), OverlapsKept(R, grouping),
           NEW e \in grouping.vec, NEW s, s = Grouped(e), Downwards(R, s), Counted(R, s)
    PROVE  OverlapsKept(R, s)
<1> SUFFICES ASSUME \A g \in R : g.first < g.last
             PROVE  /\ \A g \in R \ LastsIn(R, s) : FirstEnd(g) \in s.vec => g.path \in s.active_set
                    /\ \A g, h \in R \ LastsIn(R, s) : Overlap(g, h) =>
                          \E X \in s.jobs \cup {s.active_set} : {g.path, h.path} \subseteq X
  BY DEF OverlapsKept
<1> DEFINE A == IF e.last THEN grouping.active_set \cup {e.path} ELSE grouping.active_set
           met == R \ LastsIn(R, grouping)
<1>1. s.vec = grouping.vec \ {e}
      /\ IF s.counter = 0 THEN s.active_set = {} /\ s.jobs = grouping.jobs \cup {A}
         ELSE s.active_set = A /\ s.jobs = grouping.jobs
  BY GroupedIs
<1>2. /\ \A g \in met : FirstEnd(g) \in grouping.vec => g.path \in grouping.active_set
      /\ \A g, h \in met : Overlap(g, h) =>
            \E X \in grouping.jobs \cup {grouping.active_set} : {g.path, h.path} \subseteq X
  BY DEF OverlapsKept
<1>3. grouping.active_set \subseteq A
  OBVIOUS
<1>4. \A g \in R \ LastsIn(R, s) : g \in met \/ e = LastEnd(g)
  BY <1>1 DEF LastsIn
<1>5. ASSUME NEW g \in R, e = LastEnd(g) PROVE g.path \in A
  <2>1. e.last = TRUE /\ e.path = g.path
    BY <1>5, EndFields
  <2>2. A = grouping.active_set \cup {e.path}
    BY <2>1
  <2> QED
    BY <2>1, <2>2
<1>6. A \in s.jobs \cup {s.active_set} /\ grouping.jobs \subseteq s.jobs
  <2> HIDE DEF A
  <2> QED
    BY <1>1
<1>7. \A g \in R \ LastsIn(R, s) : FirstEnd(g) \in grouping.vec => g.path \in A
  BY <1>2, <1>3, <1>4, <1>5
<1> HIDE DEF A, met
<1>8. ASSUME NEW g \in R \ LastsIn(R, s), FirstEnd(g) \in s.vec
      PROVE  g.path \in s.active_set
  <2>1. CASE s.counter = 0
    <3>1. LastsIn(R, s) \subseteq FirstsIn(R, s)
      BY LastsBeforeFirsts
    <3>2. Cardinality(LastsIn(R, s)) = Cardinality(FirstsIn(R, s))
      BY <2>1, PartsFinite DEF Counted
    <3>3. LastsIn(R, s) = FirstsIn(R, s)
      BY <3>1, <3>2, PartsFinite, FS_Subset
    <3> QED
      BY <1>8, <3>3 DEF FirstsIn
  <2>2. CASE s.counter # 0
    BY <1>1, <1>7, <1>8, <2>2
  <2> QED
    BY <2>1, <2>2
<1>9. ASSUME NEW g \in R \ LastsIn(R, s), NEW h \in R \ LastsIn(R, s), Overlap(g, h), e = LastEnd(g)
      PROVE  h.path \in A
  <2>1. CASE e = LastEnd(h)
    BY <1>5, <1>9, <2>1
  <2>2. CASE h \in met
    <3>1. h.first < g.last /\ h.first \in Nat /\ g.last \in Nat /\ h \in R
      BY <1>9 DEF Overlap, Ranged
    <3>2. FirstEnd(h).key = h.first /\ e.key = g.last
      BY <1>9, EndFields
    <3>3. ~(e.key <= FirstEnd(h).key)
      BY <3>1, <3>2
    <3>4. FirstEnd(h) \in grouping.vec
      BY <3>1, <3>3, EndsAre DEF Downwards
    <3> QED
      BY <1>7, <1>9, <3>4
  <2> QED
    BY <1>4, <2>1, <2>2
<1>10. ASSUME NEW g \in R \ LastsIn(R, s), NEW h \in R \ LastsIn(R, s), Overlap(g, h)
       PROVE  \E X \in s.jobs \cup {s.active_set} : {g.path, h.path} \subseteq X
  <2>1. CASE e = LastEnd(g)
    BY <1>5, <1>6, <1>9, <1>10, <2>1
  <2>2. CASE e = LastEnd(h)
    <3>1. Overlap(h, g)
      BY <1>10 DEF Overlap
    <3> QED
      BY <1>5, <1>6, <1>9, <2>2, <3>1
  <2>3. CASE g \in met /\ h \in met
    <3>1. PICK X \in grouping.jobs \cup {grouping.active_set} : {g.path, h.path} \subseteq X
      BY <1>2, <1>10, <2>3
    <3>2. CASE X \in grouping.jobs
      BY <1>6, <3>1, <3>2
    <3>3. CASE X = grouping.active_set
      BY <1>3, <1>6, <3>1, <3>3
    <3> QED
      BY <3>1, <3>2, <3>3
  <2> QED
    BY <1>4, <2>1, <2>2, <2>3
<1> QED
  BY <1>8, <1>10

LEMMA SweepStep ==
    ASSUME NEW R, Ranged(R), Sweep(R, grouping), NEW e \in grouping.vec,
           \A other \in grouping.vec : other.key <= e.key
    PROVE  Sweep(R, Grouped(e))
<1>1. PICK s : s = Grouped(e)
  OBVIOUS
<1>2. Downwards(R, grouping) /\ Counted(R, grouping) /\ Covered(R, grouping)
      /\ GapsKept(R, grouping) /\ OverlapsKept(R, grouping)
  BY DEF Sweep
<1>3. Downwards(R, s) /\ Counted(R, s)
  BY <1>1, <1>2, DownwardsKept, CountedKept
<1>4. Covered(R, s) /\ GapsKept(R, s)
  BY <1>1, <1>2, CoveredKept, GapsStay
<1>5. OverlapsKept(R, s)
  BY <1>1, <1>2, <1>3, OverlapsStay
<1> QED
  BY <1>1, <1>3, <1>4, <1>5 DEF Sweep

-----------------------------------------------------------------------------
(* The sweep begins, and ends.                                             *)

LEMMA SweepBegins ==
    ASSUME NEW R, Ranged(R), NEW s, s = [NoGrouping EXCEPT !.vec = EndsOf(R)]
    PROVE  Sweep(R, s)
<1>1. s.vec = EndsOf(R) /\ s.counter = 0 /\ s.active_set = {} /\ s.jobs = {}
  BY DEF NoGrouping
<1>2. LastsIn(R, s) = R /\ FirstsIn(R, s) = R
  BY <1>1, EndsAre DEF LastsIn, FirstsIn
<1>3. Downwards(R, s)
  BY <1>1 DEF Downwards
<1>4. Counted(R, s)
  <2>1. Cardinality(R) \in Nat
    BY FS_CardinalityType DEF Ranged
  <2> QED
    BY <1>1, <1>2, <2>1 DEF Counted
<1>5. Covered(R, s)
  BY <1>1, <1>2 DEF Covered, Paths
<1>6. GapsKept(R, s)
  BY <1>1 DEF GapsKept
<1>7. OverlapsKept(R, s)
  BY <1>2 DEF OverlapsKept
<1> QED
  BY <1>3, <1>4, <1>5, <1>6, <1>7 DEF Sweep

LEMMA SweepEnds ==
    ASSUME NEW R, R = RangesOf(runs_list), Ranged(R), Sweep(R, grouping), grouping.vec = {}
    PROVE  JobsGroupOverlaps
<1>1. LastsIn(R, grouping) = {} /\ FirstsIn(R, grouping) = {}
  BY DEF LastsIn, FirstsIn
<1>2. grouping.counter = 0 /\ grouping.active_set = {}
  <2>1. Cardinality({}) = 0
    BY FS_EmptySet
  <2> QED
    BY <1>1, <2>1 DEF Sweep, Counted
<1>3. UNION grouping.jobs = {g.path : g \in R}
  BY <1>1, <1>2 DEF Sweep, Covered, Paths
<1>4. ASSUME \A g, h \in R : g.path = h.path => g = h, NEW t \in Keys, Gap(R, t),
             NEW g \in R, NEW h \in R, g.last <= t, t < h.first,
             NEW job \in grouping.jobs, {g.path, h.path} \subseteq job
      PROVE  FALSE
  <2>1. t \in Nat /\ \A r \in R : r.first \in Nat /\ r.last \in Nat /\ r.first <= r.last
    BY LsmAssumption DEF LsmAssumption, Ranged
  <2>2. job \subseteq Paths(Above(R, t)) \/ job \subseteq Paths(Below(R, t))
    BY <1>4 DEF Sweep, GapsKept
  <2>3. g \notin Above(R, t) /\ h \notin Below(R, t)
    BY <1>4, <2>1 DEF Above, Below
  <2>4. g.path \notin Paths(Above(R, t)) /\ h.path \notin Paths(Below(R, t))
    BY <1>4, <2>3 DEF Paths, Above, Below
  <2> QED
    BY <1>4, <2>2, <2>4
<1>5. ASSUME \A g \in R : g.first < g.last, NEW g \in R, NEW h \in R, g.first < h.last, h.first < g.last
      PROVE  \E job \in grouping.jobs : {g.path, h.path} \subseteq job
  <2>1. PICK X \in grouping.jobs \cup {grouping.active_set} : {g.path, h.path} \subseteq X
    BY <1>1, <1>5 DEF Sweep, OverlapsKept, Overlap
  <2> QED
    BY <1>2, <2>1
<1> QED
  BY <1>2, <1>3, <1>4, <1>5 DEF JobsGroupOverlaps, Gap

\* A bucket's ranges.
LEMMA BucketRanged ==
    ASSUME RunsInv
    PROVE  Ranged(RangesOf(runs_list))
<1> DEFINE R == RangesOf(runs_list)
           n == Len(runs_list)
           f == [g \in R |-> g.at]
<1>1. n \in Nat /\ DOMAIN runs_list = 1 .. n
  BY DEF RunsInv
<1>2. ASSUME NEW g \in R
      PROVE  \E r \in 1 .. n : \E y \in 1 .. 4 :
                /\ g = [path |-> runs_list[r].paths_to_files[y], first |-> runs_list[r].first_key_run[y],
                        last |-> runs_list[r].last_key_run[y], at |-> <<r, y>>]
                /\ g.first \in Nat /\ g.last \in Nat /\ g.first <= g.last
  <2>1. PICK r \in DOMAIN runs_list : \E y \in DOMAIN runs_list[r].paths_to_files :
           g = [path |-> runs_list[r].paths_to_files[y], first |-> runs_list[r].first_key_run[y],
                last |-> runs_list[r].last_key_run[y], at |-> <<r, y>>]
    BY DEF RangesOf
  <2>2. PICK y \in DOMAIN runs_list[r].paths_to_files :
           g = [path |-> runs_list[r].paths_to_files[y], first |-> runs_list[r].first_key_run[y],
                last |-> runs_list[r].last_key_run[y], at |-> <<r, y>>]
    BY <2>1
  <2>3. r \in DOMAIN AllRuns /\ AllRuns[r] = runs_list[r]
    BY <1>1 DEF RunsInv, AllRuns
  <2>4. y \in 1 .. 4 /\ \E k \in DOMAIN opened :
           opened[k] = [path |-> runs_list[r].paths_to_files[y],
              first |-> runs_list[r].first_key_run[y], last |-> runs_list[r].last_key_run[y]]
    BY <2>2, <2>3, FileOpened
  <2>5. PICK k \in DOMAIN opened :
           opened[k] = [path |-> runs_list[r].paths_to_files[y],
              first |-> runs_list[r].first_key_run[y], last |-> runs_list[r].last_key_run[y]]
    BY <2>4
  <2>6. opened[k].first = g.first /\ opened[k].last = g.last
    BY <2>2, <2>5
  <2>7. g.first \in Keys /\ g.last \in Keys /\ g.first <= g.last
    <3>1. opened \in Seq(OpeningRecord) /\ k \in DOMAIN opened
      BY <2>5 DEF RunsInv
    <3>2. opened[k] \in OpeningRecord
      BY <3>1
    <3> QED
      BY <2>6, <3>2 DEF OpeningRecord
  <2> QED
    BY <1>1, <2>2, <2>4, <2>7, LsmAssumption DEF LsmAssumption
<1>3. \A g, h \in R : g.at = h.at => g = h
  <2> SUFFICES ASSUME NEW g \in R, NEW h \in R, g.at = h.at PROVE g = h
    OBVIOUS
  <2>1. PICK r \in 1 .. n : \E y \in 1 .. 4 :
           g = [path |-> runs_list[r].paths_to_files[y], first |-> runs_list[r].first_key_run[y],
                last |-> runs_list[r].last_key_run[y], at |-> <<r, y>>]
    BY <1>2
  <2>2. PICK y \in 1 .. 4 :
           g = [path |-> runs_list[r].paths_to_files[y], first |-> runs_list[r].first_key_run[y],
                last |-> runs_list[r].last_key_run[y], at |-> <<r, y>>]
    BY <2>1
  <2>3. PICK q \in 1 .. n : \E z \in 1 .. 4 :
           h = [path |-> runs_list[q].paths_to_files[z], first |-> runs_list[q].first_key_run[z],
                last |-> runs_list[q].last_key_run[z], at |-> <<q, z>>]
    BY <1>2
  <2>4. PICK z \in 1 .. 4 :
           h = [path |-> runs_list[q].paths_to_files[z], first |-> runs_list[q].first_key_run[z],
                last |-> runs_list[q].last_key_run[z], at |-> <<q, z>>]
    BY <2>3
  <2>5. g.at = <<r, y>> /\ h.at = <<q, z>>
    BY <2>2, <2>4
  <2>6. r = q /\ y = z
    <3>1. <<r, y>> = <<q, z>>
      BY <2>5
    <3> QED
      BY <3>1
  <2> QED
    BY <2>2, <2>4, <2>6
<1>4. IsFiniteSet(R)
  <2>1. IsFiniteSet((1 .. n) \X (1 .. 4))
    <3>1. IsFiniteSet(1 .. n)
      BY <1>1, FS_Interval
    <3>2. IsFiniteSet(1 .. 4)
      <4>1. 1 \in Int /\ 4 \in Int
        OBVIOUS
      <4> QED
        BY <4>1, FS_Interval, Zenon
    <3> QED
      BY <3>1, <3>2, FS_Product
  <2>2. ASSUME NEW g \in R PROVE g.at \in (1 .. n) \X (1 .. 4)
    <3>1. \E r \in 1 .. n : \E y \in 1 .. 4 : g.at = <<r, y>>
      BY <1>2
    <3> QED
      BY <3>1
  <2> HIDE DEF R
  <2>3. f \in Injection(R, (1 .. n) \X (1 .. 4))
    BY <1>3, <2>2 DEF Injection, IsInjective
  <2> QED
    BY <2>1, <2>3, FS_Injection
<1> QED
  BY <1>2, <1>3, <1>4 DEF Ranged

-----------------------------------------------------------------------------

LEMMA GroupingStep ==
    ASSUME GroupingInv, RunsInv, [Next]_vars
    PROVE  GroupingInv'
<1>1. Ranged(RangesOf(runs_list))
  BY BucketRanged
<1>2. NoGrouping' = NoGrouping
  BY DEF NoGrouping
<1>3. ASSUME UNCHANGED <<grouping, runs_list>>, plan.appends = 0 => plan'.appends = 0
      PROVE  GroupingInv'
  BY <1>2, <1>3 DEF GroupingInv
<1>4. CASE FindOverlaps
  <2>1. plan'.appends = 0 /\ runs_list' = runs_list
        /\ grouping' = [NoGrouping EXCEPT !.vec = EndsOf(RangesOf(runs_list))]
    BY <1>4 DEF FindOverlaps, runs
  <2>2. Sweep(RangesOf(runs_list), grouping')
    BY <1>1, <2>1, SweepBegins
  <2> QED
    BY <2>1, <2>2 DEF GroupingInv
<1>5. CASE GroupNext
  <2>1. PICK e \in grouping.vec :
          (\A other \in grouping.vec : other.key <= e.key) /\ grouping' = Grouped(e)
    BY <1>5 DEF GroupNext
  <2>2. plan' = plan /\ runs_list' = runs_list
    BY <1>5 DEF GroupNext, runs
  <2>3. grouping # NoGrouping
    <3>1. NoGrouping.vec = {}
      BY DEF NoGrouping
    <3> QED
      BY <2>1, <3>1
  <2>4. plan.appends = 0 /\ Sweep(RangesOf(runs_list), grouping)
    BY <2>3 DEF GroupingInv
  <2>5. Sweep(RangesOf(runs_list), grouping')
    BY <1>1, <2>1, <2>4, SweepStep
  <2> QED
    BY <2>2, <2>4, <2>5 DEF GroupingInv
<1>6. CASE \E batch \in plan.batches : append(Records(batch))
  <2>1. PICK records : append(records)
    BY <1>6
  <2>2. UNCHANGED its /\ plan.appends > 0
    BY <2>1 DEF append, AppendCannotOpen, AppendOpens, AppendOpensInPart, AppendAdds, AppendAddsInPart,
      AppendCloses, AppendClosesInPart, OpenedWith, Opening, Closes, AddsBlock, Calls, CallsAndFails
  <2>3. grouping' = NoGrouping
    BY <2>2 DEF GroupingInv, its
  <2> QED
    BY <1>2, <2>3 DEF GroupingInv
<1>7. CASE (\E path : Open(path)) \/ (\E id : get_iterator(id))
  <2>1. UNCHANGED <<grouping, runs_list>> /\ plan' = [plan EXCEPT !.opens = @ - 1]
    BY <1>7 DEF Open, get_iterator, Takes, runs
  <2>2. plan.appends = 0 => plan'.appends = 0
    BY <2>1
  <2> QED
    BY <1>3, <2>1, <2>2
<1>8. CASE \E id : NextDies(id) \/ Destroy(id)
  BY <1>3, <1>8 DEF NextDies, Destroy, runs
<1>9. CASE UNCHANGED vars
  BY <1>3, <1>9 DEF vars, its, runs
<1> QED
  BY <1>4, <1>5, <1>6, <1>7, <1>8, <1>9 DEF Next

\* However many runs a bucket has and whatever their ranges, the jobs made of it cover its files,
\* none spans a gap of the ranges, and where no range is a single key, files that overlap are in
\* one job, in whatever order std::sort leaves the ends that share a key.
THEOREM OverlapsGrouped == Spec => []JobsGroupOverlaps
<1>1. Init => GroupingInv
  BY DEF Init, GroupingInv
<1>2. EngineInv /\ GroupingInv /\ [Next]_vars => GroupingInv'
  BY GroupingStep DEF EngineInv
<1>3. EngineInv /\ GroupingInv => JobsGroupOverlaps
  <2> SUFFICES ASSUME EngineInv, GroupingInv PROVE JobsGroupOverlaps
    OBVIOUS
  <2>1. CASE grouping.vec = {} /\ grouping.jobs # {}
    <3>1. grouping # NoGrouping
      <4>1. NoGrouping.jobs = {}
        BY DEF NoGrouping
      <4> QED
        BY <2>1, <4>1
    <3>2. Sweep(RangesOf(runs_list), grouping)
      BY <3>1 DEF GroupingInv
    <3>3. Ranged(RangesOf(runs_list))
      BY BucketRanged DEF EngineInv
    <3> QED
      BY <2>1, <3>2, <3>3, SweepEnds
  <2>2. CASE ~(grouping.vec = {} /\ grouping.jobs # {})
    BY <2>2 DEF JobsGroupOverlaps
  <2> QED
    BY <2>1, <2>2
<1> QED
  BY <1>1, <1>2, <1>3, EngineInvariance, PTL DEF Spec
=============================================================================
