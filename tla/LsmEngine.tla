----------------------------- MODULE LsmEngine -----------------------------
(***************************************************************************)
(* class LSMEngine and class LSM_Iterator of src/v1/LSM_Engine.hpp, and    *)
(* how src/v1/LSM_Compactor_coordinator.hpp groups the files of a bucket.  *)
(*                                                                         *)
(* An sstable is a sequence of cells, each the bytes of one thing: the     *)
(* header, a row, the end of a data block (its rows' offsets, id and       *)
(* number of rows) and all that follows the last block.  Offsets count     *)
(* cells as the code counts bytes, so all rows have one length.            *)
(***************************************************************************)
EXTENDS Integers, Sequences, FiniteSets, SequencesExt

CONSTANTS
    Keys,
    SIZE_OF_SSTABLE,    \* rows before an sstable is closed
    Plans               \* [appends, batches, faults, opens]: how often append is called, the ascending
                        \* sequences of keys it is given, the writes that may fail, the iterators
                        \* constructed and copied

\* What append is given: at least one row, keys upwards.
Batches ==
    {batch \in Seq(Keys) \ {<<>>} : \A i, j \in DOMAIN batch : i < j => batch[i] <= batch[j]}

ASSUME LsmAssumption ==
    /\ Keys \subseteq Nat
    /\ SIZE_OF_SSTABLE \in Nat \ {0}
    /\ Plans \subseteq [appends : Nat, batches : SUBSET Batches, faults : Nat, opens : Nat]

VARIABLES
    disk,                    \* path, the number of the sstable, to its cells
    active_file_descriptor,  \* -1 or the path it was opened with
    current_sstable_id,
    data_block_offsets,
    first_keys_sstable_list,
    sstable_num_rows,        \* of current_sstable
    bloom,                   \* the keys given to current_sstable_bloom_filter
    first_string_entry,      \* of current_sstable_metadata
    sstable_list,
    active_run,
    runs_list,               \* of the only bucket
    readers,                 \* id to path_to_file
    iterators,               \* id to the LSM_Iterator, and how many objects are it or a copy of it
    grouping,                \* the locals of find_overlaps_in_runs
    plan,                    \* what is left of it
    sent,                    \* history: path to the records of the appends that returned true
    hurt,                    \* history: the paths with a write that failed
    opened                   \* history: the openings of append, those that failed included

engine == <<active_file_descriptor, current_sstable_id, data_block_offsets, first_keys_sstable_list,
            sstable_num_rows, bloom, first_string_entry, sstable_list>>
runs   == <<active_run, runs_list, opened>>
its    == <<readers, iterators, grouping>>
vars   == <<disk, engine, runs, its, plan, sent, hurt>>

-----------------------------------------------------------------------------
(* Cells, runs and the bytes append writes.                                *)

None == -1
Header == [cell |-> "HEADER"]
Torn == [cell |-> "TORN"]
RowCell(record) == [cell |-> "ROW", record |-> record]
BlockEnd(n) == [cell |-> "TAIL", rows |-> n]

\* compute_db_bytes.
compute_db_bytes(records) ==
    [i \in DOMAIN records |-> RowCell(records[i])] \o <<BlockEnd(Len(records))>>

\* What stands behind the data blocks: their offsets, the index block, the first and last key,
\* the bloom filter and the pointers to all of these.
Footer(offsets, start, rows, index, first, last, filter) ==
    <<[cell |-> "FOOTER", data_block_offsets |-> offsets, data_block_metadata_start |-> start,
       total_rows |-> rows, first_keys |-> index, first |-> first, last |-> last, filter |-> filter]>>

\* flush_file that returns false: whole cells, perhaps a part of the next one.
PartsOf(bytes) ==
    UNION {{SubSeq(bytes, 1, n), Append(SubSeq(bytes, 1, n), Torn)} : n \in 0 .. Len(bytes) - 1}

File(path) == IF path \in DOMAIN disk THEN disk[path] ELSE <<>>
Stored(path, bytes) ==
    [p \in DOMAIN disk \cup {path} |-> IF p = path THEN File(path) \o bytes ELSE disk[p]]

Run(paths, first, last) == [paths_to_files |-> paths, first_key_run |-> first, last_key_run |-> last]
EmptyRun == Run(<<>>, <<>>, <<>>)
WithKeys(run, records) ==
    Run(run.paths_to_files, Append(run.first_key_run, Head(records).key),
        Append(run.last_key_run, Last(records).key))
WithPath(run, path) ==
    Run(Append(run.paths_to_files, path), run.first_key_run, run.last_key_run)

-----------------------------------------------------------------------------
(* append.                                                                 *)

Records(batch) == [i \in DOMAIN batch |-> [key |-> batch[i], val |-> plan.appends]]
KeysOf(records) == {records[i].key : i \in DOMAIN records}

Calls == plan.appends > 0 /\ plan' = [plan EXCEPT !.appends = @ - 1]
CallsAndFails == plan.appends > 0 /\ plan.faults > 0
                   /\ plan' = [plan EXCEPT !.appends = @ - 1, !.faults = @ - 1]

Acked(path, records) ==
    sent' = [p \in DOMAIN sent \cup {path} |->
               (IF p \in DOMAIN sent THEN sent[p] ELSE <<>>) \o IF p = path THEN records ELSE <<>>]
Hurt(path) == hurt' = hurt \cup {path}

\* The run takes the keys of the new sstable, and its path unless it has four: then it goes to
\* the bucket, and neither run has the path.
\* Mutant: it takes five.
RollOverLate(records) ==
    LET run == WithKeys(active_run, records)
    IN  IF Len(run.paths_to_files) <= 4
        THEN active_run' = WithPath(run, current_sstable_id) /\ UNCHANGED runs_list
        ELSE active_run' = EmptyRun /\ runs_list' = Append(runs_list, run)
RollOver(records) ==
    LET run == WithKeys(active_run, records)
    IN  IF Len(run.paths_to_files) < 4
        THEN active_run' = WithPath(run, current_sstable_id) /\ UNCHANGED runs_list
        ELSE active_run' = EmptyRun /\ runs_list' = Append(runs_list, run)

Opening(records) ==
    /\ active_file_descriptor = None
    /\ RollOver(records)
    /\ opened' = Append(opened, [path |-> current_sstable_id, first |-> Head(records).key,
                                 last |-> Last(records).key])
    /\ UNCHANGED <<its, sstable_list>>

\* The file cannot be opened.
AppendCannotOpen(records) ==
    /\ CallsAndFails
    /\ Opening(records)
    /\ UNCHANGED <<disk, active_file_descriptor, current_sstable_id, data_block_offsets,
                   first_keys_sstable_list, sstable_num_rows, sent, hurt>>
    /\ bloom' = {}
    /\ first_string_entry' = None

\* The first offset is the length of the header: right at the beginning of a file.
OpenedWith(records) ==
    /\ Opening(records)
    /\ active_file_descriptor' = current_sstable_id
    /\ data_block_offsets' = <<1>>
    /\ first_keys_sstable_list' = <<Head(records).key>>
    /\ sstable_num_rows' = Len(records)
    /\ bloom' = KeysOf(records)
    /\ first_string_entry' = Head(records).key

FirstBytes(records) == <<Header>> \o compute_db_bytes(records)

AppendOpens(records) ==
    /\ Calls
    /\ OpenedWith(records)
    /\ disk' = Stored(current_sstable_id, FirstBytes(records))
    /\ current_sstable_id' = current_sstable_id + 1
    /\ Acked(current_sstable_id, records)
    /\ UNCHANGED hurt

\* The id does not advance: the next sstable goes to the same file, behind this one.
AppendOpensInPart(records) ==
    /\ CallsAndFails
    /\ OpenedWith(records)
    /\ \E part \in PartsOf(FirstBytes(records)) : disk' = Stored(current_sstable_id, part)
    /\ Hurt(current_sstable_id)
    /\ UNCHANGED <<current_sstable_id, sent>>

Path == active_file_descriptor

\* A further block: its offset is where the file ends.
\* Mutant: where the header ends, as for the first block.
OffsetsRelative == Append(data_block_offsets, 1)
Offsets == Append(data_block_offsets, Len(File(Path)))
FirstKeys(records) == Append(first_keys_sstable_list, Head(records).key)
Filter(records) == bloom \cup KeysOf(records)
Rows(records) == sstable_num_rows + Len(records)

AddsBlock(records) ==
    /\ Path # None
    /\ UNCHANGED <<current_sstable_id, first_string_entry, runs, its>>

\* The block's offset and first key are kept even if it cannot be written.
KeepsBlock(records) ==
    /\ data_block_offsets' = Offsets
    /\ first_keys_sstable_list' = FirstKeys(records)
    /\ bloom' = Filter(records)

AppendAddsInPart(records) ==
    /\ CallsAndFails
    /\ AddsBlock(records) /\ KeepsBlock(records)
    /\ \E part \in PartsOf(compute_db_bytes(records)) : disk' = Stored(Path, part)
    /\ Hurt(Path)
    /\ UNCHANGED <<active_file_descriptor, sstable_num_rows, sstable_list, sent>>

AppendAdds(records) ==
    /\ Calls
    /\ AddsBlock(records) /\ KeepsBlock(records)
    /\ Rows(records) < SIZE_OF_SSTABLE
    /\ sstable_num_rows' = Rows(records)
    /\ disk' = Stored(Path, compute_db_bytes(records))
    /\ Acked(Path, records)
    /\ UNCHANGED <<active_file_descriptor, sstable_list, hurt>>

\* With enough rows the sstable is listed, and then closed: its blocks' offsets and index follow.
Closes(records) ==
    /\ AddsBlock(records)
    /\ Rows(records) >= SIZE_OF_SSTABLE
    /\ sstable_list' = Append(sstable_list,
          [file_address |-> Path, first |-> first_string_entry, last |-> Last(records).key,
           num_rows_in_sstable |-> Rows(records)])
    /\ Acked(Path, records)

ClosingBytes(records) ==
    Footer(Offsets, Len(File(Path)) + Len(compute_db_bytes(records)), Rows(records),
           FirstKeys(records), first_string_entry, Last(records).key, Filter(records))

AppendCloses(records) ==
    /\ Calls
    /\ Closes(records)
    /\ disk' = Stored(Path, compute_db_bytes(records) \o ClosingBytes(records))
    /\ active_file_descriptor' = None
    /\ data_block_offsets' = <<>> /\ first_keys_sstable_list' = <<>>
    /\ sstable_num_rows' = 0 /\ bloom' = {}
    /\ UNCHANGED hurt

\* The call returns true, with the sstable listed and the descriptor open.
AppendClosesInPart(records) ==
    /\ CallsAndFails
    /\ Closes(records) /\ KeepsBlock(records)
    /\ sstable_num_rows' = Rows(records)
    /\ \E part \in PartsOf(ClosingBytes(records)) :
          disk' = Stored(Path, compute_db_bytes(records) \o part)
    /\ Hurt(Path)
    /\ UNCHANGED active_file_descriptor

append(records) ==
    \/ AppendCannotOpen(records)
    \/ AppendOpens(records)
    \/ AppendOpensInPart(records)
    \/ AppendAdds(records)
    \/ AppendAddsInPart(records)
    \/ AppendCloses(records)
    \/ AppendClosesInPart(records)

-----------------------------------------------------------------------------
(* read_sstable: the whole file, from its footer.                          *)

Fails == [ok |-> FALSE, records |-> <<>>]

\* The rows of the block in cells start + 1 .. end: its end says how many there are.
BlockIn(f, start, end) ==
    LET n == f[end].rows
    IN  IF /\ start < end /\ end <= Len(f)
           /\ f[end].cell = "TAIL"
           /\ start + n <= end - 1
           /\ \A i \in start + 1 .. start + n : f[i].cell = "ROW"
        THEN [ok |-> TRUE, records |-> [i \in 1 .. n |-> f[start + i].record]]
        ELSE Fails

read_sstable(path) ==
    LET f    == File(path)
        foot == Last(f)
        offs == foot.data_block_offsets
        end(i)  == IF i < Len(offs) THEN offs[i + 1] ELSE foot.data_block_metadata_start
        blocks  == [i \in DOMAIN offs |-> BlockIn(f, offs[i], end(i))]
        records == FlattenSeq([i \in DOMAIN offs |-> blocks[i].records])
    IN  IF /\ f # <<>>
           /\ foot.cell = "FOOTER"
           /\ \A i \in DOMAIN offs : blocks[i].ok
           /\ Len(records) = foot.total_rows
        THEN [ok |-> TRUE, records |-> records]
        ELSE Fails

-----------------------------------------------------------------------------
(* LSM_Iterator and the engine's registry of readers.                      *)

\* The footer is read from behind the end of the file: lseek goes forwards from SEEK_END.
create_metadata_for_iteratoring(path) ==
    path \in DOMAIN disk /\ Len(disk[path]) + 1 \in DOMAIN disk[path]

Registered(id, path) ==
    [i \in DOMAIN readers \cup {id} |-> IF i = id THEN path ELSE readers[i]]
\* Refused if the file exists.
register_iterator(id, path) ==
    readers' = IF path \in DOMAIN disk THEN readers ELSE Registered(id, path)

un_register_iterator(id) == readers' = [i \in DOMAIN readers \ {id} |-> readers[i]]

\* One more LSM_Iterator.
Takes == plan.opens > 0 /\ plan' = [plan EXCEPT !.opens = @ - 1]

\* The constructor takes the next id.
Open(path) ==
    /\ Takes
    /\ register_iterator(Len(iterators) + 1, path)
    /\ iterators' = Append(iterators, [path |-> path, loaded |-> create_metadata_for_iteratoring(path),
                                       objects |-> 1, dead |-> FALSE])
    /\ UNCHANGED <<disk, engine, runs, grouping, sent, hurt>>

Alive(id) == iterators[id].objects > 0

\* Returns a copy: it has the same id, and is not registered again.
get_iterator(id) ==
    /\ Alive(id)
    /\ Takes
    /\ iterators' = [iterators EXCEPT ![id].objects = @ + 1]
    /\ UNCHANGED <<disk, engine, runs, readers, grouping, sent, hurt>>

\* next without metadata takes the first offset of an empty vector: the process ends.
NextDies(id) ==
    /\ Alive(id) /\ ~iterators[id].loaded
    /\ iterators' = [iterators EXCEPT ![id].dead = TRUE]
    /\ UNCHANGED <<disk, engine, runs, readers, grouping, plan, sent, hurt>>

\* The destructor, of a copy as of the iterator constructed.
Destroy(id) ==
    /\ Alive(id)
    /\ un_register_iterator(id)
    /\ iterators' = [iterators EXCEPT ![id].objects = @ - 1]
    /\ UNCHANGED <<disk, engine, runs, grouping, plan, sent, hurt>>

-----------------------------------------------------------------------------
(* find_overlaps_in_runs: the ends of all files' ranges, by key downwards  *)
(* and in any order at one key.                                            *)

RangesOf(v1) ==
    UNION {{[path |-> v1[r].paths_to_files[y], first |-> v1[r].first_key_run[y],
             last |-> v1[r].last_key_run[y], at |-> <<r, y>>] : y \in DOMAIN v1[r].paths_to_files}
           : r \in DOMAIN v1}
EndsOf(ranges) ==
    {[key |-> g.first, path |-> g.path, last |-> FALSE, at |-> g.at] : g \in ranges} \cup
    {[key |-> g.last, path |-> g.path, last |-> TRUE, at |-> g.at] : g \in ranges}

NoGrouping == [vec |-> {}, counter |-> 0, active_set |-> {}, jobs |-> {}]

\* The runs of the bucket no longer change: the coordinator may as well come when all is appended.
FindOverlaps ==
    /\ plan.appends = 0 /\ runs_list # <<>> /\ grouping = NoGrouping
    /\ grouping' = [NoGrouping EXCEPT !.vec = EndsOf(RangesOf(runs_list))]
    /\ UNCHANGED <<disk, engine, runs, readers, iterators, plan, sent, hurt>>

\* What one end does to the counter, the files collected and the jobs.
\* Mutant: a job ends where the counter is not positive.
GroupedEarly(end) ==
    LET counter == IF end.last THEN grouping.counter - 1 ELSE grouping.counter + 1
        active_set == IF end.last THEN grouping.active_set \cup {end.path} ELSE grouping.active_set
    IN  [vec |-> grouping.vec \ {end}, counter |-> counter,
         active_set |-> IF counter <= 0 THEN {} ELSE active_set,
         jobs |-> IF counter <= 0 THEN grouping.jobs \cup {active_set} ELSE grouping.jobs]
Grouped(end) ==
    LET counter == IF end.last THEN grouping.counter - 1 ELSE grouping.counter + 1
        active_set == IF end.last THEN grouping.active_set \cup {end.path} ELSE grouping.active_set
    IN  [vec |-> grouping.vec \ {end}, counter |-> counter,
         active_set |-> IF counter = 0 THEN {} ELSE active_set,
         jobs |-> IF counter = 0 THEN grouping.jobs \cup {active_set} ELSE grouping.jobs]

GroupNext ==
    /\ \E end \in grouping.vec :
          /\ \A other \in grouping.vec : other.key <= end.key
          /\ grouping' = Grouped(end)
    /\ UNCHANGED <<disk, engine, runs, readers, iterators, plan, sent, hurt>>

-----------------------------------------------------------------------------

Init ==
    /\ disk = <<>>
    /\ active_file_descriptor = None
    /\ current_sstable_id = 1
    /\ data_block_offsets = <<>> /\ first_keys_sstable_list = <<>>
    /\ sstable_num_rows = 0
    /\ bloom = {} /\ first_string_entry = None
    /\ sstable_list = <<>>
    /\ active_run = EmptyRun /\ runs_list = <<>> /\ opened = <<>>
    /\ readers = <<>> /\ iterators = <<>>
    /\ grouping = NoGrouping
    /\ plan \in Plans
    /\ sent = <<>> /\ hurt = {}

ProcessRuns == \A id \in DOMAIN iterators : ~iterators[id].dead

Next ==
    /\ ProcessRuns
    /\ \/ \E batch \in plan.batches : append(Records(batch))
       \/ \E path \in 1 .. current_sstable_id : Open(path)
       \/ \E id \in DOMAIN iterators : get_iterator(id) \/ NextDies(id) \/ Destroy(id)
       \/ FindOverlaps
       \/ GroupNext
Spec == Init /\ [][Next]_vars

-----------------------------------------------------------------------------
(* Properties.                                                             *)

\* The variables have their types.  A descriptor is open on the current file or the one before;
\* an open sstable has as many first keys as offsets; only iterators that exist are registered.
TypeOK ==
    /\ active_file_descriptor \in {None, current_sstable_id, current_sstable_id - 1}
    /\ DOMAIN disk \subseteq 1 .. current_sstable_id /\ DOMAIN sent \subseteq DOMAIN disk
    /\ bloom \subseteq Keys /\ hurt \subseteq DOMAIN disk
    /\ Len(data_block_offsets) = Len(first_keys_sstable_list)
    /\ Len(active_run.paths_to_files) \in 0 .. 4
    /\ \A id \in DOMAIN readers : id \in DOMAIN iterators /\ Alive(id)
    /\ grouping.counter \in Int

\* An sstable that append has listed, none of its own writes having failed, reads back as the
\* records of the calls that returned true and no others, in their order; its index names the
\* first key at each offset, its filter knows all its keys, and the first and last key listed are
\* those of the records.  This is so whatever became of the files before and after it: append
\* keeps offsets, first keys, filter and number of rows from one call to the next.
ListedReadsBack ==
    \A i \in DOMAIN sstable_list :
       LET s == sstable_list[i]
           f == disk[s.file_address]
           foot == Last(f)
           records == sent[s.file_address]
       IN  s.file_address \notin hurt =>
             /\ read_sstable(s.file_address) = [ok |-> TRUE, records |-> records]
             /\ s.num_rows_in_sstable = Len(records)
             /\ s.first = Head(records).key /\ s.last = Last(records).key
             /\ \A b \in DOMAIN foot.data_block_offsets :
                   f[foot.data_block_offsets[b] + 1].record.key = foot.first_keys[b]
             /\ KeysOf(records) \subseteq foot.filter
             /\ \A j \in DOMAIN sstable_list : sstable_list[j].file_address = s.file_address => i = j

\* What compaction can find of the listed sstables.  Each opening gives its keys to a run, but
\* every fifth gives its path to none: that file, whole and listed, is in no run.  And the range
\* a run has for a file that is in one ends with the file's first block, not with its last key.
EveryFifthForgotten ==
    LET all == Append(runs_list, active_run)
        found == UNION {{all[r].paths_to_files[y] : y \in DOMAIN all[r].paths_to_files} : r \in DOMAIN all}
    IN  /\ found = {opened[n].path : n \in {k \in DOMAIN opened : k % 5 # 0}}
        /\ \A s \in ToSet(sstable_list) : \E n \in DOMAIN opened : opened[n].path = s.file_address
        /\ \A g \in RangesOf(all) : \E n \in DOMAIN opened :
              opened[n] = [path |-> g.path, first |-> g.first, last |-> g.last]

\* The jobs made of a bucket cover its files; no job spans a key that no range does; and files
\* whose ranges have more than an end in common are in one job, unless some range is a single key:
\* its ends may be met in either order, and then end the job of the files around it.  Jobs name
\* files by path: the first is meant unless two openings gave one path, the first having failed.
JobsGroupOverlaps ==
    LET ranges == RangesOf(runs_list)
    IN  grouping.vec = {} /\ grouping.jobs # {} =>
          /\ grouping.counter = 0 /\ grouping.active_set = {}
          /\ UNION grouping.jobs = {g.path : g \in ranges}
          /\ (\A g, h \in ranges : g.path = h.path => g = h) =>
                \A t \in Keys : (\A g \in ranges : g.last <= t \/ t < g.first) =>
                   \A g, h \in ranges : g.last <= t /\ t < h.first =>
                      \A job \in grouping.jobs : ~{g.path, h.path} \subseteq job
          /\ (\A g \in ranges : g.first < g.last) =>
                \A g, h \in ranges : g.first < h.last /\ h.first < g.last =>
                   \E job \in grouping.jobs : {g.path, h.path} \subseteq job
=============================================================================
