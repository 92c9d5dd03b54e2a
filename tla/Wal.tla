-------------------------------- MODULE Wal --------------------------------
(***************************************************************************)
(* The write-ahead log of src/v1/Wal.hpp: segments on disk, the in-memory  *)
(* catalogue of class WAL, recovery, shutdown, the prune worker and the    *)
(* tailing readers of class WAL_iterator.                                  *)
(*                                                                         *)
(* Every public method of WAL holds wal_mutex for its whole body, so each  *)
(* is one action; shutdown() raises its flag before it takes the mutex and *)
(* WAL_iterator::next takes the mutex several times, so these are several. *)
(* A segment file is a sequence of frames; "TORN" stands for the bytes of  *)
(* a write that stopped half-way, at which decode_frame_from_fd gives up.  *)
(***************************************************************************)
EXTENDS Integers, Sequences, FiniteSets

CONSTANTS
    MaxSegSize,      \* config.MAX_SEG_SIZE
    Strategy,        \* config.ss; only "ALWAYS" is ever tested for
    Faults,          \* what the machine does: failed writes, failed fsyncs, power loss
    PruneWorker,     \* FALSE in the code as built: Wal.hpp:279 is commented out
    Readers,         \* the WAL_iterator objects
    StartLsns,       \* the start_lsn values clients pass to WAL_iterator
    MaxRows,         \* bound: calls of append
    MaxCheckpoints,  \* bound: calls of checkpoint
    MaxStops         \* bound: ends of the process, clean or not

ASSUME WalAssumption ==
    /\ MaxSegSize \in Nat
    /\ Faults \subseteq {"write", "fsync", "power"}
    /\ PruneWorker \in BOOLEAN
    /\ StartLsns \subseteq Nat
    /\ {MaxRows, MaxCheckpoints, MaxStops} \subseteq Nat

VARIABLES
    disk,                 \* base_dir: file name -> frames, and how many an fsync covered
    up,                   \* a WAL object exists
    active_fd,            \* the file open for appending, or NoFile
    next_lsn,
    durable_lsn,
    active_segment_space,
    current_base_lsn,
    segment_id,
    segment_list,         \* the vector, as a set of entries that carry their index
    checkpoint_list,
    registered_readers,   \* the pins: reader -> lsn
    is_shutdown,
    pruning_thread,       \* joinable: set by the constructor, cleared by shutdown's join
    reader,               \* each WAL_iterator: where in next() it is, its current_lsn
    nrows, ncheckpoints, nstops,  \* calls so far, for the bounds
    acked,                \* history: the rows whose append returned true
    pruned,               \* history: the rows whose segment the worker removed
    boot_lsn              \* history: next_lsn when this WAL object was built

catalogue == <<active_fd, next_lsn, active_segment_space, current_base_lsn,
               segment_id, segment_list>>
counters  == <<nrows, ncheckpoints, nstops>>
histories == <<acked, pruned, boot_lsn>>
vars == <<disk, up, catalogue, durable_lsn, checkpoint_list, registered_readers,
          is_shutdown, pruning_thread, reader, counters, histories>>

-----------------------------------------------------------------------------
(* Files and frames.                                                       *)

\* "seg_<id>_lsn<base>.wal"; the header payload of the file repeats both numbers.
FileName == [id : Nat, base : Nat]
NoFile   == [id |-> -1, base |-> -1]
Unlinked == [id |-> -2, base |-> -2]  \* active_fd, its file removed under it

Kinds == {"HEADER", "ROW", "SEAL", "CHECKPOINT", "SHUTDOWN", "TORN"}
Frame == [kind : Kinds, lsn : Nat, row : Nat]
Fr(kind, lsn, row) == [kind |-> kind, lsn |-> lsn, row |-> row]
Torn == Fr("TORN", 0, 0)

File  == [frames : Seq(Frame), synced : Nat]
Empty == [frames |-> <<>>, synced |-> 0]

\* A segment_list entry; number_of_records is left out, nothing reads it back.
SegmentInfo == [pos : Nat, file : FileName, base_lsn : Nat, last_lsn : Nat]

FramesOf(f) == IF f \in DOMAIN disk THEN disk[f].frames ELSE <<>>
Has(s, kinds) == \E i \in DOMAIN s : s[i].kind \in kinds

\* What a loop over decode_frame_from_fd sees: the frames before the first torn one.
IsFirstTorn(s, i) ==
    /\ i \in DOMAIN s
    /\ s[i].kind = "TORN"
    /\ \A j \in 1 .. i - 1 : s[j].kind # "TORN"
\* Mutant: the valid offset is taken before the last good frame, not after it.
DecodableShort(s) ==
    IF Has(s, {"TORN"})
    THEN SubSeq(s, 1, (CHOOSE i \in DOMAIN s : IsFirstTorn(s, i)) - 2)
    ELSE s
Decodable(s) ==
    IF Has(s, {"TORN"})
    THEN SubSeq(s, 1, (CHOOSE i \in DOMAIN s : IsFirstTorn(s, i)) - 1)
    ELSE s

\* flush_sync_controller(fd, v): all of the frame, none of it, or a part of it.
WriteOutcome == IF "write" \in Faults THEN {"ok", "none", "part"} ELSE {"ok"}
FsyncOutcome == IF "fsync" \in Faults THEN {TRUE, FALSE} ELSE {TRUE}
Bytes(fr, outcome) ==
    CASE outcome = "ok"   -> <<fr>>
      [] outcome = "none" -> <<>>
      [] outcome = "part" -> <<Torn>>

\* The directory after `new` is appended to f (created if missing), then fsynced or not.
Store(f, new, fsynced) ==
    LET old == IF f \in DOMAIN disk THEN disk[f] ELSE Empty
        all == old.frames \o new
    IN  [g \in DOMAIN disk \cup {f} |->
           IF g = f
           THEN [frames |-> all, synced |-> IF fsynced THEN Len(all) ELSE old.synced]
           ELSE disk[g]]

\* The same through a descriptor: what goes to an unlinked file is lost.
StoreFd(f, new, fsynced) == IF f = Unlinked THEN disk ELSE Store(f, new, fsynced)

(* std::sort of std::filesystem::path: file names compare as strings.  In  *)
(* "seg_<id>_lsn<base>.wal" the id ends in '_', above every digit, and the *)
(* base in '.', below every digit.                                         *)
Digits[n \in Nat] == IF n < 10 THEN <<n>> ELSE Append(Digits[n \div 10], n % 10)
PathKey(f) == Append(Digits[f.id], 10) \o Append(Digits[f.base], -1)
PathLess(f, g) ==
    LET a == PathKey(f)
        b == PathKey(g)
    IN  \E k \in DOMAIN a \cap DOMAIN b :
          /\ \A j \in 1 .. k - 1 : a[j] = b[j]
          /\ a[k] < b[k]

-----------------------------------------------------------------------------
(* segment_list as a vector.                                               *)

IsBack(list, e) == \A d \in list : d.pos <= e.pos
\* Mutant: next_lsn is advanced before base_lsn is taken from it.
PushBackLate(list, f, lsn) ==
    list \cup {[pos |-> Cardinality(list) + 1, file |-> f,
                base_lsn |-> lsn + 1, last_lsn |-> lsn + 1]}
PushBack(list, f, lsn) ==
    list \cup {[pos |-> Cardinality(list) + 1, file |-> f,
                base_lsn |-> lsn, last_lsn |-> lsn]}
\* segment_list.back().last_lsn = lsn.  Mutant: it is forgotten.
BackLastStale(list, lsn) == list
BackLast(list, lsn) ==
    {IF IsBack(list, e) THEN [e EXCEPT !.last_lsn = lsn] ELSE e : e \in list}
\* erase moves the later entries down
Erase(list, gone) ==
    {[e EXCEPT !.pos = Cardinality({d \in list \ gone : d.pos <= e.pos})]
       : e \in list \ gone}

\* next_lsn is unsigned and starts at 0.  Mutants: no test for 0; no subtraction.
LastLsnWraps(n) == n - 1
LastLsnNext(n) == n
LastLsn(n) == IF n > 0 THEN n - 1 ELSE 0

-----------------------------------------------------------------------------
(* append.                                                                 *)

\* The state after append's first block: a new segment if no file is open.
AfterOpen(outcome) ==
    IF active_fd # NoFile
    THEN [file |-> active_fd, wrote |-> <<>>, lsn |-> next_lsn,
          space |-> active_segment_space, segs |-> segment_list]
    ELSE LET f == [id |-> segment_id, base |-> current_base_lsn]
         IN  [file  |-> f,
              wrote |-> Bytes(Fr("HEADER", next_lsn, 0), outcome),
              lsn   |-> next_lsn + 1,
              space |-> active_segment_space + 1,
              segs  |-> PushBack(segment_list, f, next_lsn)]

Row(lsn)  == Fr("ROW", lsn, nrows + 1)

AppendCall ==
    /\ up
    /\ ~is_shutdown
    /\ nrows < MaxRows
    /\ nrows' = nrows + 1
    /\ UNCHANGED <<up, checkpoint_list, registered_readers, is_shutdown,
                   pruning_thread, reader, ncheckpoints, nstops, pruned, boot_lsn>>

\* The row cannot be written: append returns false, and whatever reached the file stays.
AppendFails ==
    /\ AppendCall
    /\ \E oh \in WriteOutcome, ow \in WriteOutcome \ {"ok"} :
         LET o == AfterOpen(oh)
         IN  /\ disk' = StoreFd(o.file, o.wrote \o Bytes(Row(o.lsn), ow), FALSE)
             /\ active_fd' = o.file
             /\ next_lsn' = o.lsn
             /\ active_segment_space' = o.space
             /\ segment_list' = o.segs
    /\ UNCHANGED <<durable_lsn, current_base_lsn, segment_id, acked>>

\* The row fits in the segment.
AppendRow ==
    /\ AppendCall
    /\ \E oh \in WriteOutcome :
         LET o == AfterOpen(oh)
         IN  /\ o.space + 1 < MaxSegSize
             /\ disk' = StoreFd(o.file, o.wrote \o <<Row(o.lsn)>>, FALSE)
             /\ active_fd' = o.file
             /\ next_lsn' = o.lsn + 1
             /\ active_segment_space' = o.space + 1
             /\ segment_list' = BackLast(o.segs, o.lsn)
    /\ acked' = acked \cup {nrows + 1}
    /\ UNCHANGED <<durable_lsn, current_base_lsn, segment_id>>

\* The row fills the segment: the seal is written, synced under "ALWAYS", the file closed.
AppendSeals ==
    /\ AppendCall
    /\ \E oh, os \in WriteOutcome :
         LET o    == AfterOpen(oh)
             seal == Bytes(Fr("SEAL", o.lsn + 1, 0), os)
         IN  /\ o.space + 1 >= MaxSegSize
             /\ disk' = StoreFd(o.file, o.wrote \o <<Row(o.lsn)>> \o seal,
                                Strategy = "ALWAYS")
             /\ durable_lsn' = IF Strategy = "ALWAYS" THEN o.lsn + 1 ELSE durable_lsn
             /\ segment_list' = BackLast(o.segs, o.lsn + 1)
             /\ next_lsn' = o.lsn + 2
             /\ current_base_lsn' = o.lsn + 2
    /\ active_segment_space' = 0
    /\ active_fd' = NoFile
    /\ segment_id' = segment_id + 1
    /\ acked' = acked \cup {nrows + 1}

\* The fsync of the rollover fails: append returns false with the row and the seal
\* written, and leaves space, segment_id, base and next_lsn for a second try.
AppendSealUnsynced ==
    /\ AppendCall
    /\ Strategy = "ALWAYS"
    /\ FALSE \in FsyncOutcome
    /\ \E oh, os \in WriteOutcome :
         LET o    == AfterOpen(oh)
             seal == Bytes(Fr("SEAL", o.lsn + 1, 0), os)
         IN  /\ o.space + 1 >= MaxSegSize
             /\ disk' = StoreFd(o.file, o.wrote \o <<Row(o.lsn)>> \o seal, FALSE)
             /\ segment_list' = BackLast(o.segs, o.lsn + 1)
             /\ next_lsn' = o.lsn + 1
             /\ active_segment_space' = o.space + 1
    /\ active_fd' = NoFile
    /\ UNCHANGED <<durable_lsn, current_base_lsn, segment_id, acked>>

-----------------------------------------------------------------------------
(* sync, checkpoint, shutdown.                                             *)

\* sync() with a file open; with none it returns true and changes nothing.
Sync ==
    /\ up
    /\ active_fd # NoFile
    /\ disk' = StoreFd(active_fd, <<>>, TRUE)
    /\ durable_lsn' = LastLsn(next_lsn)
    /\ UNCHANGED <<up, catalogue, checkpoint_list, registered_readers,
                   is_shutdown, pruning_thread, reader, counters, histories>>

\* checkpoint() writes through a descriptor of its own, under the lsn of the record
\* to come; it neither looks at is_shutdown nor at the result of the write.
Checkpoint ==
    /\ up
    /\ ncheckpoints < MaxCheckpoints
    /\ \E o \in WriteOutcome :
         disk' = Store([id |-> segment_id, base |-> current_base_lsn],
                       Bytes(Fr("CHECKPOINT", next_lsn, 0), o), FALSE)
    /\ checkpoint_list' =
         Append(checkpoint_list, LastLsn(next_lsn))
    /\ ncheckpoints' = ncheckpoints + 1
    /\ UNCHANGED <<up, catalogue, durable_lsn, registered_readers, is_shutdown,
                   pruning_thread, reader, nrows, nstops, histories>>

\* is_shutdown.exchange(true), before any mutex is taken
ShutdownFlag ==
    /\ up
    /\ ~is_shutdown
    /\ is_shutdown' = TRUE
    /\ UNCHANGED <<disk, up, catalogue, durable_lsn, checkpoint_list,
                   registered_readers, pruning_thread, reader, counters, histories>>

\* The worker is joined; then, under the mutex, the shutdown frame takes next_lsn.
ShutdownSeal ==
    /\ up
    /\ is_shutdown
    /\ pruning_thread
    /\ pruning_thread' = FALSE
    /\ IF active_fd = NoFile
       THEN disk' = disk
       ELSE \E o \in WriteOutcome, fs \in FsyncOutcome :
              disk' = StoreFd(active_fd, Bytes(Fr("SHUTDOWN", next_lsn, 0), o), fs)
    /\ active_fd' = NoFile
    /\ UNCHANGED <<up, next_lsn, active_segment_space, current_base_lsn,
                   segment_id, segment_list, durable_lsn, checkpoint_list,
                   registered_readers, is_shutdown, reader, counters, histories>>

-----------------------------------------------------------------------------
(* The prune worker: execute_prune_process, every 10 seconds until shutdown. *)

\* get_min_retention_lsn is the least of these.
Pins == {next_lsn} \cup {registered_readers[r] : r \in DOMAIN registered_readers}

\* Mutant: the segment that holds the pinned lsn goes too.
RemovableAtPin(m) ==
    {e \in segment_list :
       /\ e.base_lsn <= m
       /\ e.file \in DOMAIN disk
       /\ \A d \in segment_list : d.file = e.file => e.pos <= d.pos}
\* Below every pin, and the remove call succeeds: only for the first entry of a path.
Removable(m) ==
    {e \in segment_list :
       /\ e.last_lsn < m
       /\ e.file \in DOMAIN disk
       /\ \A d \in segment_list :
            d.file = e.file /\ d.last_lsn < m => e.pos <= d.pos}

\* segment_list.size() > 1: the back is spared when all before it went.
Gone(m) ==
    {e \in Removable(m) : Removable(m) = segment_list => ~IsBack(segment_list, e)}

Prune ==
    /\ up
    /\ PruneWorker
    /\ pruning_thread
    /\ \E m \in Pins :
         /\ \A p \in Pins : m <= p
         /\ LET gone  == Gone(m)
                files == {e.file : e \in gone}
            IN  /\ gone # {}
                /\ disk' = [f \in DOMAIN disk \ files |-> disk[f]]
                /\ segment_list' = Erase(segment_list, gone)
                /\ active_fd' = IF active_fd \in files THEN Unlinked ELSE active_fd
                /\ pruned' = pruned \cup
                     UNION {{disk[f].frames[i].row : i \in DOMAIN disk[f].frames} : f \in files}
    /\ UNCHANGED <<up, next_lsn, active_segment_space, current_base_lsn, segment_id,
                   durable_lsn, checkpoint_list, registered_readers, is_shutdown,
                   pruning_thread, reader, counters, acked, boot_lsn>>

-----------------------------------------------------------------------------
(* read_record_at_lsn and WAL_iterator.                                    *)

Holding(lsn) == {e \in segment_list : e.base_lsn <= lsn /\ lsn <= e.last_lsn}

\* The record as a set: the first frame with that lsn in the first segment that may
\* hold it, or nothing.
ReadAt(lsn) ==
    UNION {LET s == Decodable(FramesOf(e.file))
           IN  {s[i] : i \in {j \in DOMAIN s :
                  s[j].lsn = lsn /\ \A k \in 1 .. j - 1 : s[k].lsn # lsn}}
           : e \in {h \in Holding(lsn) : \A d \in Holding(lsn) : h.pos <= d.pos}}

\* pc: "out" (no iterator), "idle" between calls, then inside next(): "read",
\* "advance" and "wait".
Out == [pc |-> "out", from |-> 0, current_lsn |-> 0, record |-> Torn, got |-> {}]

IteratorStep(r, pc) ==
    /\ up
    /\ reader[r].pc = pc
    /\ UNCHANGED <<disk, up, catalogue, durable_lsn, checkpoint_list,
                   is_shutdown, pruning_thread, counters, histories>>

Unpinned(r) == [q \in DOMAIN registered_readers \ {r} |-> registered_readers[q]]
Pinned(r, lsn) ==
    [q \in DOMAIN registered_readers \cup {r} |->
       IF q = r THEN lsn ELSE registered_readers[q]]

\* WAL_iterator(w, start_lsn): registers its pin
Attach(r) ==
    /\ IteratorStep(r, "out")
    /\ \E l \in StartLsns :
         /\ reader' = [reader EXCEPT ![r] =
                         [Out EXCEPT !.pc = "idle", !.from = l, !.current_lsn = l]]
         /\ registered_readers' = Pinned(r, l)

\* a caller's next()
NextCall(r) ==
    /\ IteratorStep(r, "idle")
    /\ reader' = [reader EXCEPT ![r].pc = "read"]
    /\ UNCHANGED registered_readers

\* The read, under the mutex; a caller without follow_tail gets its nullopt here.
NextRead(r) ==
    /\ IteratorStep(r, "read")
    /\ IF ReadAt(reader[r].current_lsn) = {}
       THEN \E pc \in {"wait", "idle"} : reader' = [reader EXCEPT ![r].pc = pc]
       ELSE \E fr \in ReadAt(reader[r].current_lsn) :
              reader' = [reader EXCEPT ![r].pc = "advance", ![r].record = fr]
    /\ UNCHANGED registered_readers

\* current_lsn++, then update_reader_lsn under the mutex again, and return the record
Returned(it) ==
    [it EXCEPT !.pc = "idle",
               !.current_lsn = it.current_lsn + 1,
               !.record = Torn,
               !.got = IF it.record.kind = "ROW" THEN it.got \cup {it.record.row} ELSE it.got]
NextAdvance(r) ==
    /\ IteratorStep(r, "advance")
    /\ reader' = [reader EXCEPT ![r] = Returned(reader[r])]
    /\ registered_readers' = Pinned(r, reader[r].current_lsn + 1)

\* wait_for_new_data has returned, notified, timed out or at once: without data
\* get_next_lsn makes next() return nullopt, with data it loops.
TailWait(r) ==
    /\ IteratorStep(r, "wait")
    /\ reader' = [reader EXCEPT ![r].pc =
                    IF next_lsn <= reader[r].current_lsn THEN "idle" ELSE "read"]
    /\ UNCHANGED registered_readers

\* ~WAL_iterator between two calls of next
Detach(r) ==
    /\ IteratorStep(r, "idle")
    /\ reader' = [reader EXCEPT ![r] = Out]
    /\ registered_readers' = Unpinned(r)

-----------------------------------------------------------------------------
(* The process ends, cleanly or not.                                       *)

Down ==
    /\ up
    /\ nstops < MaxStops
    /\ nstops' = nstops + 1
    /\ up' = FALSE
    /\ active_fd' = NoFile
    /\ next_lsn' = 0
    /\ durable_lsn' = 0
    /\ active_segment_space' = 0
    /\ current_base_lsn' = 0
    /\ segment_id' = 0
    /\ segment_list' = {}
    /\ checkpoint_list' = <<>>
    /\ registered_readers' = [r \in {} |-> 0]
    /\ is_shutdown' = FALSE
    /\ pruning_thread' = FALSE
    /\ reader' = [r \in Readers |-> Out]
    /\ boot_lsn' = 0
    /\ UNCHANGED <<ncheckpoints, acked, pruned>>

\* Killed between two calls, or ended after shutdown: what was written stays.
ProcessEnds == Down /\ UNCHANGED <<disk, nrows>>

\* Killed while a call writes: some frames are whole, the next one perhaps not.
Interrupted(f, whole) ==
    \E t \in 0 .. Len(whole), torn \in BOOLEAN :
       /\ torn => t < Len(whole)
       /\ disk' = StoreFd(f, SubSeq(whole, 1, t) \o (IF torn THEN <<Torn>> ELSE <<>>), FALSE)

CrashInAppend ==
    LET o    == AfterOpen("ok")
        seal == IF o.space + 1 >= MaxSegSize THEN <<Fr("SEAL", o.lsn + 1, 0)>> ELSE <<>>
    IN  /\ Down
        /\ ~is_shutdown
        /\ nrows < MaxRows
        /\ nrows' = nrows + 1
        /\ Interrupted(o.file, o.wrote \o <<Row(o.lsn)>> \o seal)

CrashInCheckpoint ==
    /\ Down
    /\ ncheckpoints < MaxCheckpoints
    /\ Interrupted([id |-> segment_id, base |-> current_base_lsn],
                   <<Fr("CHECKPOINT", next_lsn, 0)>>)
    /\ UNCHANGED nrows

CrashInShutdown ==
    /\ Down
    /\ is_shutdown
    /\ active_fd # NoFile
    /\ Interrupted(active_fd, <<Fr("SHUTDOWN", next_lsn, 0)>>)
    /\ UNCHANGED nrows

\* Each file keeps what an fsync covered and any prefix of the rest.
Unsynced == {f \in DOMAIN disk : disk[f].synced < Len(disk[f].frames)}
PowerLoss ==
    /\ "power" \in Faults
    /\ Down
    /\ \E k \in [Unsynced -> UNION {disk[f].synced .. Len(disk[f].frames) : f \in Unsynced}],
          torn \in SUBSET Unsynced :
         /\ \A f \in Unsynced : k[f] \in disk[f].synced .. Len(disk[f].frames)
         /\ \A f \in torn : k[f] < Len(disk[f].frames)
         /\ disk' = [f \in DOMAIN disk |->
              IF f \notin Unsynced THEN disk[f]
              ELSE LET left == SubSeq(disk[f].frames, 1, k[f])
                               \o (IF f \in torn THEN <<Torn>> ELSE <<>>)
                   IN  [frames |-> left, synced |-> Len(left)]]
    /\ UNCHANGED nrows

-----------------------------------------------------------------------------
(* recover_and_rebuild, called by the constructor.                         *)

Kept(f) == Decodable(disk[f].frames)
Damaged == {f \in DOMAIN disk : Has(disk[f].frames, {"TORN"})}
Headed  == {f \in DOMAIN disk : Has(Kept(f), {"HEADER"})}
\* Mutant: only a seal closes a segment for recovery.
OpenUnlessSealed == {f \in Headed : ~Has(Kept(f), {"SEAL"})}
Open    == {f \in Headed : ~Has(Kept(f), {"SEAL", "SHUTDOWN"})}
\* Mutants: next_lsn starts at the last lsn found; sealed segments are passed over.
LsnsBeforeLast(f) == {Kept(f)[i].lsn : i \in 1 .. Len(Kept(f)) - 1}
LsnsIn(f) == {Kept(f)[i].lsn : i \in DOMAIN Kept(f)}
LsnsOfOpen == UNION {LsnsIn(f) : f \in Open}
Lsns == UNION {LsnsIn(f) : f \in DOMAIN disk}
IsMaxId(f) == \A g \in Headed : g.id <= f.id
Rank(f) == Cardinality({g \in Headed : g = f \/ PathLess(g, f)})

\* truncate_file on every file of cut; its fsync may fail, unnoticed
Truncate(cut, fsynced) ==
    disk' = [f \in DOMAIN disk |->
       IF f \notin cut THEN disk[f]
       ELSE [frames |-> Kept(f),
             synced |-> IF fsynced \/ disk[f].synced > Len(Kept(f))
                        THEN Len(Kept(f)) ELSE disk[f].synced]]

Recover ==
    /\ ~up
    /\ up' = TRUE
    /\ pruning_thread' = TRUE
    /\ \E cut \in SUBSET Damaged, fs \in FsyncOutcome :
         /\ "write" \in Faults \/ cut = Damaged  \* truncate_file may fail, unnoticed
         /\ Truncate(cut, fs)
    /\ \E n \in {0} \cup {l + 1 : l \in Lsns} :
         /\ \A l \in Lsns : l < n
         /\ next_lsn' = n
         /\ boot_lsn' = n
         /\ durable_lsn' = LastLsn(n)
    /\ segment_list' = {[pos |-> Rank(f), file |-> f, base_lsn |-> f.base,
                         last_lsn |-> Kept(f)[Len(Kept(f))].lsn] : f \in Headed}
    /\ \/ /\ Headed = {}
          /\ active_fd' = NoFile
          /\ active_segment_space' = 0
          /\ current_base_lsn' = 0
          /\ segment_id' = 0
       \/ /\ Headed # {}
          /\ Open = {}
          /\ active_fd' = NoFile
          /\ active_segment_space' = 0
          /\ current_base_lsn' = next_lsn'
          /\ \E f \in Headed : IsMaxId(f) /\ segment_id' = f.id + 1
       \/ /\ \E f \in Open :                     \* the last one in path order
               /\ \A g \in Open : g = f \/ PathLess(g, f)
               /\ active_fd' = f
               /\ active_segment_space' = Len(Kept(f))
               /\ current_base_lsn' = f.base
          /\ \E f \in Headed : IsMaxId(f) /\ segment_id' = f.id
    /\ UNCHANGED <<checkpoint_list, registered_readers, is_shutdown, reader,
                   counters, acked, pruned>>

\* Killed inside recovery, which truncates in path order.
CrashInRecovery ==
    /\ ~up
    /\ nstops < MaxStops
    /\ nstops' = nstops + 1
    /\ \E cut \in SUBSET Damaged :
         /\ cut # {}
         /\ \A f \in cut, g \in Damaged :
              PathLess(g, f) => g \in cut \/ "write" \in Faults
         /\ Truncate(cut, TRUE)
    /\ UNCHANGED <<up, catalogue, durable_lsn, checkpoint_list, registered_readers,
                   is_shutdown, pruning_thread, reader, nrows, ncheckpoints, histories>>

-----------------------------------------------------------------------------
Init ==
    /\ disk = [f \in {} |-> Empty]
    /\ up = FALSE
    /\ active_fd = NoFile
    /\ next_lsn = 0
    /\ durable_lsn = 0
    /\ active_segment_space = 0
    /\ current_base_lsn = 0
    /\ segment_id = 0
    /\ segment_list = {}
    /\ checkpoint_list = <<>>
    /\ registered_readers = [r \in {} |-> 0]
    /\ is_shutdown = FALSE
    /\ pruning_thread = FALSE
    /\ reader = [r \in Readers |-> Out]
    /\ nrows = 0
    /\ ncheckpoints = 0
    /\ nstops = 0
    /\ acked = {}
    /\ pruned = {}
    /\ boot_lsn = 0

AppendStep == AppendFails \/ AppendRow \/ AppendSeals \/ AppendSealUnsynced
ReaderStep(r) ==
    Attach(r) \/ NextCall(r) \/ NextRead(r) \/ NextAdvance(r) \/ TailWait(r) \/ Detach(r)
Stop ==
    \/ ProcessEnds
    \/ CrashInAppend
    \/ CrashInCheckpoint
    \/ CrashInShutdown
    \/ CrashInRecovery
    \/ PowerLoss

Next ==
    \/ AppendStep
    \/ Sync
    \/ Checkpoint
    \/ ShutdownFlag
    \/ ShutdownSeal
    \/ Prune
    \/ \E r \in Readers : ReaderStep(r)
    \/ Recover
    \/ Stop

Spec == Init /\ [][Next]_vars

(* A call of next() goes on to its end (the wait has a timeout), and the client of  *)
(* an iterator keeps calling it.  Nothing is assumed of the callers of append,      *)
(* sync, checkpoint and shutdown, nor of the prune worker, which nothing starts.    *)
NextRuns(r) == NextRead(r) \/ NextAdvance(r) \/ TailWait(r)
FairSpec ==
    /\ Spec
    /\ \A r \in Readers : WF_vars(NextRuns(r)) /\ WF_vars(NextCall(r))

-----------------------------------------------------------------------------
(* Properties.                                                             *)

DiskType(d) ==
    /\ DOMAIN d \subseteq FileName
    /\ IsFiniteSet(DOMAIN d)
    /\ d \in [DOMAIN d -> File]

ListType(l) == l \subseteq SegmentInfo /\ IsFiniteSet(l)

CatalogueType ==
    /\ active_fd \in FileName \cup {NoFile, Unlinked}
    /\ {next_lsn, durable_lsn, active_segment_space,
        current_base_lsn, segment_id, boot_lsn} \subseteq Nat
    /\ ListType(segment_list)

ReadersType ==
    /\ DOMAIN registered_readers \subseteq Readers
    /\ registered_readers \in [DOMAIN registered_readers -> Nat]
    /\ reader \in [Readers -> [pc : {"out", "idle", "read", "advance", "wait"},
                               from : Nat, current_lsn : Nat, record : Frame,
                               got : SUBSET Nat]]

FlagsType == {up, is_shutdown, pruning_thread} \subseteq BOOLEAN

CallsType ==
    /\ checkpoint_list \in Seq(Nat)
    /\ {nrows, ncheckpoints, nstops} \subseteq Nat
    /\ acked \cup pruned \subseteq Nat

\* Every variable has its type: the counters of class WAL never go below zero, the
\* catalogue names files by segment and base, positions in segment_list are set.
TypeOK ==
    DiskType(disk) /\ CatalogueType /\ ReadersType /\ FlagsType /\ CallsType

\* Frame i of s can be reached by decode_frame_from_fd.
Live(s, i) == i \in DOMAIN s /\ \A j \in 1 .. i : s[j].kind # "TORN"
LiveRow(f, i) ==
    f \in DOMAIN disk /\ Live(disk[f].frames, i) /\ disk[f].frames[i].kind = "ROW"

\* No two rows that can be decoded carry one LSN, whatever crashed, was lost or could
\* not be written before: LSNs name rows across restarts.
RowLsnUnique ==
    \A f, g \in DOMAIN disk :
       \A i \in DOMAIN disk[f].frames, j \in DOMAIN disk[g].frames :
          /\ LiveRow(f, i) /\ LiveRow(g, j)
          /\ disk[f].frames[i].lsn = disk[g].frames[j].lsn
          => f = g /\ i = j

\* While a WAL object exists, the LSN it will give next lies above every decodable row,
\* in whichever file: what recovery finds and what failed rollovers leave included.
RowsBelowNext ==
    up => \A f \in DOMAIN disk : \A i \in DOMAIN disk[f].frames :
             LiveRow(f, i) => disk[f].frames[i].lsn < next_lsn

\* A row whose append returned true stays decodable in the directory until its segment
\* is pruned: no restart, and no truncation of a torn tail, takes it away.
AckedOnDisk ==
    \A k \in acked \ pruned :
       \E f \in DOMAIN disk : \E i \in DOMAIN disk[f].frames :
          LiveRow(f, i) /\ disk[f].frames[i].row = k

\* A row whose append returned true is what read_record_at_lsn gives for its LSN, at any
\* time until its segment is pruned: the catalogue covers it and nothing shadows it.
AckedReadable ==
    up => \A k \in acked \ pruned :
             \E l \in 0 .. next_lsn : ReadAt(l) = {Fr("ROW", l, k)}

\* From the oldest segment to next_lsn every LSN can be read: an iterator that counts
\* up one by one, as next() does, never meets a hole.
LogContiguous ==
    up => \A e \in segment_list :
             \A l \in e.base_lsn .. next_lsn - 1 : ReadAt(l) # {}

\* The rows between an iterator's start and its position have all been returned by next().
ReaderMissesNoRow ==
    \A r \in Readers : reader[r].pc # "out" =>
       \A f \in DOMAIN disk : \A i \in DOMAIN disk[f].frames :
          LET fr == disk[f].frames[i]
          IN  /\ LiveRow(f, i)
              /\ reader[r].from <= fr.lsn
              /\ fr.lsn < reader[r].current_lsn
              => fr.row \in reader[r].got

\* Rows this WAL object wrote at or below durable_lsn are covered by an fsync.
DurableLsnHonest ==
    \A f \in DOMAIN disk : \A i \in DOMAIN disk[f].frames :
       LET fr == disk[f].frames[i]
       IN  /\ LiveRow(f, i)
           /\ boot_lsn <= fr.lsn
           /\ fr.lsn <= durable_lsn
           => i <= disk[f].synced

\* A segment that carries its seal or the shutdown seal takes no more rows: recovery
\* reopens it no more, and no rollover or restart reuses its name.
Sealed(f) == Has(Kept(f), {"SEAL", "SHUTDOWN"})
SealedSegmentsTakeNoRows ==
    [][\A f \in DOMAIN disk \cap DOMAIN disk' :
          Sealed(f) => \A i \in DOMAIN disk'[f].frames :
             i > Len(disk[f].frames) => disk'[f].frames[i].kind # "ROW"]_vars

\* What an attached iterator has not read yet stays readable, and the same, whatever
\* the writer, the prune worker and the other iterators do.
UnreadStaysReadable ==
    [][\A r \in Readers : reader[r].pc # "out" /\ reader'[r].pc # "out" =>
          \A l \in reader[r].current_lsn .. next_lsn - 1 : ReadAt(l) \subseteq ReadAt(l)']_vars

\* An iterator attached from the start of the log returns every acknowledged row.
TailDelivers ==
    \A r \in Readers, k \in 1 .. MaxRows :
       k \in acked /\ reader[r].pc # "out" /\ reader[r].from = 0
       ~> k \in reader[r].got \/ reader[r].pc = "out"

\* Every call of next() returns.
NextReturns ==
    \A r \in Readers : reader[r].pc # "idle" ~> reader[r].pc \in {"idle", "out"}

\* Until shutdown, segments that every registered reader has left behind do not stay: the worker
\* removes them, as the test of pruning and retention expects once its reader has moved on.
Reclaimable ==
    {e \in segment_list :
       /\ ~IsBack(segment_list, e)
       /\ \A r \in DOMAIN registered_readers : e.last_lsn < registered_readers[r]}
PrunerReclaims == []<>(~up \/ is_shutdown \/ DOMAIN registered_readers = {} \/ Reclaimable = {})

-----------------------------------------------------------------------------
(* The abstract log this module implements.                                *)

RowsOf(d) ==
    UNION {{[lsn |-> d[f].frames[i].lsn, row |-> d[f].frames[i].row]
              : i \in {j \in DOMAIN d[f].frames :
                         Live(d[f].frames, j) /\ d[f].frames[j].kind = "ROW"}}
             : f \in DOMAIN d}

Log == INSTANCE RowLog WITH
         log    <- RowsOf(disk),
         issued <- nrows,
         Lossy  <- PruneWorker \/ "power" \in Faults

\* The decodable rows of the directory are such a log.  With the worker disabled, as in
\* the code, only power loss takes a row away: no crash of the process, failed write,
\* failed fsync or recovery does, and none brings one back or moves it.
ImplementsRowLog == Log!Spec
=============================================================================
