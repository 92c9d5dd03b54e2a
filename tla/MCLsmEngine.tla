---------------------------- MODULE MCLsmEngine ----------------------------
(***************************************************************************)
(* LsmEngine for TLC: three clients.  One fills five files, so that a run  *)
(* goes to the bucket; one meets a failed write on the way; one opens      *)
(* iterators, on files that are there and on one that is not, and copies   *)
(* them.                                                                   *)
(***************************************************************************)
EXTENDS LsmEngine

Ranges == {<<1, 3>>, <<3, 4>>, <<2>>}

Clients == {
    [appends |-> 9, batches |-> Ranges, faults |-> 0, opens |-> 0],
    [appends |-> 6, batches |-> {<<1, 3>>, <<2>>}, faults |-> 1, opens |-> 0],
    [appends |-> 3, batches |-> {<<1, 3>>}, faults |-> 0, opens |-> 3]}
=============================================================================
