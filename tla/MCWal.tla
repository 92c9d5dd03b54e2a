------------------------------- MODULE MCWal -------------------------------
(***************************************************************************)
(* Wal for TLC.  Each run's .cfg gives the constants: segments of three    *)
(* frames before the seal (four where a torn one must fit), a few rows, at *)
(* most two ends of the process, one iterator, and one of the machines     *)
(* below.                                                                  *)
(***************************************************************************)
EXTENDS Wal

\* What the machine may do wrong.
NoFaults      == {}
FsyncFails    == {"fsync"}
WritesFail    == {"write"}
WritesAndPowerFail == {"write", "power"}

\* Where the clients' iterators start: at the beginning, or inside the first segments.
FromTheStart  == {0}
FromTheMiddle == {0, 3}
=============================================================================
