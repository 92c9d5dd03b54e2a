------------------------------- MODULE RowLog -------------------------------
(***************************************************************************)
(* What the write-ahead log promises, without segments, seals, file names  *)
(* or restarts: a set of rows under log sequence numbers.  Calls of append *)
(* are numbered, and the row of the n-th call is n.                        *)
(***************************************************************************)
EXTENDS Naturals, TLAPS

CONSTANT Lossy  \* whether rows may be lost at all: pruning, or an unsynced power loss

VARIABLES
    log,        \* the rows there are, each [lsn, row]
    issued      \* how many calls of append there were

vars == <<log, issued>>

Entry == [lsn : Nat, row : Nat]

Init ==
    /\ log = {}
    /\ issued = 0

\* A call of append adds its row above every row there is...
Add ==
    /\ issued' = issued + 1
    /\ \E e \in log' :
         /\ e \in Entry
         /\ e.row = issued'
         /\ \A d \in log : d.lsn < e.lsn
         /\ log' = log \cup {e}

\* ... or none: it failed, the process died in it, or damage in front of it hides it.
Refuse ==
    /\ issued' = issued + 1
    /\ log' = log

Lose ==
    /\ Lossy
    /\ log' \subseteq log
    /\ issued' = issued

Next == Add \/ Refuse \/ Lose

Spec == Init /\ [][Next]_vars

-----------------------------------------------------------------------------
\* LSN order is the order of the calls, so a row that is gone never comes back under
\* another LSN and no LSN names two rows.
AppendOrder ==
    \A d, e \in log :
       /\ d.row <= issued
       /\ d.lsn < e.lsn <=> d.row < e.row

\* AppendOrder holds of every such log; it needs the types of its entries to be inductive.
THEOREM Ordered == Spec => []AppendOrder
<1> DEFINE Inv == log \subseteq Entry /\ issued \in Nat /\ AppendOrder
<1>1. Init => Inv
  BY DEF Init, AppendOrder
<1>2. Inv /\ [Next]_vars => Inv'
  <2> SUFFICES ASSUME Inv, [Next]_vars PROVE Inv'
    OBVIOUS
  <2>1. CASE Add
    <3>1. PICK e \in Entry : /\ e.row = issued + 1
                             /\ \A d \in log : d.lsn < e.lsn
                             /\ log' = log \cup {e}
      BY <2>1 DEF Add
    <3>2. log' \subseteq Entry /\ issued' = issued + 1
      BY <2>1, <3>1 DEF Add
    <3>3. \A d \in log : d.row < e.row /\ d.lsn \in Nat /\ d.row \in Nat
      BY <3>1 DEF AppendOrder, Entry
    <3>4. AppendOrder'
      BY <3>1, <3>2, <3>3 DEF AppendOrder, Entry
    <3> QED
      BY <3>2, <3>4
  <2>2. CASE Refuse
    BY <2>2 DEF Refuse, AppendOrder, Entry
  <2>3. CASE Lose
    BY <2>3 DEF Lose, AppendOrder
  <2>4. CASE UNCHANGED vars
    BY <2>4 DEF vars, AppendOrder
  <2> QED
    BY <2>1, <2>2, <2>3, <2>4 DEF Next
<1>3. Inv => AppendOrder
  OBVIOUS
<1> QED
  BY <1>1, <1>2, <1>3, PTL DEF Spec
=============================================================================
