---------------------------- MODULE MCMonthClose ----------------------------
(***************************************************************************)
(* A small month: one receivable, paid exactly.  The exporter "any" makes  *)
(* closes and snapshots, the other only closes.                            *)
(***************************************************************************)
EXTENDS MonthClose, TLC

MCEvidence == {[id |-> "a", signature |-> "pay", verdict |-> "exact"]}

MCModes ==
  [e \in Exporters |->
     IF e = "any" THEN {"final", "snapshot"} ELSE {"final"}]

\* No definition tells one quote from another.
Symmetry == Permutations(Quotes)

MCMonthOf == [s \in Timed |-> "m"]

=============================================================================
