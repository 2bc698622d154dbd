------------------------------ MODULE MCLedger ------------------------------
(***************************************************************************)
(* A small ledger for TLC: two receivables and three finalized             *)
(* transactions.  The transaction "shared" names both references and pays  *)
(* the exact amount of each, so that both receivables could claim it;      *)
(* "short" underpays both and has a block time; "odd" has none, underpays  *)
(* "a" and misses the recipient of "b".                                    *)
(***************************************************************************)
EXTENDS Ledger

MCEvidence ==
  {[id |-> "a", signature |-> "shared", verdict |-> "exact"],
   [id |-> "b", signature |-> "shared", verdict |-> "exact"],
   [id |-> "a", signature |-> "short", verdict |-> "underpayment"],
   [id |-> "b", signature |-> "short", verdict |-> "underpayment"],
   [id |-> "a", signature |-> "odd", verdict |-> "underpayment"],
   [id |-> "b", signature |-> "odd", verdict |-> "wrong_recipient"]}

=============================================================================
