-------------------------- MODULE MCReconciliation --------------------------
(***************************************************************************)
(* Small instances of Reconciliation: what five finalized transactions are *)
(* to two receivables.  "shared" names both references and pays each of    *)
(* them exactly; "pay" pays a exactly; "short" underpays a; "odd" goes to  *)
(* the wrong recipient of b; "late" names a and cannot be read.            *)
(***************************************************************************)
EXTENDS Reconciliation

Outcomes(table) ==
  [id \in Receivables |->
     [s \in Signatures |->
        IF <<id, s>> \in DOMAIN table THEN table[<<id, s>>] ELSE None]]

AllOutcomes ==
  Outcomes([x \in {<<"a", "shared">>, <<"b", "shared">>, <<"a", "pay">>,
                   <<"a", "short">>, <<"b", "odd">>, <<"a", "late">>} |->
              CASE x[2] \in {"shared", "pay"} -> "exact"
                [] x[2] = "short" -> "underpayment"
                [] x[2] \in {"odd", "late"} -> "wrong_recipient"])

MCEvidence ==
  {f \in Fingerprint :
     /\ Verdict[f.id][f.signature] # None
     /\ f.verdict \in {Verdict[f.id][f.signature], "duplicate_signature",
                       "reference_reused"}}

MCKind == [w \in Workers |-> CASE w = "bg" -> "background" [] w = "hot" -> "hot"
                               [] w = "watch" -> "watch" [] w = "check" -> "check"]

=============================================================================
