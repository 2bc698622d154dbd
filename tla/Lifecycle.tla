----------------------------- MODULE Lifecycle -----------------------------
(***************************************************************************)
(* What Recebi promises of a receivable, without a database: the life      *)
(* cycle of ReceivableState (crates/recebi-core/src/model/state.rs) and    *)
(* the rule that a finalized transaction is spent on one receivable only.  *)
(* The ledger is shown to implement it.                                    *)
(***************************************************************************)
CONSTANTS
  Receivables,  \* receivable identifiers
  Signatures    \* signatures of finalized transactions

VARIABLES
  state,  \* the state of each receivable, "absent" before it is issued
  spent   \* the signatures each receivable was settled with

vars == <<state, spent>>

Init ==
  /\ state = [id \in Receivables |-> "absent"]
  /\ spent = [id \in Receivables |-> {}]

Move(id, from, to) ==
  /\ state[id] = from
  /\ state' = [state EXCEPT ![id] = to]

Fresh(s) == \A id \in Receivables : s \notin spent[id]

Spend(id, s) ==
  /\ Fresh(s)
  /\ spent' = [spent EXCEPT ![id] = {s}]

Issue(id) == Move(id, "absent", "open") /\ UNCHANGED spent

Verify(id, s) == Move(id, "open", "payment_verified") /\ Spend(id, s)

Flag(id) == Move(id, "open", "needs_review") /\ UNCHANGED spent

Reopen(id) == Move(id, "needs_review", "open") /\ UNCHANGED spent

Cancel(id) == Move(id, "needs_review", "cancelled") /\ UNCHANGED spent

Accept(id, s) ==
  Move(id, "needs_review", "settled_with_variance") /\ Spend(id, s)

Next ==
  \E id \in Receivables :
    \/ Issue(id) \/ Flag(id) \/ Reopen(id) \/ Cancel(id)
    \/ \E s \in Signatures : Verify(id, s) \/ Accept(id, s)

Spec == Init /\ [][Next]_vars

=============================================================================
