------------------------------- MODULE Ledger -------------------------------
(***************************************************************************)
(* The material ledger of crates/recebi-store: the SQLite tables that      *)
(* ReceivableStore keeps and the transactions that change them.  Every     *)
(* action is one BEGIN IMMEDIATE ... COMMIT transaction, so it is atomic;  *)
(* a transaction whose guard fails rolls back and changes nothing.  The    *)
(* arguments are whatever a caller read earlier, perhaps long before.      *)
(*                                                                         *)
(* A fingerprint stands for the SHA-256 digest the code computes over the  *)
(* receivable, its reference, the transaction signature and the verdict:   *)
(* it is the record of what it covers, so two are equal only if all of     *)
(* that is.                                                                *)
(***************************************************************************)
EXTENDS Naturals, Sequences

CONSTANTS
  Receivables,    \* receivable identifiers the operator may use
  Terms,          \* recipient, mint, amount, decimals and label of a request
  References,     \* one-time Solana Pay references (random public keys)
  Signatures,     \* signatures of finalized transactions
  Timed,          \* the signatures whose transaction carries a block time
  Anomalies,      \* verdict codes recorded without amount evidence
  Evidence,       \* the fingerprints an assessment can yield on this chain
  Reasons,        \* commercial reasons for accepting an underpayment
  Quotes,         \* distinct BCB responses (response_sha256 and BRL cents)
  Months,         \* calendar months
  Artifacts,      \* canonical bytes of a month's evidence, CSV and manifest
  Receipts,       \* delivery receipts of the notification transport
  None            \* SQL NULL, or no row

Fingerprint ==
  [id : Receivables, signature : Signatures,
   verdict : {"exact", "underpayment"} \cup Anomalies]

ASSUME LedgerAssumption ==
  /\ Timed \subseteq Signatures
  /\ Evidence \subseteq Fingerprint
  /\ Anomalies \cap {"exact", "underpayment"} = {}
  /\ None \notin Terms \cup References \cup Reasons

States ==
  {"open", "payment_verified", "needs_review", "cancelled",
   "settled_with_variance"}

Settled == {"payment_verified", "settled_with_variance"}

Actions ==
  {"ignore_candidate_and_reopen", "cancel_unpaid",
   "accept_underpayment_with_variance"}

Settlement ==
  [id : Receivables, reference : References, evidence : Fingerprint,
   kind : {"exact", "accepted_underpayment"}]

Resolution ==
  [evidence : Fingerprint, action : Actions, reason : Reasons \cup {None}]

Notification ==
  [evidence : Fingerprint, status : {"payment_verified", "needs_review"}]

Event ==
  [event : {"receivable_created", "payment_verified", "needs_review",
            "valuation_attached"} \cup Actions,
   evidence : Fingerprint \cup {None}]

VARIABLES
  state,        \* receivables.state, "absent" while there is no row
  terms,        \* the other columns of receivables
  reference,    \* receivables.reference
  settlements,  \* rows of settlements
  candidates,   \* review_candidates of each receivable, in sequence order
  resolutions,  \* rows of review_resolutions
  valuations,   \* valuations.response_sha256 of each receivable
  closes,       \* month_close_revisions of each month, in revision order
  events,       \* receivable_events of each receivable, in sequence order
  root,         \* the material root the last ledger_checkpoint recorded
  outbox,       \* terminal_notifications, in id order
  receipts      \* rows of terminal_notification_deliveries

\* The tables ledger_root hashes; the outbox and its receipts are not in it.
material ==
  <<state, terms, reference, settlements, candidates, resolutions,
    valuations, closes, events>>

ledgerVars ==
  <<state, terms, reference, settlements, candidates, resolutions,
    valuations, closes, events, root, outbox, receipts>>

\* Fault: the checkpoint is computed before the transaction's last write.
CheckpointBeforeWrites == root' = material

\* append_ledger_checkpoint: the root of the tables as this transaction
\* leaves them.
AppendCheckpoint == root' = material'

\* Fault: the event does not name the evidence it is about.
AppendBareEvent(id, name, evidence) ==
  events' = [events EXCEPT ![id] =
               Append(@, [event |-> name, evidence |-> None])]

AppendEvent(id, name, evidence) ==
  events' = [events EXCEPT ![id] =
               Append(@, [event |-> name, evidence |-> evidence])]

Notify(evidence, status) ==
  outbox' = Append(outbox, [evidence |-> evidence, status |-> status])

-----------------------------------------------------------------------------
(***************************************************************************)
(* What the tables say of one receivable.                                  *)
(***************************************************************************)
Resolved(f) == \E r \in resolutions : r.evidence = f

\* Fault: the join with review_resolutions is forgotten.
LatestCandidateIgnoringResolutions(id) ==
  IF candidates[id] = <<>> THEN {} ELSE {Len(candidates[id])}

\* The latest candidate of a receivable that has no resolution: its index as
\* a set, empty when there is none.
LatestUnresolved(id) ==
  {i \in DOMAIN candidates[id] :
     /\ ~Resolved(candidates[id][i])
     /\ \A j \in DOMAIN candidates[id] :
          j > i => Resolved(candidates[id][j])}

\* The candidate review_candidate and resolve_review act on.
UnderReview(id) == {candidates[id][i] : i \in LatestUnresolved(id)}

\* Fault: UNIQUE(signature) is missing from settlements.
CollidesOnReceivableOnly(f) ==
  \E s \in settlements :
    \/ s.id = f.id
    \/ s.evidence = f
    \/ s.reference = reference[f.id]

\* A settlement row that the PRIMARY KEY or a UNIQUE column of settlements
\* refuses to have beside the row for f.
Collides(f) ==
  \E s \in settlements :
    \/ s.id = f.id
    \/ s.evidence = f
    \/ s.evidence.signature = f.signature
    \/ s.reference = reference[f.id]

Notified(f) == \E i \in DOMAIN outbox : outbox[i].evidence = f

Settle(f, kind) ==
  settlements' = settlements \cup
    {[id |-> f.id, reference |-> reference[f.id], evidence |-> f,
      kind |-> kind]}

-----------------------------------------------------------------------------
(***************************************************************************)
(* Transactions.  verify_ledger_integrity runs before each of them: a      *)
(* ledger whose last checkpoint does not match its tables serves no one.   *)
(***************************************************************************)
Intact == root = material

LedgerInit ==
  /\ state = [id \in Receivables |-> "absent"]
  /\ terms = [id \in Receivables |-> None]
  /\ reference = [id \in Receivables |-> None]
  /\ settlements = {}
  /\ candidates = [id \in Receivables |-> <<>>]
  /\ resolutions = {}
  /\ valuations = [id \in Receivables |-> None]
  /\ closes = [m \in Months |-> <<>>]
  /\ events = [id \in Receivables |-> <<>>]
  /\ root = material
  /\ outbox = <<>>
  /\ receipts = {}

\* References never met before.
Unused == {r \in References : \A other \in Receivables : reference[other] # r}

\* create_or_get on a fresh identifier.  With the same terms it returns the
\* row it finds, with its old reference; with other terms it is a conflict.
CreateOrGet(id, t, ref) ==
  /\ Intact
  /\ state[id] = "absent"
  /\ \A other \in Receivables : reference[other] # ref
  /\ state' = [state EXCEPT ![id] = "open"]
  /\ terms' = [terms EXCEPT ![id] = t]
  /\ reference' = [reference EXCEPT ![id] = ref]
  /\ AppendEvent(id, "receivable_created", None)
  /\ UNCHANGED <<settlements, candidates, resolutions, valuations, closes,
                 outbox, receipts>>
  /\ AppendCheckpoint

\* A second report of the settlement this receivable already has.
VerifyRetry(f) ==
  /\ state[f.id] = "payment_verified"
  /\ \E s \in settlements : s.id = f.id /\ s.evidence = f

\* Fault: the state read before the transaction is trusted inside it.
CanVerifyWithoutStateCheck(f) ==
  /\ state[f.id] # "absent"
  /\ ~Collides(f)
  /\ ~Notified(f)

\* Fault: a payment is accepted for a receivable with no row.
CanVerifyUnissued(f) ==
  /\ state[f.id] \in {"absent", "open"}
  /\ ~Collides(f)
  /\ ~Notified(f)

\* Fault: an exact payment settles a receivable that is under review.
CanVerifyUnderReview(f) ==
  /\ state[f.id] \in {"open", "needs_review"}
  /\ ~Collides(f)
  /\ ~Notified(f)

CanVerify(f) ==
  /\ state[f.id] = "open"
  /\ ~Collides(f)
  /\ ~Notified(f)

\* mark_payment_verified
MarkPaymentVerified(f) ==
  /\ Intact
  /\ f.verdict = "exact"
  /\ CanVerify(f)
  /\ Settle(f, "exact")
  /\ state' = [state EXCEPT ![f.id] = "payment_verified"]
  /\ AppendEvent(f.id, "payment_verified", f)
  /\ Notify(f, "payment_verified")
  /\ UNCHANGED <<terms, reference, candidates, resolutions, valuations,
                 closes, receipts>>
  /\ AppendCheckpoint

\* Fault: UNIQUE(candidate_fingerprint) and the outbox's UNIQUE are missing.
CanReviewAgain(f) == state[f.id] = "open"

CanReview(f) ==
  /\ state[f.id] = "open"
  /\ \A i \in DOMAIN candidates[f.id] : candidates[f.id][i] # f
  /\ ~Notified(f)

\* mark_needs_review and mark_underpayment_review, by way of
\* mark_review_candidate.
MarkReviewCandidate(f) ==
  /\ Intact
  /\ f.verdict # "exact"
  /\ CanReview(f)
  /\ state' = [state EXCEPT ![f.id] = "needs_review"]
  /\ candidates' = [candidates EXCEPT ![f.id] = Append(@, f)]
  /\ AppendEvent(f.id, "needs_review", f)
  /\ Notify(f, "needs_review")
  /\ UNCHANGED <<terms, reference, settlements, resolutions, valuations,
                 closes, receipts>>
  /\ AppendCheckpoint

TargetState(action) ==
  CASE action = "ignore_candidate_and_reopen" -> "open"
    [] action = "cancel_unpaid" -> "cancelled"
    [] action = "accept_underpayment_with_variance" ->
         "settled_with_variance"

ReasonFits(action, reason) ==
  (action = "accept_underpayment_with_variance") <=> (reason # None)

\* Fault: the state is checked before the recorded resolution is looked up.
ResolveRetryAfterStateCheck(f, action, reason) ==
  /\ state[f.id] = "needs_review"
  /\ [evidence |-> f, action |-> action, reason |-> reason] \in resolutions

\* A second report of a disposition already recorded; the approval run it
\* came from is not compared.
ResolveRetry(f, action, reason) ==
  /\ ReasonFits(action, reason)
  /\ [evidence |-> f, action |-> action, reason |-> reason] \in resolutions

\* Fault: an underpayment without a block time is accepted.
AcceptableUntimed(f) ==
  /\ f.verdict = "underpayment"
  /\ ~Collides(f)

Acceptable(f) ==
  /\ f.verdict = "underpayment"
  /\ f.signature \in Timed
  /\ ~Collides(f)

\* Fault: the fingerprint the operator approved is not compared with the
\* candidate that is now under review.
CanResolveStale(f, action, reason) ==
  /\ ReasonFits(action, reason)
  /\ ~Resolved(f)
  /\ state[f.id] = "needs_review"
  /\ action = "accept_underpayment_with_variance" => Acceptable(f)

CanResolve(f, action, reason) ==
  /\ ReasonFits(action, reason)
  /\ ~Resolved(f)
  /\ state[f.id] = "needs_review"
  /\ f \in UnderReview(f.id)
  /\ action = "accept_underpayment_with_variance" => Acceptable(f)

\* resolve_review.  A fingerprint of another receivable is refused, so the
\* receivable is the one the fingerprint names.
ResolveReview(f, action, reason) ==
  /\ Intact
  /\ CanResolve(f, action, reason)
  /\ resolutions' = resolutions \cup
       {[evidence |-> f, action |-> action, reason |-> reason]}
  /\ IF action = "accept_underpayment_with_variance"
     THEN Settle(f, "accepted_underpayment")
     ELSE UNCHANGED settlements
  /\ state' = [state EXCEPT ![f.id] = TargetState(action)]
  /\ AppendEvent(f.id, action, f)
  /\ UNCHANGED <<terms, reference, candidates, valuations, closes, outbox,
                 receipts>>
  /\ AppendCheckpoint

\* Fault: a second quote replaces the first.
CanValueAgain(id) == state[id] \in Settled

CanValue(id) == state[id] \in Settled /\ valuations[id] = None

\* attach_valuation; a second one succeeds only with the same quote.
AttachValuation(id, q) ==
  /\ Intact
  /\ CanValue(id)
  /\ valuations' = [valuations EXCEPT ![id] = q]
  /\ AppendEvent(id, "valuation_attached", None)
  /\ UNCHANGED <<state, terms, reference, settlements, candidates,
                 resolutions, closes, outbox, receipts>>
  /\ AppendCheckpoint

SameAsLatestClose(m, a) ==
  closes[m] # <<>> /\ closes[m][Len(closes[m])] = a

\* close_hash is UNIQUE and does not cover the revision number.
HashTaken(m, a) == \E i \in DOMAIN closes[m] : closes[m][i] = a

\* record_month_close for an exporter that saw the material root `seen`; the
\* bytes of the latest revision are returned as they are.
RecordMonthClose(m, a, seen) ==
  /\ Intact
  /\ seen = material
  /\ ~HashTaken(m, a)
  /\ closes' = [closes EXCEPT ![m] = Append(@, a)]
  /\ UNCHANGED <<state, terms, reference, settlements, candidates,
                 resolutions, valuations, events, outbox, receipts>>
  /\ AppendCheckpoint

\* The INSERT of mark_terminal_notification_delivered, which is a statement
\* of its own: notification_id is the PRIMARY KEY.
InsertReceipt(n, receipt) ==
  /\ n \in DOMAIN outbox
  /\ \A d \in receipts : d.notification # n
  /\ receipts' = receipts \cup {[notification |-> n, receipt |-> receipt]}
  /\ UNCHANGED <<state, terms, reference, settlements, candidates,
                 resolutions, valuations, closes, events, root, outbox>>

LedgerNext ==
  \/ \E id \in Receivables, t \in Terms, ref \in References :
       CreateOrGet(id, t, ref)
  \/ \E f \in Evidence : MarkPaymentVerified(f)
  \/ \E f \in Evidence : MarkReviewCandidate(f)
  \/ \E f \in Evidence, action \in Actions, reason \in Reasons \cup {None} :
       ResolveReview(f, action, reason)
  \/ \E id \in Receivables, q \in Quotes : AttachValuation(id, q)
  \/ \E m \in Months, a \in Artifacts : RecordMonthClose(m, a, root)
  \/ \E n \in DOMAIN outbox, receipt \in Receipts : InsertReceipt(n, receipt)

LedgerSpec == LedgerInit /\ [][LedgerNext]_ledgerVars

-----------------------------------------------------------------------------
(***************************************************************************)
(* Properties.                                                             *)
(***************************************************************************)

\* Every table holds rows of its own kind (the column types and CHECK
\* constraints of the schema in ReceivableStore::open).
TypeOK ==
  /\ state \in [Receivables -> States \cup {"absent"}]
  /\ terms \in [Receivables -> Terms \cup {None}]
  /\ reference \in [Receivables -> References \cup {None}]
  /\ settlements \subseteq Settlement
  /\ candidates \in [Receivables -> Seq(Evidence)]
  /\ resolutions \subseteq Resolution
  /\ valuations \in [Receivables -> Quotes \cup {None}]
  /\ closes \in [Months -> Seq(Artifacts)]
  /\ events \in [Receivables -> Seq(Event)]
  /\ outbox \in Seq(Notification)
  /\ receipts \subseteq [notification : Nat, receipt : Receipts]

\* One payment settles one receivable: no two settlements share a receivable,
\* a reference or a transaction signature, whatever transactions name several
\* references and however stale the callers are (mark_payment_verified,
\* resolve_review).
OnePaymentPerReceivable ==
  \A s1, s2 \in settlements :
    \/ s1.id = s2.id
    \/ s1.evidence.signature = s2.evidence.signature
    \/ s1.reference = s2.reference
    => s1 = s2

\* The state and the settlement of a receivable agree: payment_verified is
\* exactly an exact settlement, settled_with_variance exactly an accepted,
\* timed underpayment whose own resolution accepted it with a reason.  No
\* review path makes an inexact payment payment_verified.
StateMatchesSettlement ==
  /\ \A id \in Receivables :
       state[id] \in Settled => \E s \in settlements : s.id = id
  /\ \A s \in settlements :
       /\ s.evidence.id = s.id
       /\ s.reference = reference[s.id]
       /\ \/ /\ s.kind = "exact"
             /\ s.evidence.verdict = "exact"
             /\ state[s.id] = "payment_verified"
          \/ /\ s.kind = "accepted_underpayment"
             /\ s.evidence.verdict = "underpayment"
             /\ s.evidence.signature \in Timed
             /\ state[s.id] = "settled_with_variance"
             /\ \E r \in resolutions :
                  /\ r.evidence = s.evidence
                  /\ r.action = "accept_underpayment_with_variance"
                  /\ r.reason \in Reasons

\* A receivable is in needs_review exactly while one of its candidates has no
\* resolution, and then only the latest one has none: what check shows the
\* operator, what the operator approves and what resolve_review acts on are
\* the same candidate.
ReviewNamesTheCandidate ==
  \A id \in Receivables :
    LET open == {i \in DOMAIN candidates[id] : ~Resolved(candidates[id][i])}
    IN  open = IF state[id] = "needs_review"
               THEN {Len(candidates[id])} ELSE {}

\* The state an event leaves its receivable in.
Outcome(event) ==
  CASE event = "receivable_created" -> "open"
    [] event \in {"payment_verified", "needs_review"} -> event
    [] event \in Actions -> TargetState(event)

EventsOf(id, name) ==
  {events[id][i].evidence :
     i \in {j \in DOMAIN events[id] : events[id][j].event = name}}

\* The append-only event chain explains the mutable tables: the state of a
\* receivable is the outcome of its last event that is not a valuation, only
\* valuations follow that event, and the candidates, resolutions and
\* settlements are those its events name.
AuditExplainsLedger ==
  \A id \in Receivables :
    /\ events[id] = <<>> <=> state[id] = "absent"
    /\ events[id] # <<>> =>
         \E i \in DOMAIN events[id] :
           /\ state[id] = Outcome(events[id][i].event)
           /\ \A j \in DOMAIN events[id] :
                j > i <=> events[id][j].event = "valuation_attached"
    /\ EventsOf(id, "needs_review")
         = {candidates[id][i] : i \in DOMAIN candidates[id]}
    /\ \A action \in Actions :
         EventsOf(id, action)
           = {r.evidence : r \in {q \in resolutions :
                                    q.evidence.id = id /\ q.action = action}}
    /\ EventsOf(id, "payment_verified")
         = {s.evidence : s \in {q \in settlements :
                                  q.id = id /\ q.kind = "exact"}}

\* Every exact settlement and every review candidate is announced, once,
\* under its own fingerprint; nothing else is.
OutboxMatchesLedger ==
  /\ \A i, j \in DOMAIN outbox :
       outbox[i].evidence = outbox[j].evidence => i = j
  /\ \A f \in Evidence :
       LET exact == \E s \in settlements : s.evidence = f /\ s.kind = "exact"
           reviewed == \E i \in DOMAIN candidates[f.id] :
                         candidates[f.id][i] = f
           announced(status) == \E i \in DOMAIN outbox :
                outbox[i] = [evidence |-> f, status |-> status]
       IN  /\ announced("payment_verified") <=> exact
           /\ announced("needs_review") <=> reviewed

\* The last checkpoint matches the tables after every transaction: a mutation
\* that forgot its checkpoint would make every later call fail closed with
\* Integrity (verify_ledger_integrity).
CheckpointIsCurrent == root = material

\* A caller that lost the answer may ask again, at any later time: resolving
\* with the same action and reason, or reporting the settlement the
\* receivable has, still succeeds, whatever happened to the receivable since.
RetriesSucceed ==
  /\ \A r \in resolutions : ResolveRetry(r.evidence, r.action, r.reason)
  /\ \A s \in settlements : s.kind = "exact" => VerifyRetry(s.evidence)

\* A disposition is final.  A receivable goes back under review only for a
\* candidate never recorded before, and a settled or cancelled one never
\* changes its state again, although callers act on what they read before.
DispositionsAreFinal ==
  [][/\ \A id \in Receivables :
          state[id] # "needs_review" /\ state'[id] = "needs_review"
          => \E f \in Evidence :
               /\ f.id = id
               /\ ~Notified(f)
               /\ candidates'[id] = Append(candidates[id], f)
     /\ \A id \in Receivables :
          state[id] \in Settled \cup {"cancelled"} => state'[id] = state[id]
    ]_ledgerVars

\* The ledger implements the life cycle: whatever stale callers ask for, each
\* transaction moves at most one receivable along one edge of the cycle, and
\* a settlement spends a signature nobody has spent.
Spent(id) ==
  {s.evidence.signature : s \in {q \in settlements : q.id = id}}

Life == INSTANCE Lifecycle WITH
          spent <- [id \in Receivables |-> Spent(id)]

LifecyclePromise == Life!Spec

=============================================================================
