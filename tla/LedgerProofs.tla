---------------------------- MODULE LedgerProofs ----------------------------
(***************************************************************************)
(* Theorems of the ledger, for every set of receivables, transactions,     *)
(* verdicts, quotes, months and artifacts.                                 *)
(***************************************************************************)
EXTENDS Ledger, TLAPS

\* What a fingerprint is made of.
LEMMA EvidenceFields ==
  ASSUME NEW f \in Evidence
  PROVE  /\ f \in Fingerprint
         /\ f.id \in Receivables
         /\ f.signature \in Signatures
  BY LedgerAssumption DEF Fingerprint

\* Each action's target is one of the declared states.
LEMMA TargetStates ==
  ASSUME NEW action \in Actions
  PROVE  /\ TargetState(action) \in {"open", "cancelled",
                                     "settled_with_variance"}
         /\ TargetState(action) = "settled_with_variance"
              <=> action = "accept_underpayment_with_variance"
  BY DEF TargetState, Actions

-----------------------------------------------------------------------------
(***************************************************************************)
(* Types.                                                                  *)
(***************************************************************************)

\* A row appended to the event chain keeps its type.
LEMMA EventsType ==
  ASSUME TypeOK, NEW id \in Receivables,
         NEW name \in {"receivable_created", "payment_verified",
                       "needs_review", "valuation_attached"} \cup Actions,
         NEW evidence \in Fingerprint \cup {None},
         AppendEvent(id, name, evidence)
  PROVE  events' \in [Receivables -> Seq(Event)]
<1>1. [event |-> name, evidence |-> evidence] \in Event
  BY DEF Event
<1>2. Append(events[id], [event |-> name, evidence |-> evidence]) \in Seq(Event)
  BY <1>1 DEF TypeOK
<1> QED
  BY <1>2 DEF TypeOK, AppendEvent

\* A settlement row keeps its type once the receivable has a reference.
LEMMA SettleType ==
  ASSUME TypeOK, NEW f \in Evidence,
         NEW kind \in {"exact", "accepted_underpayment"},
         reference[f.id] \in References,
         Settle(f, kind)
  PROVE  settlements' \subseteq Settlement
<1>1. [id |-> f.id, reference |-> reference[f.id], evidence |-> f,
       kind |-> kind] \in Settlement
  BY EvidenceFields DEF Settlement
<1> QED
  BY <1>1 DEF Settle, TypeOK

\* A receivable with a row has a reference.
Issued ==
  \A id \in Receivables : state[id] # "absent" => reference[id] \in References

TypeInv == TypeOK /\ Issued

LEMMA TypeInit == LedgerInit => TypeInv
  BY DEF LedgerInit, TypeInv, TypeOK, Issued, States

LEMMA TypeCreate ==
  ASSUME TypeInv, NEW id \in Receivables, NEW t \in Terms,
         NEW ref \in References, CreateOrGet(id, t, ref)
  PROVE  TypeInv'
<1> USE DEF TypeInv, CreateOrGet
<1>1. events' \in [Receivables -> Seq(Event)]
  BY EventsType
<1>2. TypeOK'
  BY <1>1 DEF TypeOK, States
<1>3. Issued'
  BY DEF Issued, TypeOK
<1> QED
  BY <1>2, <1>3

LEMMA TypeVerify ==
  ASSUME TypeInv, NEW f \in Evidence, MarkPaymentVerified(f)
  PROVE  TypeInv'
<1> USE DEF TypeInv, MarkPaymentVerified
<1>1. f \in Fingerprint /\ f.id \in Receivables
  BY EvidenceFields
<1>2. events' \in [Receivables -> Seq(Event)]
  BY <1>1, EventsType
<1>3. settlements' \subseteq Settlement
  BY <1>1, SettleType DEF CanVerify, Issued
<1>4. outbox' \in Seq(Notification)
  BY <1>1 DEF Notify, Notification, TypeOK
<1>5. TypeOK'
  BY <1>1, <1>2, <1>3, <1>4 DEF TypeOK, States
<1>6. Issued'
  BY <1>1 DEF Issued, TypeOK, CanVerify
<1> QED
  BY <1>5, <1>6

LEMMA TypeReview ==
  ASSUME TypeInv, NEW f \in Evidence, MarkReviewCandidate(f)
  PROVE  TypeInv'
<1> USE DEF TypeInv, MarkReviewCandidate
<1>1. f \in Fingerprint /\ f.id \in Receivables
  BY EvidenceFields
<1>2. events' \in [Receivables -> Seq(Event)]
  BY <1>1, EventsType
<1>3. candidates' \in [Receivables -> Seq(Evidence)]
  BY <1>1 DEF TypeOK
<1>4. outbox' \in Seq(Notification)
  BY <1>1 DEF Notify, Notification, TypeOK
<1>5. TypeOK'
  BY <1>1, <1>2, <1>3, <1>4 DEF TypeOK, States
<1>6. Issued'
  BY <1>1 DEF Issued, TypeOK, CanReview
<1> QED
  BY <1>5, <1>6

LEMMA TypeResolve ==
  ASSUME TypeInv, NEW f \in Evidence, NEW action \in Actions,
         NEW reason \in Reasons \cup {None}, ResolveReview(f, action, reason)
  PROVE  TypeInv'
<1> USE DEF TypeInv, ResolveReview
<1>1. f \in Fingerprint /\ f.id \in Receivables
  BY EvidenceFields
<1>2. events' \in [Receivables -> Seq(Event)]
  BY <1>1, EventsType
<1>3. settlements' \subseteq Settlement
  BY <1>1, SettleType DEF CanResolve, Issued, TypeOK
<1>4. resolutions' \subseteq Resolution
  BY <1>1 DEF Resolution, TypeOK
<1>5. state' \in [Receivables -> States \cup {"absent"}]
  BY <1>1, TargetStates DEF TypeOK, States
<1>6. TypeOK'
  BY <1>2, <1>3, <1>4, <1>5 DEF TypeOK
<1>7. Issued'
  BY <1>1 DEF Issued, TypeOK, CanResolve
<1> QED
  BY <1>6, <1>7

LEMMA TypeValue ==
  ASSUME TypeInv, NEW id \in Receivables, NEW q \in Quotes,
         AttachValuation(id, q)
  PROVE  TypeInv'
<1> USE DEF TypeInv, AttachValuation
<1>1. events' \in [Receivables -> Seq(Event)]
  BY EventsType
<1>2. TypeOK'
  BY <1>1 DEF TypeOK
<1>3. Issued'
  BY DEF Issued
<1> QED
  BY <1>2, <1>3

LEMMA TypeClose ==
  ASSUME TypeInv, NEW m \in Months, NEW a \in Artifacts, NEW seen,
         RecordMonthClose(m, a, seen)
  PROVE  TypeInv'
<1> USE DEF TypeInv, RecordMonthClose
<1>1. closes' \in [Months -> Seq(Artifacts)]
  BY DEF TypeOK
<1>2. TypeOK'
  BY <1>1 DEF TypeOK
<1>3. Issued'
  BY DEF Issued
<1> QED
  BY <1>2, <1>3

LEMMA TypeReceipt ==
  ASSUME TypeInv, NEW n \in DOMAIN outbox, NEW receipt \in Receipts,
         InsertReceipt(n, receipt)
  PROVE  TypeInv'
<1> USE DEF TypeInv, InsertReceipt
<1>1. n \in Nat
  BY DEF TypeOK
<1>2. TypeOK'
  BY <1>1 DEF TypeOK
<1>3. Issued'
  BY DEF Issued
<1> QED
  BY <1>2, <1>3

LEMMA TypeStep == TypeInv /\ [LedgerNext]_ledgerVars => TypeInv'
<1> SUFFICES ASSUME TypeInv, [LedgerNext]_ledgerVars PROVE TypeInv'
  OBVIOUS
<1>1. CASE UNCHANGED ledgerVars
  BY <1>1 DEF TypeInv, TypeOK, Issued, ledgerVars
<1>2. CASE LedgerNext
  BY <1>2, TypeCreate, TypeVerify, TypeReview, TypeResolve, TypeValue,
     TypeClose, TypeReceipt DEF LedgerNext
<1> QED
  BY <1>1, <1>2

\* Whatever transactions run, in whatever order, every table keeps the type
\* its schema declares (ReceivableStore::open).
THEOREM LedgerTypes == LedgerSpec => []TypeOK
<1>1. TypeInv => TypeOK
  BY DEF TypeInv
<1> QED
  BY <1>1, TypeInit, TypeStep, PTL DEF LedgerSpec

-----------------------------------------------------------------------------
(***************************************************************************)
(* What a transaction never takes back.                                    *)
(***************************************************************************)

\* Sequences that only grow.
Extended(s, t) ==
  \A n \in DOMAIN s : n \in DOMAIN t /\ t[n] = s[n]

LEMMA AppendExtends ==
  ASSUME NEW S, NEW s \in Seq(S), NEW e \in S
  PROVE  Extended(s, Append(s, e))
  BY DEF Extended

LEMMA SelfExtended ==
  ASSUME NEW s
  PROVE  Extended(s, s)
  BY DEF Extended

\* The rows of settlements, resolutions and receipts and the lists of
\* candidates, events, closes and notifications are only added to, and a
\* valuation is never replaced.
AppendsOnly ==
  /\ settlements \subseteq settlements'
  /\ resolutions \subseteq resolutions'
  /\ receipts \subseteq receipts'
  /\ \A id \in Receivables :
       /\ Extended(candidates[id], candidates'[id])
       /\ Extended(events[id], events'[id])
       /\ valuations[id] # None => valuations'[id] = valuations[id]
  /\ \A m \in Months : Extended(closes[m], closes'[m])
  /\ Extended(outbox, outbox')

\* One list of several grows by a row.
LEMMA ListGrows ==
  ASSUME NEW S, NEW K, NEW f \in [K -> Seq(S)], NEW key \in K, NEW e \in S,
         NEW k \in K
  PROVE  Extended(f[k], [f EXCEPT ![key] = Append(f[key], e)][k])
<1>1. CASE k = key
  BY <1>1, AppendExtends
<1>2. CASE k # key
  BY <1>2, SelfExtended
<1> QED
  BY <1>1, <1>2

LEMMA EventsGrow ==
  ASSUME TypeOK, NEW key \in Receivables,
         NEW name \in {"receivable_created", "payment_verified",
                       "needs_review", "valuation_attached"} \cup Actions,
         NEW evidence \in Fingerprint \cup {None},
         AppendEvent(key, name, evidence)
  PROVE  \A id \in Receivables : Extended(events[id], events'[id])
<1> DEFINE e == [event |-> name, evidence |-> evidence]
<1>1. e \in Event
  BY DEF Event
<1>2. /\ events \in [Receivables -> Seq(Event)]
      /\ events' = [events EXCEPT ![key] = Append(events[key], e)]
  BY DEF TypeOK, AppendEvent
<1> HIDE DEF e
<1> SUFFICES ASSUME NEW id \in Receivables
             PROVE  Extended(events[id], events'[id])
  OBVIOUS
<1>3. Extended(events[id],
               [events EXCEPT ![key] = Append(events[key], e)][id])
  BY <1>1, <1>2, ListGrows
<1> QED
  BY <1>2, <1>3

LEMMA OutboxOnlyGrows ==
  ASSUME TypeOK, NEW f \in Evidence,
         NEW status \in {"payment_verified", "needs_review"},
         Notify(f, status)
  PROVE  Extended(outbox, outbox')
<1>1. [evidence |-> f, status |-> status] \in Notification
  BY EvidenceFields DEF Notification
<1> QED
  BY <1>1, AppendExtends DEF TypeOK, Notify

LEMMA LedgerGrows ==
  ASSUME TypeInv, [LedgerNext]_ledgerVars
  PROVE  AppendsOnly
<1> USE DEF TypeInv
<1>1. ASSUME NEW id \in Receivables, NEW t \in Terms, NEW ref \in References,
             CreateOrGet(id, t, ref)
      PROVE  AppendsOnly
  <2>1. \A i \in Receivables : Extended(events[i], events'[i])
    BY <1>1, EventsGrow DEF CreateOrGet
  <2> QED
    BY <1>1, <2>1, SelfExtended DEF CreateOrGet, AppendsOnly
<1>2. ASSUME NEW f \in Evidence, MarkPaymentVerified(f)
      PROVE  AppendsOnly
  <2>1. \A i \in Receivables : Extended(events[i], events'[i])
    BY <1>2, EventsGrow, EvidenceFields DEF MarkPaymentVerified
  <2>2. Extended(outbox, outbox')
    BY <1>2, OutboxOnlyGrows DEF MarkPaymentVerified
  <2> QED
    BY <1>2, <2>1, <2>2, SelfExtended
    DEF MarkPaymentVerified, AppendsOnly, Settle
<1>3. ASSUME NEW f \in Evidence, MarkReviewCandidate(f)
      PROVE  AppendsOnly
  <2>1. \A i \in Receivables : Extended(events[i], events'[i])
    BY <1>3, EventsGrow, EvidenceFields DEF MarkReviewCandidate
  <2>2. Extended(outbox, outbox')
    BY <1>3, OutboxOnlyGrows DEF MarkReviewCandidate
  <2>3. \A i \in Receivables : Extended(candidates[i], candidates'[i])
    <3>1. /\ candidates \in [Receivables -> Seq(Evidence)]
          /\ f.id \in Receivables
          /\ candidates' = [candidates EXCEPT
                              ![f.id] = Append(candidates[f.id], f)]
      BY <1>3, EvidenceFields DEF MarkReviewCandidate, TypeOK
    <3>2. ASSUME NEW i \in Receivables
          PROVE  Extended(candidates[i],
                          [candidates EXCEPT
                             ![f.id] = Append(candidates[f.id], f)][i])
      BY <3>1, ListGrows
    <3> QED
      BY <3>1, <3>2
  <2> QED
    BY <1>3, <2>1, <2>2, <2>3, SelfExtended
    DEF MarkReviewCandidate, AppendsOnly
<1>4. ASSUME NEW f \in Evidence, NEW action \in Actions,
             NEW reason \in Reasons \cup {None},
             ResolveReview(f, action, reason)
      PROVE  AppendsOnly
  <2>1. \A i \in Receivables : Extended(events[i], events'[i])
    BY <1>4, EventsGrow, EvidenceFields DEF ResolveReview
  <2>2. settlements \subseteq settlements'
    BY <1>4 DEF ResolveReview, Settle
  <2> QED
    BY <1>4, <2>1, <2>2, SelfExtended DEF ResolveReview, AppendsOnly
<1>5. ASSUME NEW id \in Receivables, NEW q \in Quotes, AttachValuation(id, q)
      PROVE  AppendsOnly
  <2>1. \A i \in Receivables : Extended(events[i], events'[i])
    BY <1>5, EventsGrow DEF AttachValuation
  <2>2. \A i \in Receivables :
          valuations[i] # None => valuations'[i] = valuations[i]
    BY <1>5 DEF AttachValuation, CanValue, TypeOK
  <2> QED
    BY <1>5, <2>1, <2>2, SelfExtended DEF AttachValuation, AppendsOnly
<1>6. ASSUME NEW m \in Months, NEW a \in Artifacts,
             RecordMonthClose(m, a, root)
      PROVE  AppendsOnly
  <2>1. \A k \in Months : Extended(closes[k], closes'[k])
    <3>1. /\ closes \in [Months -> Seq(Artifacts)]
          /\ closes' = [closes EXCEPT ![m] = Append(closes[m], a)]
      BY <1>6 DEF RecordMonthClose, TypeOK
    <3>2. ASSUME NEW k \in Months
          PROVE  Extended(closes[k],
                          [closes EXCEPT ![m] = Append(closes[m], a)][k])
      BY <3>1, ListGrows
    <3> QED
      BY <3>1, <3>2
  <2> QED
    BY <1>6, <2>1, SelfExtended DEF RecordMonthClose, AppendsOnly
<1>7. ASSUME NEW n \in DOMAIN outbox, NEW receipt \in Receipts,
             InsertReceipt(n, receipt)
      PROVE  AppendsOnly
  BY <1>7, SelfExtended DEF InsertReceipt, AppendsOnly
<1>8. CASE UNCHANGED ledgerVars
  BY <1>8, SelfExtended DEF ledgerVars, AppendsOnly
<1> QED
  BY <1>1, <1>2, <1>3, <1>4, <1>5, <1>6, <1>7, <1>8 DEF LedgerNext

\* What the tables once said they say for ever: no transaction rewrites or
\* deletes a settlement, a disposition, a candidate, an event, a valuation,
\* a close, a notification or a receipt (ReceivableStore::open also guards
\* these tables with append_only triggers, all but settlements).
THEOREM LedgerAppendsOnly == LedgerSpec => [][AppendsOnly]_ledgerVars
  BY TypeInit, TypeStep, LedgerGrows, PTL DEF LedgerSpec

-----------------------------------------------------------------------------
(***************************************************************************)
(* Settlements.  OnePaymentPerReceivable and StateMatchesSettlement are    *)
(* inductive together with the types: a transaction that settles finds its *)
(* receivable open or under review, so by StateMatchesSettlement it has no *)
(* settlement yet, and the keys of the table refuse the rest.              *)
(***************************************************************************)
SettlementInv == TypeInv /\ OnePaymentPerReceivable /\ StateMatchesSettlement

LEMMA SettlementInit == LedgerInit => SettlementInv
<1> SUFFICES ASSUME LedgerInit PROVE SettlementInv
  OBVIOUS
<1>1. OnePaymentPerReceivable /\ StateMatchesSettlement
  BY DEF LedgerInit, OnePaymentPerReceivable, StateMatchesSettlement, Settled
<1> QED
  BY <1>1, TypeInit DEF SettlementInv

\* A row the keys accept is the only one of its receivable, its signature and
\* its reference.
LEMMA SettleIsUnique ==
  ASSUME OnePaymentPerReceivable, NEW f \in Evidence, NEW kind,
         ~Collides(f), Settle(f, kind)
  PROVE  OnePaymentPerReceivable'
<1> DEFINE row == [id |-> f.id, reference |-> reference[f.id],
                   evidence |-> f, kind |-> kind]
<1>1. settlements' = settlements \cup {row}
  BY DEF Settle
<1>2. \A s \in settlements :
        /\ s.id # row.id
        /\ s.evidence.signature # row.evidence.signature
        /\ s.reference # row.reference
  BY DEF Collides
<1> HIDE DEF row
<1> QED
  BY <1>1, <1>2 DEF OnePaymentPerReceivable

\* A transaction that writes no settlement and moves only receivables that
\* have none leaves the agreement alone.
LEMMA UnsettledMoves ==
  ASSUME StateMatchesSettlement,
         UNCHANGED settlements,
         resolutions \subseteq resolutions',
         \A id \in Receivables : state'[id] \in Settled => state'[id] = state[id],
         \A s \in settlements : /\ state'[s.id] = state[s.id]
                                /\ reference'[s.id] = reference[s.id]
  PROVE  StateMatchesSettlement'
<1>1. \A id \in Receivables :
        state'[id] \in Settled => \E s \in settlements' : s.id = id
  BY DEF StateMatchesSettlement
<1>2. ASSUME NEW s \in settlements'
      PROVE  /\ s.evidence.id = s.id
             /\ s.reference = reference'[s.id]
             /\ \/ /\ s.kind = "exact"
                   /\ s.evidence.verdict = "exact"
                   /\ state'[s.id] = "payment_verified"
                \/ /\ s.kind = "accepted_underpayment"
                   /\ s.evidence.verdict = "underpayment"
                   /\ s.evidence.signature \in Timed
                   /\ state'[s.id] = "settled_with_variance"
                   /\ \E r \in resolutions' :
                        /\ r.evidence = s.evidence
                        /\ r.action = "accept_underpayment_with_variance"
                        /\ r.reason \in Reasons
  BY DEF StateMatchesSettlement
<1> QED
  BY <1>1, <1>2 DEF StateMatchesSettlement

\* Settled receivables are in one of two states.
LEMMA SettlementStates ==
  ASSUME TypeOK, StateMatchesSettlement, NEW s \in settlements
  PROVE  s.id \in Receivables /\ state[s.id] \in Settled
  BY DEF TypeOK, Settlement, StateMatchesSettlement, Settled

\* A settled receivable has a row after its own row is added.
LEMMA SettledHaveRows ==
  ASSUME StateMatchesSettlement, TypeOK,
         NEW key \in Receivables, NEW value, NEW row,
         row.id = key,
         settlements' = settlements \cup {row},
         state' = [state EXCEPT ![key] = value]
  PROVE  \A id \in Receivables :
           state'[id] \in Settled => \E s \in settlements' : s.id = id
<1> SUFFICES ASSUME NEW id \in Receivables, state'[id] \in Settled
             PROVE  \E s \in settlements' : s.id = id
  OBVIOUS
<1>1. CASE id = key
  BY <1>1
<1>2. CASE id # key
  <2>1. state'[id] = state[id]
    BY <1>2 DEF TypeOK
  <2>2. PICK s \in settlements : s.id = id
    BY <2>1 DEF StateMatchesSettlement
  <2> QED
    BY <2>2
<1> QED
  BY <1>1, <1>2

LEMMA SettlementVerify ==
  ASSUME SettlementInv, NEW f \in Evidence, MarkPaymentVerified(f)
  PROVE  OnePaymentPerReceivable' /\ StateMatchesSettlement'
<1> USE DEF SettlementInv, TypeInv
<1> DEFINE row == [id |-> f.id, reference |-> reference[f.id],
                   evidence |-> f, kind |-> "exact"]
<1>1. f.id \in Receivables
  BY EvidenceFields
<1>2. settlements' = settlements \cup {row}
  BY DEF MarkPaymentVerified, Settle
<1>3. \A s \in settlements : s.id \in Receivables /\ s.id # f.id
  BY SettlementStates DEF MarkPaymentVerified, CanVerify, Settled
<1>4. state' = [state EXCEPT ![f.id] = "payment_verified"]
      /\ reference' = reference /\ resolutions' = resolutions
  BY DEF MarkPaymentVerified
<1>5. state \in [Receivables -> States \cup {"absent"}]
  BY DEF TypeOK
<1>6. f.verdict = "exact"
  BY DEF MarkPaymentVerified
<1>7. \A id \in Receivables :
        state'[id] \in Settled => \E s \in settlements' : s.id = id
  BY <1>1, <1>2, <1>4, SettledHaveRows
<1>8. /\ row.evidence.id = row.id
      /\ row.reference = reference'[row.id]
      /\ row.kind = "exact"
      /\ row.evidence.verdict = "exact"
      /\ state'[row.id] = "payment_verified"
  BY <1>1, <1>4, <1>5, <1>6
<1>9. \A s \in settlements : state'[s.id] = state[s.id]
  BY <1>1, <1>3, <1>4, <1>5
<1>10. StateMatchesSettlement'
  <2> HIDE DEF row
  <2> QED
    BY <1>2, <1>4, <1>7, <1>8, <1>9 DEF StateMatchesSettlement
<1>11. OnePaymentPerReceivable'
  BY SettleIsUnique DEF MarkPaymentVerified, CanVerify
<1> QED
  BY <1>10, <1>11

LEMMA SettlementResolve ==
  ASSUME SettlementInv, NEW f \in Evidence, NEW action \in Actions,
         NEW reason \in Reasons \cup {None}, ResolveReview(f, action, reason)
  PROVE  OnePaymentPerReceivable' /\ StateMatchesSettlement'
<1> USE DEF SettlementInv, TypeInv
<1> DEFINE accept == action = "accept_underpayment_with_variance"
           row == [id |-> f.id, reference |-> reference[f.id],
                   evidence |-> f, kind |-> "accepted_underpayment"]
           disposition == [evidence |-> f, action |-> action,
                           reason |-> reason]
<1>1. f.id \in Receivables
  BY EvidenceFields
<1>2. state' = [state EXCEPT ![f.id] = TargetState(action)]
      /\ reference' = reference
      /\ resolutions' = resolutions \cup {disposition}
  BY DEF ResolveReview
<1>3. state \in [Receivables -> States \cup {"absent"}]
  BY DEF TypeOK
<1>4. \A s \in settlements : s.id \in Receivables /\ s.id # f.id
  BY SettlementStates DEF ResolveReview, CanResolve, Settled
<1>5. \A s \in settlements : state'[s.id] = state[s.id]
  BY <1>1, <1>2, <1>3, <1>4
<1>6. CASE ~accept
  <2>1. UNCHANGED settlements
    BY <1>6 DEF ResolveReview
  <2>2. \A id \in Receivables :
          state'[id] \in Settled => state'[id] = state[id]
    BY <1>1, <1>2, <1>3, <1>6, TargetStates DEF Settled
  <2>3. StateMatchesSettlement'
    BY <1>2, <1>5, <2>1, <2>2, UnsettledMoves
  <2>4. OnePaymentPerReceivable'
    BY <2>1 DEF OnePaymentPerReceivable
  <2> QED
    BY <2>3, <2>4
<1>7. CASE accept
  <2>1. settlements' = settlements \cup {row}
        /\ Settle(f, "accepted_underpayment")
    BY <1>7 DEF ResolveReview, Settle
  <2>2. Acceptable(f) /\ reason # None
    BY <1>7 DEF ResolveReview, CanResolve, ReasonFits
  <2>3. OnePaymentPerReceivable'
    BY <2>1, <2>2, SettleIsUnique DEF Acceptable
  <2>4. state'[f.id] = "settled_with_variance"
    BY <1>1, <1>2, <1>3, <1>7, TargetStates
  <2>5. \A id \in Receivables :
          state'[id] \in Settled => \E s \in settlements' : s.id = id
    BY <1>1, <1>2, <2>1, SettledHaveRows
  <2>6. /\ disposition.evidence = row.evidence
        /\ disposition.action = "accept_underpayment_with_variance"
        /\ disposition.reason \in Reasons
        /\ disposition \in resolutions'
    BY <1>2, <1>7, <2>2
  <2>7. /\ row.evidence.id = row.id
        /\ row.reference = reference'[row.id]
        /\ row.kind = "accepted_underpayment"
        /\ row.evidence.verdict = "underpayment"
        /\ row.evidence.signature \in Timed
        /\ state'[row.id] = "settled_with_variance"
    BY <1>2, <2>2, <2>4 DEF Acceptable
  <2>8. resolutions \subseteq resolutions'
    BY <1>2
  <2>9. StateMatchesSettlement'
    <3> HIDE DEF row, disposition
    <3> QED
      BY <1>2, <1>5, <2>1, <2>5, <2>6, <2>7, <2>8
      DEF StateMatchesSettlement
  <2> QED
    BY <2>3, <2>9
<1> QED
  BY <1>6, <1>7

\* The transactions that write no settlement.
LEMMA SettlementOthers ==
  ASSUME SettlementInv,
         \/ \E id \in Receivables, t \in Terms, ref \in References :
              CreateOrGet(id, t, ref)
         \/ \E f \in Evidence : MarkReviewCandidate(f)
         \/ \E id \in Receivables, q \in Quotes : AttachValuation(id, q)
         \/ \E m \in Months, a \in Artifacts : RecordMonthClose(m, a, root)
         \/ \E n \in DOMAIN outbox, receipt \in Receipts :
              InsertReceipt(n, receipt)
         \/ UNCHANGED ledgerVars
  PROVE  OnePaymentPerReceivable' /\ StateMatchesSettlement'
<1> USE DEF SettlementInv, TypeInv
<1>1. UNCHANGED <<settlements, resolutions>>
  BY DEF CreateOrGet, MarkReviewCandidate, AttachValuation, RecordMonthClose,
         InsertReceipt, ledgerVars
<1>2. \A s \in settlements : s.id \in Receivables /\ state[s.id] \in Settled
  BY SettlementStates
<1>3. /\ \A id \in Receivables :
           state'[id] \in Settled => state'[id] = state[id]
      /\ \A s \in settlements : /\ state'[s.id] = state[s.id]
                                /\ reference'[s.id] = reference[s.id]
  <2>1. CASE \E id \in Receivables, t \in Terms, ref \in References :
               CreateOrGet(id, t, ref)
    BY <2>1, <1>2 DEF CreateOrGet, TypeOK, Settled
  <2>2. CASE \E f \in Evidence : MarkReviewCandidate(f)
    BY <2>2, <1>2, EvidenceFields
    DEF MarkReviewCandidate, CanReview, TypeOK, Settled
  <2>3. CASE UNCHANGED <<state, reference>>
    BY <2>3
  <2> QED
    BY <2>1, <2>2, <2>3 DEF AttachValuation, RecordMonthClose, InsertReceipt,
       ledgerVars
<1>4. StateMatchesSettlement'
  BY <1>1, <1>3, UnsettledMoves
<1>5. OnePaymentPerReceivable'
  BY <1>1 DEF OnePaymentPerReceivable
<1> QED
  BY <1>4, <1>5

LEMMA SettlementStep ==
  SettlementInv /\ [LedgerNext]_ledgerVars => SettlementInv'
<1> SUFFICES ASSUME SettlementInv, [LedgerNext]_ledgerVars
             PROVE  SettlementInv'
  OBVIOUS
<1>1. TypeInv'
  BY TypeStep DEF SettlementInv
<1>2. OnePaymentPerReceivable' /\ StateMatchesSettlement'
  BY SettlementVerify, SettlementResolve, SettlementOthers DEF LedgerNext
<1> QED
  BY <1>1, <1>2 DEF SettlementInv

LEMMA SettlementAlways == LedgerSpec => []SettlementInv
  BY SettlementInit, SettlementStep, PTL DEF LedgerSpec

\* No transaction, reference or receivable is settled twice, whatever callers
\* read before and however their transactions interleave.
THEOREM PaymentsAreSpentOnce == LedgerSpec => []OnePaymentPerReceivable
<1>1. SettlementInv => OnePaymentPerReceivable
  BY DEF SettlementInv
<1> QED
  BY <1>1, SettlementAlways, PTL

\* The state of a receivable and its settlement always agree; in particular
\* only an exact transfer makes a receivable payment_verified.
THEOREM StatesMatchSettlements == LedgerSpec => []StateMatchesSettlement
<1>1. SettlementInv => StateMatchesSettlement
  BY DEF SettlementInv
<1> QED
  BY <1>1, SettlementAlways, PTL

-----------------------------------------------------------------------------
(***************************************************************************)
(* The ledger implements the life cycle.  Every transaction is one of its  *)
(* steps or leaves the mapped variables alone.                             *)
(***************************************************************************)

\* A transaction that writes no settlement spends nothing.
LEMMA NothingSpent ==
  ASSUME UNCHANGED settlements
  PROVE  [id \in Receivables |-> Spent(id)]'
           = [id \in Receivables |-> Spent(id)]
  BY DEF Spent

\* A settlement spends one signature, which nobody had spent.
LEMMA SettlementSpends ==
  ASSUME SettlementInv, NEW f \in Evidence, NEW kind,
         ~Collides(f), Settle(f, kind)
  PROVE  /\ \A id \in Receivables : f.signature \notin Spent(id)
         /\ [id \in Receivables |-> Spent(id)]'
              = [[id \in Receivables |-> Spent(id)]
                   EXCEPT ![f.id] = {f.signature}]
<1> DEFINE row == [id |-> f.id, reference |-> reference[f.id],
                   evidence |-> f, kind |-> kind]
<1>1. f.id \in Receivables
  BY EvidenceFields
<1>2. settlements' = settlements \cup {row}
  BY DEF Settle
<1>3. \A s \in settlements :
        s.id # f.id /\ s.evidence.signature # f.signature
  BY DEF Collides
<1>4. row.id = f.id /\ row.evidence.signature = f.signature
  OBVIOUS
<1> HIDE DEF row
<1>5. \A id \in Receivables : f.signature \notin Spent(id)
  BY <1>3 DEF Spent
<1>6. Spent(f.id)' = {f.signature}
  BY <1>2, <1>3, <1>4 DEF Spent
<1>7. ASSUME NEW id \in Receivables, id # f.id
      PROVE  Spent(id)' = Spent(id)
  BY <1>2, <1>4, <1>7 DEF Spent
<1> QED
  BY <1>1, <1>5, <1>6, <1>7

LEMMA LifecycleInit == LedgerInit => Life!Init
  BY DEF LedgerInit, Life!Init, Spent

LEMMA LifecycleVerify ==
  ASSUME SettlementInv, NEW f \in Evidence, MarkPaymentVerified(f)
  PROVE  Life!Next
<1>1. f.id \in Receivables /\ f.signature \in Signatures
  BY EvidenceFields
<1>2. /\ \A id \in Receivables : f.signature \notin Spent(id)
      /\ [id \in Receivables |-> Spent(id)]'
           = [[id \in Receivables |-> Spent(id)]
                EXCEPT ![f.id] = {f.signature}]
  BY SettlementSpends DEF MarkPaymentVerified, CanVerify
<1>3. Life!Move(f.id, "open", "payment_verified")
  BY DEF Life!Move, MarkPaymentVerified, CanVerify
<1>4. Life!Verify(f.id, f.signature)
  BY <1>2, <1>3 DEF Life!Verify, Life!Spend, Life!Fresh
<1> QED
  BY <1>1, <1>4 DEF Life!Next

LEMMA LifecycleResolve ==
  ASSUME SettlementInv, NEW f \in Evidence, NEW action \in Actions,
         NEW reason \in Reasons \cup {None}, ResolveReview(f, action, reason)
  PROVE  Life!Next
<1>1. f.id \in Receivables /\ f.signature \in Signatures
  BY EvidenceFields
<1>2. Life!Move(f.id, "needs_review", TargetState(action))
  BY DEF Life!Move, ResolveReview, CanResolve
<1>3. CASE action = "accept_underpayment_with_variance"
  <2>1. /\ \A id \in Receivables : f.signature \notin Spent(id)
        /\ [id \in Receivables |-> Spent(id)]'
             = [[id \in Receivables |-> Spent(id)]
                  EXCEPT ![f.id] = {f.signature}]
    BY <1>3, SettlementSpends DEF ResolveReview, CanResolve, Acceptable
  <2>2. TargetState(action) = "settled_with_variance"
    BY <1>3, TargetStates
  <2>3. Life!Accept(f.id, f.signature)
    BY <1>2, <2>1, <2>2 DEF Life!Accept, Life!Spend, Life!Fresh
  <2> QED
    BY <1>1, <2>3 DEF Life!Next
<1>4. CASE action # "accept_underpayment_with_variance"
  <2>1. UNCHANGED [id \in Receivables |-> Spent(id)]
    BY <1>4, NothingSpent DEF ResolveReview
  <2>2. TargetState(action) \in {"open", "cancelled"}
    BY <1>4, TargetStates
  <2>3. Life!Reopen(f.id) \/ Life!Cancel(f.id)
    BY <1>2, <2>1, <2>2 DEF Life!Reopen, Life!Cancel
  <2> QED
    BY <1>1, <2>3 DEF Life!Next
<1> QED
  BY <1>3, <1>4

LEMMA LifecycleStep ==
  SettlementInv /\ [LedgerNext]_ledgerVars => [Life!Next]_(Life!vars)
<1> SUFFICES ASSUME SettlementInv, [LedgerNext]_ledgerVars
             PROVE  [Life!Next]_(Life!vars)
  OBVIOUS
<1>1. ASSUME NEW id \in Receivables, NEW t \in Terms, NEW ref \in References,
             CreateOrGet(id, t, ref)
      PROVE  Life!Next
  <2>1. UNCHANGED [i \in Receivables |-> Spent(i)]
    BY <1>1, NothingSpent DEF CreateOrGet
  <2>2. Life!Issue(id)
    BY <1>1, <2>1 DEF CreateOrGet, Life!Issue, Life!Move
  <2> QED
    BY <2>2 DEF Life!Next
<1>2. ASSUME NEW f \in Evidence, MarkReviewCandidate(f)
      PROVE  Life!Next
  <2>1. UNCHANGED [i \in Receivables |-> Spent(i)]
    BY <1>2, NothingSpent DEF MarkReviewCandidate
  <2>2. Life!Flag(f.id)
    BY <1>2, <2>1 DEF MarkReviewCandidate, CanReview, Life!Flag, Life!Move
  <2> QED
    BY <2>2, EvidenceFields DEF Life!Next
<1>3. ASSUME UNCHANGED <<state, settlements>>
      PROVE  UNCHANGED Life!vars
  BY <1>3, NothingSpent DEF Life!vars
<1>4. CASE LedgerNext
  BY <1>1, <1>2, <1>3, <1>4, LifecycleVerify, LifecycleResolve
  DEF LedgerNext, AttachValuation, RecordMonthClose, InsertReceipt
<1>5. CASE UNCHANGED ledgerVars
  BY <1>3, <1>5 DEF ledgerVars
<1> QED
  BY <1>4, <1>5

\* The ledger keeps the promise of the life cycle: receivables move only along
\* its edges and a finalized transaction is spent on one of them only.
THEOREM LedgerImplementsLifecycle == LedgerSpec => LifecyclePromise
  BY SettlementAlways, LifecycleInit, LifecycleStep, PTL
  DEF LedgerSpec, LifecyclePromise, Life!Spec

-----------------------------------------------------------------------------
(***************************************************************************)
(* Reviews.  For a new candidate to be the only one without a disposition  *)
(* it must not have one already: dispositions are of recorded candidates   *)
(* only, and each candidate is recorded under its own receivable.          *)
(***************************************************************************)
CandidatesAreOwn ==
  \A id \in Receivables, i \in Nat :
    i \in DOMAIN candidates[id] => candidates[id][i].id = id

ResolutionsAreOfCandidates ==
  \A r \in resolutions :
    \E i \in DOMAIN candidates[r.evidence.id] :
      candidates[r.evidence.id][i] = r.evidence

ReviewInv ==
  /\ TypeInv
  /\ CandidatesAreOwn
  /\ ResolutionsAreOfCandidates
  /\ ReviewNamesTheCandidate

LEMMA ReviewInit == LedgerInit => ReviewInv
<1> SUFFICES ASSUME LedgerInit PROVE ReviewInv
  OBVIOUS
<1>1. CandidatesAreOwn /\ ResolutionsAreOfCandidates
  BY DEF LedgerInit, CandidatesAreOwn, ResolutionsAreOfCandidates
<1>2. \A id \in Receivables :
        /\ DOMAIN candidates[id] = {}
        /\ state[id] # "needs_review"
  <2> SUFFICES ASSUME NEW id \in Receivables
               PROVE  DOMAIN candidates[id] = {}
                      /\ state[id] # "needs_review"
    OBVIOUS
  <2>1. candidates[id] = <<>> /\ state[id] = "absent"
    BY DEF LedgerInit
  <2>2. DOMAIN <<>> = {}
    OBVIOUS
  <2> QED
    BY <2>1, <2>2
<1>3. ReviewNamesTheCandidate
  BY <1>2 DEF ReviewNamesTheCandidate
<1> QED
  BY <1>1, <1>3, TypeInit DEF ReviewInv

\* What Resolved becomes after a step.
ResolvedNext(f) == \E r \in resolutions' : r.evidence = f

\* The candidates without a disposition after a step.
LEMMA ReviewNext ==
  ASSUME \A id \in Receivables :
           {i \in DOMAIN candidates'[id] : ~ResolvedNext(candidates'[id][i])}
             = IF state'[id] = "needs_review"
               THEN {Len(candidates'[id])} ELSE {}
  PROVE  ReviewNamesTheCandidate'
  BY DEF ReviewNamesTheCandidate, Resolved, ResolvedNext

\* The candidate lists are sequences over the positions 1..Len.
LEMMA CandidateLists ==
  ASSUME TypeOK, NEW id \in Receivables
  PROVE  /\ candidates[id] \in Seq(Evidence)
         /\ DOMAIN candidates[id] = 1..Len(candidates[id])
         /\ Len(candidates[id]) \in Nat
  BY DEF TypeOK

\* A transaction that touches neither candidates nor dispositions, and moves
\* no receivable into or out of review.
LEMMA ReviewUntouched ==
  ASSUME ReviewInv,
         UNCHANGED <<candidates, resolutions>>,
         \A id \in Receivables :
           state'[id] = "needs_review" <=> state[id] = "needs_review"
  PROVE  CandidatesAreOwn' /\ ResolutionsAreOfCandidates'
         /\ ReviewNamesTheCandidate'
<1>1. CandidatesAreOwn' /\ ResolutionsAreOfCandidates'
  BY DEF ReviewInv, CandidatesAreOwn, ResolutionsAreOfCandidates
<1>2. \A f : ResolvedNext(f) <=> Resolved(f)
  BY DEF Resolved, ResolvedNext
<1>3. ReviewNamesTheCandidate'
  BY <1>2, ReviewNext DEF ReviewInv, ReviewNamesTheCandidate
<1> QED
  BY <1>1, <1>3

LEMMA ReviewRecorded ==
  ASSUME ReviewInv, NEW f \in Evidence, MarkReviewCandidate(f)
  PROVE  CandidatesAreOwn' /\ ResolutionsAreOfCandidates'
         /\ ReviewNamesTheCandidate'
<1> USE DEF ReviewInv, TypeInv
<1> DEFINE list == candidates[f.id]
<1>1. f.id \in Receivables
  BY EvidenceFields
<1>2. /\ list \in Seq(Evidence)
      /\ DOMAIN list = 1..Len(list)
      /\ Len(list) \in Nat
  BY <1>1, CandidateLists
<1>3. /\ candidates' = [candidates EXCEPT ![f.id] = Append(list, f)]
      /\ state' = [state EXCEPT ![f.id] = "needs_review"]
      /\ resolutions' = resolutions
      /\ state[f.id] = "open"
      /\ \A i \in DOMAIN list : list[i] # f
  BY DEF MarkReviewCandidate, CanReview
<1>4. /\ candidates'[f.id] = Append(list, f)
      /\ state'[f.id] = "needs_review"
      /\ \A id \in Receivables \ {f.id} :
           candidates'[id] = candidates[id] /\ state'[id] = state[id]
  BY <1>1, <1>3 DEF TypeOK
<1> HIDE DEF list
<1>5. /\ DOMAIN Append(list, f) = 1..(Len(list) + 1)
      /\ Len(Append(list, f)) = Len(list) + 1
      /\ Append(list, f)[Len(list) + 1] = f
      /\ \A i \in 1..Len(list) : Append(list, f)[i] = list[i]
  BY <1>2
<1>6. CandidatesAreOwn'
  <2> SUFFICES ASSUME NEW id \in Receivables, NEW i \in Nat,
                      i \in DOMAIN candidates'[id]
               PROVE  candidates'[id][i].id = id
    BY DEF CandidatesAreOwn
  <2>1. CASE id = f.id
    <3>1. i \in 1..(Len(list) + 1) /\ candidates'[id][i] = Append(list, f)[i]
      BY <1>4, <1>5, <2>1
    <3>2. CASE i = Len(list) + 1
      BY <1>5, <2>1, <3>1, <3>2
    <3>3. CASE i # Len(list) + 1
      <4>1. i \in 1..Len(list)
        BY <1>2, <3>1, <3>3
      <4>2. candidates'[id][i] = list[i]
        BY <1>5, <3>1, <4>1
      <4>3. list[i].id = f.id
        BY <1>1, <1>2, <4>1 DEF CandidatesAreOwn, list
      <4> QED
        BY <2>1, <4>2, <4>3
    <3> QED
      BY <3>2, <3>3
  <2>2. CASE id # f.id
    BY <1>4, <2>2 DEF CandidatesAreOwn
  <2> QED
    BY <2>1, <2>2
<1>7. ResolutionsAreOfCandidates'
  <2> SUFFICES ASSUME NEW r \in resolutions
               PROVE  \E i \in DOMAIN candidates'[r.evidence.id] :
                        candidates'[r.evidence.id][i] = r.evidence
    BY <1>3 DEF ResolutionsAreOfCandidates
  <2>1. PICK i \in DOMAIN candidates[r.evidence.id] :
          candidates[r.evidence.id][i] = r.evidence
    BY DEF ResolutionsAreOfCandidates
  <2>2. r.evidence.id \in Receivables
    BY DEF TypeOK, Resolution, Fingerprint
  <2>3. CASE r.evidence.id = f.id
    <3>1. i \in 1..Len(list)
      BY <1>2, <2>1, <2>3 DEF list
    <3>2. i \in 1..(Len(list) + 1) /\ Append(list, f)[i] = r.evidence
      BY <1>2, <1>5, <2>1, <2>3, <3>1 DEF list
    <3> QED
      BY <1>4, <1>5, <2>3, <3>2
  <2>4. CASE r.evidence.id # f.id
    BY <1>4, <2>1, <2>2, <2>4
  <2> QED
    BY <2>3, <2>4
<1>8. ~Resolved(f)
  BY <1>3 DEF Resolved, ResolutionsAreOfCandidates, list
<1>9. \A g : ResolvedNext(g) <=> Resolved(g)
  BY <1>3 DEF Resolved, ResolvedNext
<1>10. \A i \in 1..Len(list) : Resolved(list[i])
  BY <1>1, <1>2, <1>3 DEF ReviewNamesTheCandidate, list
<1>11. ReviewNamesTheCandidate'
  <2> SUFFICES ASSUME NEW id \in Receivables
               PROVE  {i \in DOMAIN candidates'[id] :
                         ~ResolvedNext(candidates'[id][i])}
                        = IF state'[id] = "needs_review"
                          THEN {Len(candidates'[id])} ELSE {}
    BY ReviewNext
  <2>1. CASE id = f.id
    <3>1. ASSUME NEW i \in 1..(Len(list) + 1)
          PROVE  ~ResolvedNext(Append(list, f)[i]) <=> i = Len(list) + 1
      <4>1. CASE i = Len(list) + 1
        BY <1>5, <1>8, <1>9, <4>1
      <4>2. CASE i # Len(list) + 1
        <5>1. i \in 1..Len(list)
          BY <1>2, <4>2
        <5> QED
          BY <1>5, <1>9, <1>10, <4>2, <5>1
      <4> QED
        BY <4>1, <4>2
    <3> QED
      BY <1>2, <1>4, <1>5, <2>1, <3>1
  <2>2. CASE id # f.id
    BY <1>4, <1>9, <2>2 DEF ReviewNamesTheCandidate
  <2> QED
    BY <2>1, <2>2
<1> QED
  BY <1>6, <1>7, <1>11

LEMMA ReviewResolved ==
  ASSUME ReviewInv, NEW f \in Evidence, NEW action \in Actions,
         NEW reason \in Reasons \cup {None}, ResolveReview(f, action, reason)
  PROVE  CandidatesAreOwn' /\ ResolutionsAreOfCandidates'
         /\ ReviewNamesTheCandidate'
<1> USE DEF ReviewInv, TypeInv
<1>1. f.id \in Receivables
  BY EvidenceFields
<1>2. /\ candidates' = candidates
      /\ state' = [state EXCEPT ![f.id] = TargetState(action)]
      /\ resolutions' = resolutions \cup
           {[evidence |-> f, action |-> action, reason |-> reason]}
      /\ state[f.id] = "needs_review"
      /\ f \in UnderReview(f.id)
  BY DEF ResolveReview, CanResolve
<1>3. PICK k \in DOMAIN candidates[f.id] :
        candidates[f.id][k] = f /\ ~Resolved(f)
  BY <1>2 DEF UnderReview, LatestUnresolved
<1>4. CandidatesAreOwn'
  BY <1>2 DEF CandidatesAreOwn
<1>5. ResolutionsAreOfCandidates'
  BY <1>2, <1>3 DEF ResolutionsAreOfCandidates
<1>6. \A g : ResolvedNext(g) <=> (Resolved(g) \/ g = f)
  <2> DEFINE row == [evidence |-> f, action |-> action, reason |-> reason]
  <2>1. resolutions' = resolutions \cup {row} /\ row.evidence = f
    BY <1>2
  <2> HIDE DEF row
  <2> QED
    BY <2>1 DEF Resolved, ResolvedNext
<1>7. ReviewNamesTheCandidate'
  <2> SUFFICES ASSUME NEW id \in Receivables
               PROVE  {i \in DOMAIN candidates[id] :
                         ~ResolvedNext(candidates[id][i])}
                        = IF state'[id] = "needs_review"
                          THEN {Len(candidates[id])} ELSE {}
    BY <1>2, ReviewNext
  <2>1. {i \in DOMAIN candidates[id] : ~Resolved(candidates[id][i])}
          = IF state[id] = "needs_review" THEN {Len(candidates[id])} ELSE {}
    BY DEF ReviewNamesTheCandidate
  <2>2. CASE id = f.id
    <3>1. state'[id] # "needs_review"
      <4>1. state'[id] = TargetState(action)
        BY <1>1, <1>2, <2>2 DEF TypeOK
      <4>2. TargetState(action) \in {"open", "cancelled",
                                     "settled_with_variance"}
        BY TargetStates
      <4> QED
        BY <4>1, <4>2
    <3>2. k = Len(candidates[id])
      BY <1>2, <1>3, <2>1, <2>2
    <3>3. \A i \in DOMAIN candidates[id] : ResolvedNext(candidates[id][i])
      BY <1>2, <1>3, <1>6, <2>1, <2>2, <3>2
    <3> QED
      BY <3>1, <3>3
  <2>3. CASE id # f.id
    <3>1. state'[id] = state[id]
      BY <1>1, <1>2, <2>3 DEF TypeOK
    <3>2. \A i \in DOMAIN candidates[id] : candidates[id][i] # f
      BY <2>3, CandidateLists DEF CandidatesAreOwn
    <3>3. \A i \in DOMAIN candidates[id] :
            ResolvedNext(candidates[id][i]) <=> Resolved(candidates[id][i])
      BY <1>6, <3>2
    <3> QED
      BY <2>1, <3>1, <3>3
  <2> QED
    BY <2>2, <2>3
<1> QED
  BY <1>4, <1>5, <1>7

LEMMA ReviewStep == ReviewInv /\ [LedgerNext]_ledgerVars => ReviewInv'
<1> SUFFICES ASSUME ReviewInv, [LedgerNext]_ledgerVars PROVE ReviewInv'
  OBVIOUS
<1>1. TypeInv'
  BY TypeStep DEF ReviewInv
<1>2. CASE \E f \in Evidence : MarkReviewCandidate(f)
  BY <1>1, <1>2, ReviewRecorded DEF ReviewInv
<1>3. CASE \E f \in Evidence, action \in Actions,
              reason \in Reasons \cup {None} :
             ResolveReview(f, action, reason)
  BY <1>1, <1>3, ReviewResolved DEF ReviewInv
<1>4. CASE \E id \in Receivables, t \in Terms, ref \in References :
             CreateOrGet(id, t, ref)
  <2>1. UNCHANGED <<candidates, resolutions>>
        /\ \A id \in Receivables :
             state'[id] = "needs_review" <=> state[id] = "needs_review"
    BY <1>4 DEF CreateOrGet, ReviewInv, TypeInv, TypeOK
  <2> QED
    BY <1>1, <2>1, ReviewUntouched DEF ReviewInv
<1>5. CASE \E f \in Evidence : MarkPaymentVerified(f)
  <2>1. UNCHANGED <<candidates, resolutions>>
        /\ \A id \in Receivables :
             state'[id] = "needs_review" <=> state[id] = "needs_review"
    BY <1>5, EvidenceFields
    DEF MarkPaymentVerified, CanVerify, ReviewInv, TypeInv, TypeOK
  <2> QED
    BY <1>1, <2>1, ReviewUntouched DEF ReviewInv
<1>6. CASE UNCHANGED <<state, candidates, resolutions>>
  BY <1>1, <1>6, ReviewUntouched DEF ReviewInv
<1> QED
  BY <1>2, <1>3, <1>4, <1>5, <1>6
  DEF LedgerNext, AttachValuation, RecordMonthClose, InsertReceipt, ledgerVars

\* While a receivable is under review exactly its newest candidate lacks a
\* disposition; at any other time none does.
THEOREM ReviewsNameTheirCandidate == LedgerSpec => []ReviewNamesTheCandidate
<1>1. ReviewInv => ReviewNamesTheCandidate
  BY DEF ReviewInv
<1> QED
  BY <1>1, ReviewInit, ReviewStep, PTL DEF LedgerSpec

-----------------------------------------------------------------------------
(***************************************************************************)
(* Checkpoints and dispositions.                                           *)
(***************************************************************************)

LEMMA CheckpointStep ==
  CheckpointIsCurrent /\ [LedgerNext]_ledgerVars => CheckpointIsCurrent'
<1> SUFFICES ASSUME CheckpointIsCurrent, [LedgerNext]_ledgerVars
             PROVE  CheckpointIsCurrent'
  OBVIOUS
<1>1. CASE AppendCheckpoint
  BY <1>1 DEF AppendCheckpoint, CheckpointIsCurrent
<1>2. CASE UNCHANGED <<state, terms, reference, settlements, candidates,
                       resolutions, valuations, closes, events, root>>
  BY <1>2 DEF CheckpointIsCurrent, material
<1>3. LedgerNext => \/ AppendCheckpoint
                    \/ UNCHANGED <<state, terms, reference, settlements,
                                   candidates, resolutions, valuations,
                                   closes, events, root>>
  BY DEF LedgerNext, CreateOrGet, MarkPaymentVerified, MarkReviewCandidate,
         ResolveReview, AttachValuation, RecordMonthClose, InsertReceipt
<1> QED
  BY <1>1, <1>2, <1>3 DEF ledgerVars

\* Every transaction but the insertion of a receipt ends with a checkpoint of
\* the tables it leaves; a receipt is not material.
THEOREM CheckpointsAreCurrent == LedgerSpec => []CheckpointIsCurrent
<1>1. LedgerInit => CheckpointIsCurrent
  BY DEF LedgerInit, CheckpointIsCurrent
<1> QED
  BY <1>1, CheckpointStep, PTL DEF LedgerSpec

\* Only the accepting action carries a reason.
ReasonsFit == \A r \in resolutions : ReasonFits(r.action, r.reason)

LEMMA ReasonsFitStep ==
  ReasonsFit /\ [LedgerNext]_ledgerVars => ReasonsFit'
<1> SUFFICES ASSUME ReasonsFit, [LedgerNext]_ledgerVars PROVE ReasonsFit'
  OBVIOUS
<1>1. CASE UNCHANGED resolutions
  BY <1>1 DEF ReasonsFit, ReasonFits
<1>2. ASSUME NEW f \in Evidence, NEW action \in Actions,
             NEW reason \in Reasons \cup {None},
             ResolveReview(f, action, reason)
      PROVE  ReasonsFit'
  <2> DEFINE row == [evidence |-> f, action |-> action, reason |-> reason]
  <2>1. /\ resolutions' = resolutions \cup {row}
        /\ ReasonFits(action, reason)
    BY <1>2 DEF ResolveReview, CanResolve
  <2>2. row.action = action /\ row.reason = reason
    OBVIOUS
  <2> HIDE DEF row
  <2>3. \A r \in resolutions' : ReasonFits(r.action, r.reason)
    BY <2>1, <2>2 DEF ReasonsFit
  <2> QED
    BY <2>3 DEF ReasonsFit, ReasonFits
<1> QED
  BY <1>1, <1>2 DEF LedgerNext, ledgerVars, CreateOrGet, MarkPaymentVerified,
     MarkReviewCandidate, AttachValuation, RecordMonthClose, InsertReceipt

\* A caller that lost the answer may ask again at any later time: the
\* disposition it recorded, or the settlement, is still there as it was.
THEOREM RetriesAlwaysSucceed == LedgerSpec => []RetriesSucceed
<1>1. LedgerInit => ReasonsFit
  BY DEF LedgerInit, ReasonsFit
<1>2. SettlementInv /\ ReasonsFit => RetriesSucceed
  <2> SUFFICES ASSUME SettlementInv, ReasonsFit PROVE RetriesSucceed
    OBVIOUS
  <2>1. ASSUME NEW r \in resolutions
        PROVE  ResolveRetry(r.evidence, r.action, r.reason)
    <3>1. r \in Resolution
      BY DEF SettlementInv, TypeInv, TypeOK
    <3>2. r = [evidence |-> r.evidence, action |-> r.action,
               reason |-> r.reason]
      BY <3>1 DEF Resolution
    <3> QED
      BY <3>2 DEF ReasonsFit, ResolveRetry
  <2>2. ASSUME NEW s \in settlements, s.kind = "exact"
        PROVE  VerifyRetry(s.evidence)
    BY <2>2 DEF SettlementInv, StateMatchesSettlement, VerifyRetry
  <2> QED
    BY <2>1, <2>2 DEF RetriesSucceed
<1> QED
  BY <1>1, <1>2, ReasonsFitStep, SettlementAlways, PTL DEF LedgerSpec

\* What a step does to the receivable it does not create.
LEMMA DispositionStep ==
  ASSUME TypeInv, [LedgerNext]_ledgerVars, NEW id \in Receivables
  PROVE  /\ state[id] # "needs_review" /\ state'[id] = "needs_review"
            => \E f \in Evidence :
                 /\ f.id = id
                 /\ ~Notified(f)
                 /\ candidates'[id] = Append(candidates[id], f)
         /\ state[id] \in Settled \cup {"cancelled"} => state'[id] = state[id]
<1> USE DEF TypeInv, TypeOK
<1>1. CASE UNCHANGED state
  BY <1>1
<1>2. ASSUME NEW key \in Receivables, NEW t \in Terms, NEW ref \in References,
             CreateOrGet(key, t, ref)
      PROVE  /\ state'[id] = "needs_review" => state[id] = "needs_review"
             /\ state[id] \in Settled \cup {"cancelled"}
                  => state'[id] = state[id]
  BY <1>2 DEF CreateOrGet, Settled
<1>3. ASSUME NEW f \in Evidence, MarkPaymentVerified(f)
      PROVE  /\ state'[id] = "needs_review" => state[id] = "needs_review"
             /\ state[id] \in Settled \cup {"cancelled"}
                  => state'[id] = state[id]
  BY <1>3, EvidenceFields DEF MarkPaymentVerified, CanVerify, Settled
<1>4. ASSUME NEW f \in Evidence, MarkReviewCandidate(f)
      PROVE  /\ state[id] # "needs_review" /\ state'[id] = "needs_review"
                => /\ f.id = id
                   /\ ~Notified(f)
                   /\ candidates'[id] = Append(candidates[id], f)
             /\ state[id] \in Settled \cup {"cancelled"}
                  => state'[id] = state[id]
  BY <1>4, EvidenceFields DEF MarkReviewCandidate, CanReview, Settled
<1>5. ASSUME NEW f \in Evidence, NEW action \in Actions,
             NEW reason \in Reasons \cup {None},
             ResolveReview(f, action, reason)
      PROVE  /\ state'[id] = "needs_review" => state[id] = "needs_review"
             /\ state[id] \in Settled \cup {"cancelled"}
                  => state'[id] = state[id]
  <2>1. TargetState(action) # "needs_review"
    BY TargetStates
  <2> QED
    BY <1>5, <2>1, EvidenceFields DEF ResolveReview, CanResolve, Settled
<1> QED
  BY <1>1, <1>2, <1>3, <1>4, <1>5
  DEF LedgerNext, ledgerVars, AttachValuation, RecordMonthClose, InsertReceipt

\* A receivable goes under review only for a candidate never announced
\* before, and a settled or cancelled one keeps its state for ever, whatever
\* the callers read before.
THEOREM DispositionsStayFinal == LedgerSpec => DispositionsAreFinal
<1>1. LedgerSpec => []TypeInv
  BY TypeInit, TypeStep, PTL DEF LedgerSpec
<1>2. TypeInv /\ [LedgerNext]_ledgerVars
        => [/\ \A id \in Receivables :
                 state[id] # "needs_review" /\ state'[id] = "needs_review"
                 => \E f \in Evidence :
                      /\ f.id = id
                      /\ ~Notified(f)
                      /\ candidates'[id] = Append(candidates[id], f)
            /\ \A id \in Receivables :
                 state[id] \in Settled \cup {"cancelled"}
                 => state'[id] = state[id]]_ledgerVars
  BY DispositionStep
<1> QED
  BY <1>1, <1>2, PTL DEF LedgerSpec, DispositionsAreFinal

-----------------------------------------------------------------------------
(***************************************************************************)
(* The outbox.  An announcement is written in the transaction that writes  *)
(* what it announces; that a fingerprint is announced once follows from    *)
(* the guard of either transaction.                                        *)
(***************************************************************************)
AnnouncedAs(f, status) ==
  \E i \in DOMAIN outbox :
    outbox[i] = [evidence |-> f, status |-> status]

ExactlySettled(f) ==
  \E s \in settlements : s.evidence = f /\ s.kind = "exact"

CandidateFor(id, f) ==
  \E i \in DOMAIN candidates[id] : candidates[id][i] = f

AnnouncedOnce ==
  \A i, j \in DOMAIN outbox :
    outbox[i].evidence = outbox[j].evidence => i = j

AnnouncedTruly ==
  \A f \in Evidence :
    /\ AnnouncedAs(f, "payment_verified") <=> ExactlySettled(f)
    /\ AnnouncedAs(f, "needs_review") <=> CandidateFor(f.id, f)

LEMMA OutboxParts ==
  OutboxMatchesLedger <=> AnnouncedOnce /\ AnnouncedTruly
  BY Zenon DEF OutboxMatchesLedger, AnnouncedOnce, AnnouncedTruly, AnnouncedAs,
     ExactlySettled, CandidateFor

LEMMA OutboxPartsNext ==
  OutboxMatchesLedger' <=> AnnouncedOnce' /\ AnnouncedTruly'
  BY Zenon DEF OutboxMatchesLedger, AnnouncedOnce, AnnouncedTruly, AnnouncedAs,
     ExactlySettled, CandidateFor

\* One more announcement, of a fingerprint that had none.
LEMMA OutboxGrows ==
  ASSUME TypeOK, NEW f \in Evidence,
         NEW status \in {"payment_verified", "needs_review"},
         ~Notified(f), Notify(f, status), AnnouncedOnce
  PROVE  /\ AnnouncedOnce'
         /\ ~AnnouncedAs(f, "payment_verified")
         /\ ~AnnouncedAs(f, "needs_review")
         /\ \A g, st : AnnouncedAs(g, st)'
                         <=> (AnnouncedAs(g, st) \/ (g = f /\ st = status))
<1> DEFINE row == [evidence |-> f, status |-> status]
           n == Len(outbox)
<1>1. outbox \in Seq(Notification)
  BY DEF TypeOK
<1>2. outbox' = Append(outbox, row)
  BY DEF Notify
<1>3. row.evidence = f
      /\ \A g, st : row = [evidence |-> g, status |-> st]
                      <=> (g = f /\ st = status)
  OBVIOUS
<1>4. row \in Notification
  BY EvidenceFields DEF Notification
<1>5. \A i \in DOMAIN outbox : outbox[i].evidence # f
  BY DEF Notified
<1>6. \A g, st : [evidence |-> g, status |-> st].evidence = g
  OBVIOUS
<1> HIDE DEF row
<1>7. /\ DOMAIN outbox = 1..n /\ n \in Nat
      /\ DOMAIN outbox' = 1..(n + 1)
      /\ outbox'[n + 1] = row
      /\ \A i \in 1..n : outbox'[i] = outbox[i]
  BY <1>1, <1>2, <1>4
<1> HIDE DEF n
<1>8. ASSUME NEW i \in 1..(n + 1), NEW j \in 1..(n + 1),
             outbox'[i].evidence = outbox'[j].evidence
      PROVE  i = j
  <2>1. CASE i \in 1..n /\ j \in 1..n
    BY <1>7, <1>8, <2>1 DEF AnnouncedOnce
  <2>2. CASE i = n + 1 /\ j \in 1..n
    BY <1>3, <1>5, <1>7, <1>8, <2>2
  <2>3. CASE i \in 1..n /\ j = n + 1
    BY <1>3, <1>5, <1>7, <1>8, <2>3
  <2>4. (i \in 1..n \/ i = n + 1) /\ (j \in 1..n \/ j = n + 1)
    BY <1>7
  <2> QED
    BY <2>1, <2>2, <2>3, <2>4
<1>9. AnnouncedOnce'
  BY <1>7, <1>8 DEF AnnouncedOnce
<1>10. ASSUME NEW g, NEW st
       PROVE  AnnouncedAs(g, st)' <=> (AnnouncedAs(g, st) \/ (g = f /\ st = status))
  <2> DEFINE e == [evidence |-> g, status |-> st]
  <2>1. row = e <=> (g = f /\ st = status)
    BY <1>3
  <2> HIDE DEF e
  <2>2. (\E i \in DOMAIN outbox' : outbox'[i] = e)
          <=> ((\E i \in DOMAIN outbox : outbox[i] = e) \/ row = e)
    <3>1. \A i \in 1..(n + 1) : i \in 1..n \/ i = n + 1
      BY <1>7
    <3>2. n + 1 \in 1..(n + 1) /\ 1..n \subseteq 1..(n + 1)
      BY <1>7
    <3> QED
      BY <1>7, <3>1, <3>2
  <2> QED
    BY <2>1, <2>2 DEF AnnouncedAs, e
<1>11. ~AnnouncedAs(f, "payment_verified") /\ ~AnnouncedAs(f, "needs_review")
  BY <1>5, <1>6 DEF AnnouncedAs
<1> QED
  BY <1>9, <1>10, <1>11

\* A transaction that announces nothing and leaves alone what is announced.
LEMMA OutboxUntouched ==
  ASSUME OutboxMatchesLedger, UNCHANGED <<outbox, candidates>>,
         \A f : ExactlySettled(f)' <=> ExactlySettled(f)
  PROVE  OutboxMatchesLedger'
<1>1. AnnouncedOnce'
  BY OutboxParts DEF AnnouncedOnce
<1>2. \A f, st : AnnouncedAs(f, st)' <=> AnnouncedAs(f, st)
  BY DEF AnnouncedAs
<1>3. \A id, f : CandidateFor(id, f)' <=> CandidateFor(id, f)
  BY DEF CandidateFor
<1>4. AnnouncedTruly'
  BY <1>2, <1>3, OutboxParts DEF AnnouncedTruly
<1> QED
  BY <1>1, <1>4, OutboxPartsNext

LEMMA OutboxVerify ==
  ASSUME TypeInv, OutboxMatchesLedger,
         NEW f \in Evidence, MarkPaymentVerified(f)
  PROVE  OutboxMatchesLedger'
<1> DEFINE row == [id |-> f.id, reference |-> reference[f.id],
                   evidence |-> f, kind |-> "exact"]
<1>1. /\ ~Notified(f)
      /\ Notify(f, "payment_verified")
      /\ settlements' = settlements \cup {row}
      /\ candidates' = candidates
  BY DEF MarkPaymentVerified, CanVerify, Settle
<1>2. row.evidence = f /\ row.kind = "exact"
  OBVIOUS
<1> HIDE DEF row
<1>3. \A g : ExactlySettled(g)' <=> (ExactlySettled(g) \/ g = f)
  BY <1>1, <1>2 DEF ExactlySettled
<1>4. \A id, g : CandidateFor(id, g)' <=> CandidateFor(id, g)
  BY <1>1 DEF CandidateFor
<1>5. /\ AnnouncedOnce'
      /\ \A g, st : AnnouncedAs(g, st)'
                      <=> (AnnouncedAs(g, st)
                            \/ (g = f /\ st = "payment_verified"))
  BY <1>1, OutboxParts, OutboxGrows DEF TypeInv
<1>6. "payment_verified" # "needs_review"
  OBVIOUS
<1>7. AnnouncedTruly'
  BY <1>3, <1>4, <1>5, <1>6, OutboxParts, Zenon DEF AnnouncedTruly
<1> QED
  BY <1>5, <1>7, OutboxPartsNext

\* A candidate list grows by one candidate.
LEMMA CandidatesGrow ==
  ASSUME TypeOK, NEW f \in Evidence,
         candidates' = [candidates EXCEPT ![f.id] = Append(@, f)]
  PROVE  \A id \in Receivables : \A g :
           CandidateFor(id, g)'
             <=> (CandidateFor(id, g) \/ (id = f.id /\ g = f))
<1> SUFFICES ASSUME NEW id \in Receivables, NEW g
             PROVE  CandidateFor(id, g)'
                      <=> (CandidateFor(id, g) \/ (id = f.id /\ g = f))
  OBVIOUS
<1>1. f.id \in Receivables
  BY EvidenceFields
<1>2. CASE id # f.id
  <2>1. candidates'[id] = candidates[id]
    BY <1>1, <1>2 DEF TypeOK
  <2> QED
    BY <1>2, <2>1 DEF CandidateFor
<1>3. CASE id = f.id
  <2> DEFINE list == candidates[id]
  <2>1. candidates'[id] = Append(list, f)
    BY <1>1, <1>3 DEF TypeOK
  <2>2. list \in Seq(Evidence)
    BY DEF TypeOK
  <2> HIDE DEF list
  <2>3. /\ DOMAIN list = 1..Len(list) /\ Len(list) \in Nat
        /\ DOMAIN Append(list, f) = 1..(Len(list) + 1)
        /\ Append(list, f)[Len(list) + 1] = f
        /\ \A i \in 1..Len(list) : Append(list, f)[i] = list[i]
    BY <2>2
  <2>4. (\E i \in DOMAIN Append(list, f) : Append(list, f)[i] = g)
          <=> ((\E i \in DOMAIN list : list[i] = g) \/ g = f)
    <3>1. \A i \in 1..(Len(list) + 1) : i \in 1..Len(list) \/ i = Len(list) + 1
      BY <2>3
    <3>2. /\ Len(list) + 1 \in 1..(Len(list) + 1)
          /\ 1..Len(list) \subseteq 1..(Len(list) + 1)
      BY <2>3
    <3> QED
      BY <2>3, <3>1, <3>2
  <2> QED
    BY <1>3, <2>1, <2>4 DEF CandidateFor, list
<1> QED
  BY <1>2, <1>3

LEMMA OutboxReview ==
  ASSUME TypeInv, OutboxMatchesLedger,
         NEW f \in Evidence, MarkReviewCandidate(f)
  PROVE  OutboxMatchesLedger'
<1>1. /\ ~Notified(f)
      /\ Notify(f, "needs_review")
      /\ settlements' = settlements
      /\ candidates' = [candidates EXCEPT ![f.id] = Append(@, f)]
  BY DEF MarkReviewCandidate, CanReview
<1>2. \A g : ExactlySettled(g)' <=> ExactlySettled(g)
  BY <1>1 DEF ExactlySettled
<1>3. \A g \in Evidence : CandidateFor(g.id, g)'
                            <=> (CandidateFor(g.id, g) \/ g = f)
  BY <1>1, CandidatesGrow, EvidenceFields DEF TypeInv
<1>4. /\ AnnouncedOnce'
      /\ \A g, st : AnnouncedAs(g, st)'
                      <=> (AnnouncedAs(g, st) \/ (g = f /\ st = "needs_review"))
  BY <1>1, OutboxParts, OutboxGrows DEF TypeInv
<1>5. "payment_verified" # "needs_review"
  OBVIOUS
<1>6. AnnouncedTruly'
  BY <1>2, <1>3, <1>4, <1>5, OutboxParts, Zenon DEF AnnouncedTruly
<1> QED
  BY <1>4, <1>6, OutboxPartsNext

LEMMA OutboxResolve ==
  ASSUME OutboxMatchesLedger, NEW f \in Evidence, NEW action \in Actions,
         NEW reason \in Reasons \cup {None}, ResolveReview(f, action, reason)
  PROVE  OutboxMatchesLedger'
<1>1. UNCHANGED <<outbox, candidates>>
  BY DEF ResolveReview
<1>2. \A g : ExactlySettled(g)' <=> ExactlySettled(g)
  <2>1. CASE UNCHANGED settlements
    BY <2>1 DEF ExactlySettled
  <2>2. CASE Settle(f, "accepted_underpayment")
    <3> DEFINE row == [id |-> f.id, reference |-> reference[f.id],
                       evidence |-> f, kind |-> "accepted_underpayment"]
    <3>1. settlements' = settlements \cup {row}
      BY <2>2 DEF Settle
    <3>2. row.kind # "exact"
      OBVIOUS
    <3> HIDE DEF row
    <3> QED
      BY <3>1, <3>2 DEF ExactlySettled
  <2> QED
    BY <2>1, <2>2 DEF ResolveReview
<1> QED
  BY <1>1, <1>2, OutboxUntouched

\* Every exact settlement and every candidate is announced once and nothing
\* else is, although the same candidate is met again after every reopening.
THEOREM OutboxAlwaysMatchesLedger == LedgerSpec => []OutboxMatchesLedger
<1>1. LedgerInit => OutboxMatchesLedger
  <2> SUFFICES ASSUME LedgerInit PROVE OutboxMatchesLedger
    OBVIOUS
  <2>1. /\ DOMAIN outbox = {}
        /\ settlements = {}
        /\ \A id \in Receivables : DOMAIN candidates[id] = {}
    BY DEF LedgerInit
  <2>2. AnnouncedOnce /\ AnnouncedTruly
    BY <2>1, EvidenceFields
    DEF AnnouncedOnce, AnnouncedTruly, AnnouncedAs, ExactlySettled, CandidateFor
  <2> QED
    BY <2>2, OutboxParts
<1>2. TypeInv /\ OutboxMatchesLedger /\ [LedgerNext]_ledgerVars
        => OutboxMatchesLedger'
  <2> SUFFICES ASSUME TypeInv, OutboxMatchesLedger, [LedgerNext]_ledgerVars
               PROVE  OutboxMatchesLedger'
    OBVIOUS
  <2>1. CASE UNCHANGED <<outbox, candidates, settlements>>
    <3>1. \A f : ExactlySettled(f)' <=> ExactlySettled(f)
      BY <2>1 DEF ExactlySettled
    <3> QED
      BY <2>1, <3>1, OutboxUntouched
  <2> QED
    BY <2>1, OutboxVerify, OutboxReview, OutboxResolve
    DEF LedgerNext, ledgerVars, CreateOrGet, AttachValuation,
        RecordMonthClose, InsertReceipt
<1> QED
  BY <1>1, <1>2, TypeInit, TypeStep, PTL DEF LedgerSpec

-----------------------------------------------------------------------------
(***************************************************************************)
(* The audit trail.  For the last event that is not a valuation to stay    *)
(* the last, a valuation must never precede another event: it is written   *)
(* only for a settled receivable, and a settled one has no other event     *)
(* ahead.                                                                  *)
(***************************************************************************)
ValuationsOfSettled ==
  \A id \in Receivables : \A i \in DOMAIN events[id] :
    events[id][i].event = "valuation_attached" => state[id] \in Settled

HistoryStarts(id) == events[id] = <<>> <=> state[id] = "absent"

\* A chain that ends in this state, but for valuations.
EndsIn(chain, st) ==
  chain # <<>> =>
    \E i \in DOMAIN chain :
      /\ st = Outcome(chain[i].event)
      /\ \A j \in DOMAIN chain :
           j > i <=> chain[j].event = "valuation_attached"

HistoryEnds(id) == EndsIn(events[id], state[id])

\* The event chain of a receivable names this evidence under this name.
Told(id, name, e) ==
  \E i \in DOMAIN events[id] :
    events[id][i].event = name /\ events[id][i].evidence = e

Disposed(id, action, e) ==
  \E r \in resolutions :
    r.evidence.id = id /\ r.action = action /\ r.evidence = e

Paid(id, e) ==
  \E s \in settlements : s.id = id /\ s.kind = "exact" /\ s.evidence = e

TrailIsTrue(id) ==
  /\ \A e : Told(id, "needs_review", e) <=> CandidateFor(id, e)
  /\ \A action \in Actions : \A e :
       Told(id, action, e) <=> Disposed(id, action, e)
  /\ \A e : Told(id, "payment_verified", e) <=> Paid(id, e)

AuditInv ==
  /\ TypeInv
  /\ ValuationsOfSettled
  /\ \A id \in Receivables : HistoryStarts(id) /\ HistoryEnds(id)
  /\ \A id \in Receivables : TrailIsTrue(id)

\* The sets of the audit property, member by member.
LEMMA TrailSets ==
  ASSUME NEW id, TrailIsTrue(id)
  PROVE  /\ EventsOf(id, "needs_review")
              = {candidates[id][i] : i \in DOMAIN candidates[id]}
         /\ \A action \in Actions :
              EventsOf(id, action)
                = {r.evidence : r \in {q \in resolutions :
                                   q.evidence.id = id /\ q.action = action}}
         /\ EventsOf(id, "payment_verified")
              = {s.evidence : s \in {q \in settlements :
                                       q.id = id /\ q.kind = "exact"}}
<1>1. \A name, e : e \in EventsOf(id, name) <=> Told(id, name, e)
  BY Zenon DEF EventsOf, Told
<1>2. \A e : e \in {candidates[id][i] : i \in DOMAIN candidates[id]}
               <=> CandidateFor(id, e)
  BY Zenon DEF CandidateFor
<1>3. \A action, e :
        e \in {r.evidence : r \in {q \in resolutions :
                              q.evidence.id = id /\ q.action = action}}
          <=> Disposed(id, action, e)
  BY Zenon DEF Disposed
<1>4. \A e : e \in {s.evidence : s \in {q \in settlements :
                                   q.id = id /\ q.kind = "exact"}}
               <=> Paid(id, e)
  BY Zenon DEF Paid
<1>5. EventsOf(id, "needs_review")
        = {candidates[id][i] : i \in DOMAIN candidates[id]}
  BY <1>1, <1>2 DEF TrailIsTrue
<1>6. \A action \in Actions :
        EventsOf(id, action)
          = {r.evidence : r \in {q \in resolutions :
                             q.evidence.id = id /\ q.action = action}}
  BY <1>1, <1>3 DEF TrailIsTrue
<1>7. EventsOf(id, "payment_verified")
        = {s.evidence : s \in {q \in settlements :
                                 q.id = id /\ q.kind = "exact"}}
  BY <1>1, <1>4 DEF TrailIsTrue
<1> QED
  BY <1>5, <1>6, <1>7

LEMMA AuditFollows == AuditInv => AuditExplainsLedger
<1> SUFFICES ASSUME AuditInv PROVE AuditExplainsLedger
  OBVIOUS
<1>1. \A id \in Receivables : HistoryStarts(id) /\ HistoryEnds(id)
  BY DEF AuditInv
<1>2. \A id \in Receivables :
        /\ EventsOf(id, "needs_review")
             = {candidates[id][i] : i \in DOMAIN candidates[id]}
        /\ \A action \in Actions :
             EventsOf(id, action)
               = {r.evidence : r \in {q \in resolutions :
                                  q.evidence.id = id /\ q.action = action}}
        /\ EventsOf(id, "payment_verified")
             = {s.evidence : s \in {q \in settlements :
                                      q.id = id /\ q.kind = "exact"}}
  BY TrailSets DEF AuditInv
<1> QED
  BY <1>1, <1>2, Zenon
  DEF AuditExplainsLedger, HistoryStarts, HistoryEnds, EndsIn

LEMMA AuditInit == LedgerInit => AuditInv
<1> SUFFICES ASSUME LedgerInit PROVE AuditInv
  OBVIOUS
<1>1. /\ settlements = {} /\ resolutions = {}
      /\ \A id \in Receivables :
           /\ events[id] = <<>> /\ candidates[id] = <<>>
           /\ state[id] = "absent"
           /\ DOMAIN events[id] = {} /\ DOMAIN candidates[id] = {}
  BY DEF LedgerInit
<1>2. \A id \in Receivables : TrailIsTrue(id)
  BY <1>1 DEF TrailIsTrue, Told, CandidateFor, Disposed, Paid
<1>3. /\ ValuationsOfSettled
      /\ \A id \in Receivables : HistoryStarts(id) /\ HistoryEnds(id)
  BY <1>1 DEF ValuationsOfSettled, HistoryStarts, HistoryEnds, EndsIn
<1> QED
  BY <1>2, <1>3, TypeInit DEF AuditInv

\* One more event in one chain.
LEMMA ChainGrows ==
  ASSUME TypeOK, NEW key \in Receivables,
         NEW name, NEW evidence, AppendEvent(key, name, evidence)
  PROVE  /\ \A id \in Receivables \ {key} : events'[id] = events[id]
         /\ DOMAIN events[key] = 1..Len(events[key])
         /\ Len(events[key]) \in Nat
         /\ events'[key] # <<>>
         /\ DOMAIN events'[key] = 1..(Len(events[key]) + 1)
         /\ events'[key][Len(events[key]) + 1].event = name
         /\ events'[key][Len(events[key]) + 1].evidence = evidence
         /\ \A i \in DOMAIN events[key] : events'[key][i] = events[key][i]
<1> DEFINE list == events[key]
           e == [event |-> name, evidence |-> evidence]
<1>1. events \in [Receivables -> Seq(Event)]
  BY DEF TypeOK
<1>2. events' = [events EXCEPT ![key] = Append(list, e)]
  BY DEF AppendEvent
<1>3. e.event = name /\ e.evidence = evidence
  OBVIOUS
<1>4. list \in Seq(Event)
  BY <1>1
<1> HIDE DEF list, e
<1>5. /\ events'[key] = Append(list, e)
      /\ \A id \in Receivables \ {key} : events'[id] = events[id]
  BY <1>1, <1>2
<1>6. /\ DOMAIN list = 1..Len(list) /\ Len(list) \in Nat
      /\ DOMAIN Append(list, e) = 1..(Len(list) + 1)
      /\ Append(list, e)[Len(list) + 1] = e
      /\ \A i \in 1..Len(list) : Append(list, e)[i] = list[i]
      /\ Append(list, e) # <<>>
  BY <1>4
<1> QED
  BY <1>3, <1>5, <1>6 DEF list

LEMMA ToldNext ==
  ASSUME TypeOK, NEW key \in Receivables,
         NEW name, NEW evidence, AppendEvent(key, name, evidence)
  PROVE  \A id \in Receivables : \A nm, e :
           Told(id, nm, e)'
             <=> (Told(id, nm, e)
                   \/ (id = key /\ nm = name /\ e = evidence))
<1> SUFFICES ASSUME NEW id \in Receivables, NEW nm, NEW e
             PROVE  Told(id, nm, e)'
                      <=> (Told(id, nm, e)
                            \/ (id = key /\ nm = name /\ e = evidence))
  OBVIOUS
<1>1. CASE id # key
  <2>1. events'[id] = events[id]
    BY <1>1, ChainGrows
  <2> QED
    BY <1>1, <2>1 DEF Told
<1>2. CASE id = key
  <2> DEFINE n == Len(events[key])
  <2>1. /\ DOMAIN events[key] = 1..n /\ n \in Nat
        /\ DOMAIN events'[key] = 1..(n + 1)
        /\ events'[key][n + 1].event = name
        /\ events'[key][n + 1].evidence = evidence
        /\ \A i \in 1..n : events'[key][i] = events[key][i]
    BY ChainGrows
  <2> HIDE DEF n
  <2>2. /\ \A i \in 1..(n + 1) : i \in 1..n \/ i = n + 1
        /\ n + 1 \in 1..(n + 1) /\ 1..n \subseteq 1..(n + 1)
    BY <2>1
  <2>3. (\E i \in DOMAIN events'[key] :
           events'[key][i].event = nm /\ events'[key][i].evidence = e)
          <=> ((\E i \in DOMAIN events[key] :
                  events[key][i].event = nm /\ events[key][i].evidence = e)
                \/ (nm = name /\ e = evidence))
    BY <2>1, <2>2
  <2> QED
    BY <1>2, <2>3 DEF Told
<1> QED
  BY <1>1, <1>2

\* A transaction that tells an event of a receivable that is not settled, and
\* leaves it in the state the event says.
LEMMA HistoryTold ==
  ASSUME AuditInv, NEW key \in Receivables, NEW name, NEW evidence,
         NEW target,
         AppendEvent(key, name, evidence),
         state' = [state EXCEPT ![key] = target],
         state[key] \notin Settled,
         name # "valuation_attached",
         target = Outcome(name),
         target # "absent"
  PROVE  /\ ValuationsOfSettled'
         /\ \A id \in Receivables : HistoryStarts(id)' /\ HistoryEnds(id)'
<1> USE DEF AuditInv, TypeInv
<1> DEFINE n == Len(events[key])
<1>1. /\ DOMAIN events[key] = 1..n /\ n \in Nat
      /\ DOMAIN events'[key] = 1..(n + 1)
      /\ events'[key] # <<>>
      /\ events'[key][n + 1].event = name
      /\ \A i \in 1..n : events'[key][i] = events[key][i]
      /\ \A id \in Receivables \ {key} : events'[id] = events[id]
  BY ChainGrows
<1> HIDE DEF n
<1>2. /\ state'[key] = target
      /\ \A id \in Receivables \ {key} : state'[id] = state[id]
  BY DEF TypeOK
<1>3. \A i \in 1..(n + 1) : events'[key][i].event # "valuation_attached"
  <2>1. \A i \in 1..n : events[key][i].event # "valuation_attached"
    BY <1>1 DEF ValuationsOfSettled
  <2>2. \A i \in 1..(n + 1) : i \in 1..n \/ i = n + 1
    BY <1>1
  <2> QED
    BY <1>1, <2>1, <2>2
<1>4. ValuationsOfSettled'
  BY <1>1, <1>2, <1>3 DEF ValuationsOfSettled
<1>5. HistoryStarts(key)'
  BY <1>1, <1>2 DEF HistoryStarts
<1>6. HistoryEnds(key)'
  <2>1. n + 1 \in DOMAIN events'[key]
    BY <1>1
  <2>2. state'[key] = Outcome(events'[key][n + 1].event)
    BY <1>1, <1>2
  <2>3. \A j \in DOMAIN events'[key] :
          j > n + 1 <=> events'[key][j].event = "valuation_attached"
    <3>1. \A j \in 1..(n + 1) : ~(j > n + 1)
      BY <1>1
    <3> QED
      BY <1>1, <1>3, <3>1
  <2>4. \E i \in DOMAIN events'[key] :
          /\ state'[key] = Outcome(events'[key][i].event)
          /\ \A j \in DOMAIN events'[key] :
               j > i <=> events'[key][j].event = "valuation_attached"
    BY <2>1, <2>2, <2>3
  <2> QED
    BY <2>4 DEF HistoryEnds, EndsIn
<1>7. ASSUME NEW id \in Receivables, id # key
      PROVE  HistoryStarts(id)' /\ HistoryEnds(id)'
  <2>1. events'[id] = events[id] /\ state'[id] = state[id]
    BY <1>1, <1>2, <1>7
  <2>2. HistoryStarts(id) /\ HistoryEnds(id)
    OBVIOUS
  <2>3. HistoryStarts(id)'
    BY <2>1, <2>2 DEF HistoryStarts
  <2>4. HistoryEnds(id)'
    BY <2>1, <2>2 DEF HistoryEnds
  <2> QED
    BY <2>3, <2>4
<1> QED
  BY <1>4, <1>5, <1>6, <1>7

\* A valuation extends the chain of a settled receivable.
LEMMA HistoryValued ==
  ASSUME AuditInv, NEW key \in Receivables,
         AppendEvent(key, "valuation_attached", None),
         UNCHANGED state,
         state[key] \in Settled
  PROVE  /\ ValuationsOfSettled'
         /\ \A id \in Receivables : HistoryStarts(id)' /\ HistoryEnds(id)'
<1> USE DEF AuditInv, TypeInv
<1> DEFINE n == Len(events[key])
<1>1. /\ DOMAIN events[key] = 1..n /\ n \in Nat
      /\ DOMAIN events'[key] = 1..(n + 1)
      /\ events'[key] # <<>>
      /\ events'[key][n + 1].event = "valuation_attached"
      /\ \A i \in 1..n : events'[key][i] = events[key][i]
      /\ \A id \in Receivables \ {key} : events'[id] = events[id]
  BY ChainGrows
<1> HIDE DEF n
<1>2. state[key] # "absent"
  BY DEF Settled
<1>3. ValuationsOfSettled'
  BY <1>1 DEF ValuationsOfSettled
<1>4. HistoryStarts(key)'
  BY <1>1, <1>2 DEF HistoryStarts
<1>5. HistoryEnds(key)'
  <2>1. events[key] # <<>>
    BY <1>2 DEF HistoryStarts
  <2>2. PICK i \in 1..n :
          /\ state[key] = Outcome(events[key][i].event)
          /\ \A j \in 1..n :
               j > i <=> events[key][j].event = "valuation_attached"
    BY <1>1, <2>1 DEF HistoryEnds, EndsIn
  <2>3. /\ i \in 1..(n + 1)
        /\ n + 1 > i
        /\ \A j \in 1..(n + 1) : j \in 1..n \/ j = n + 1
    BY <1>1
  <2>4. events'[key][i] = events[key][i]
    BY <1>1
  <2>5. \A j \in 1..(n + 1) :
          j > i <=> events'[key][j].event = "valuation_attached"
    BY <1>1, <2>2, <2>3
  <2>6. \E k \in DOMAIN events'[key] :
          /\ state'[key] = Outcome(events'[key][k].event)
          /\ \A j \in DOMAIN events'[key] :
               j > k <=> events'[key][j].event = "valuation_attached"
    BY <1>1, <2>2, <2>3, <2>4, <2>5
  <2> QED
    BY <2>6 DEF HistoryEnds, EndsIn
<1>6. ASSUME NEW id \in Receivables, id # key
      PROVE  HistoryStarts(id)' /\ HistoryEnds(id)'
  <2>1. events'[id] = events[id]
    BY <1>1, <1>6
  <2>2. HistoryStarts(id) /\ HistoryEnds(id)
    OBVIOUS
  <2>3. HistoryStarts(id)'
    BY <2>1, <2>2 DEF HistoryStarts
  <2>4. HistoryEnds(id)'
    BY <2>1, <2>2 DEF HistoryEnds
  <2> QED
    BY <2>3, <2>4
<1> QED
  BY <1>3, <1>4, <1>5, <1>6

-----------------------------------------------------------------------------
(***************************************************************************)
(* What each transaction tells is what it writes.                          *)
(***************************************************************************)
TrailNext == \A id \in Receivables : TrailIsTrue(id)'

LEMMA TrailTold ==
  ASSUME AuditInv, NEW key \in Receivables, NEW name, NEW evidence,
         AppendEvent(key, name, evidence),
         \A id \in Receivables : \A e :
           CandidateFor(id, e)'
             <=> (CandidateFor(id, e)
                   \/ (id = key /\ "needs_review" = name /\ e = evidence)),
         \A id \in Receivables, action \in Actions : \A e :
           Disposed(id, action, e)'
             <=> (Disposed(id, action, e)
                   \/ (id = key /\ action = name /\ e = evidence)),
         \A id \in Receivables : \A e :
           Paid(id, e)'
             <=> (Paid(id, e)
                   \/ (id = key /\ "payment_verified" = name /\ e = evidence))
  PROVE  TrailNext
<1> USE DEF AuditInv, TypeInv
<1>1. \A id \in Receivables : \A nm, e :
        Told(id, nm, e)'
          <=> (Told(id, nm, e) \/ (id = key /\ nm = name /\ e = evidence))
  BY ToldNext
<1> SUFFICES ASSUME NEW id \in Receivables PROVE TrailIsTrue(id)'
  BY DEF TrailNext
<1>2. TrailIsTrue(id)
  OBVIOUS
<1>3. \A e : Told(id, "needs_review", e)' <=> CandidateFor(id, e)'
  BY <1>1, <1>2, Zenon DEF TrailIsTrue
<1>4. \A action \in Actions : \A e :
        Told(id, action, e)' <=> Disposed(id, action, e)'
  BY <1>1, <1>2, Zenon DEF TrailIsTrue
<1>5. \A e : Told(id, "payment_verified", e)' <=> Paid(id, e)'
  BY <1>1, <1>2, Zenon DEF TrailIsTrue
<1> QED
  BY <1>3, <1>4, <1>5 DEF TrailIsTrue

\* What a transaction that leaves a table alone leaves alone.
LEMMA CandidatesKept ==
  ASSUME UNCHANGED candidates
  PROVE  \A id, e : CandidateFor(id, e)' <=> CandidateFor(id, e)
  BY DEF CandidateFor

LEMMA DispositionsKept ==
  ASSUME UNCHANGED resolutions
  PROVE  \A id, action, e :
           Disposed(id, action, e)' <=> Disposed(id, action, e)
  BY DEF Disposed

LEMMA PaymentsKept ==
  ASSUME UNCHANGED settlements
  PROVE  \A id, e : Paid(id, e)' <=> Paid(id, e)
  BY DEF Paid

LEMMA EventNames ==
  /\ Outcome("receivable_created") = "open"
  /\ Outcome("payment_verified") = "payment_verified"
  /\ Outcome("needs_review") = "needs_review"
  /\ \A action \in Actions :
       /\ Outcome(action) = TargetState(action)
       /\ action \notin {"receivable_created", "payment_verified",
                         "needs_review", "valuation_attached"}
  BY DEF Outcome, Actions

LEMMA AuditCreate ==
  ASSUME AuditInv, NEW id \in Receivables, NEW t \in Terms,
         NEW ref \in References, CreateOrGet(id, t, ref)
  PROVE  AuditInv'
<1>1. /\ AppendEvent(id, "receivable_created", None)
      /\ state' = [state EXCEPT ![id] = "open"]
      /\ state[id] \notin Settled
      /\ UNCHANGED <<candidates, resolutions, settlements>>
  BY DEF CreateOrGet, Settled
<1>2. TypeInv'
  BY TypeCreate DEF AuditInv
<1>3. ValuationsOfSettled'
      /\ \A i \in Receivables : HistoryStarts(i)' /\ HistoryEnds(i)'
  BY <1>1, EventNames, HistoryTold
<1>4. "receivable_created" \notin Actions
  BY DEF Actions
<1>5. TrailNext
  BY <1>1, <1>4, TrailTold, CandidatesKept, DispositionsKept, PaymentsKept
<1> QED
  BY <1>2, <1>3, <1>5 DEF AuditInv, TrailNext

LEMMA AuditVerify ==
  ASSUME AuditInv, NEW f \in Evidence, MarkPaymentVerified(f)
  PROVE  AuditInv'
<1> DEFINE row == [id |-> f.id, reference |-> reference[f.id],
                   evidence |-> f, kind |-> "exact"]
<1>1. /\ AppendEvent(f.id, "payment_verified", f)
      /\ state' = [state EXCEPT ![f.id] = "payment_verified"]
      /\ state[f.id] \notin Settled
      /\ settlements' = settlements \cup {row}
      /\ UNCHANGED <<candidates, resolutions>>
  BY DEF MarkPaymentVerified, CanVerify, Settled, Settle
<1>2. f.id \in Receivables
  BY EvidenceFields
<1>3. TypeInv'
  BY TypeVerify DEF AuditInv
<1>4. ValuationsOfSettled'
      /\ \A i \in Receivables : HistoryStarts(i)' /\ HistoryEnds(i)'
  BY <1>1, <1>2, EventNames, HistoryTold
<1>5. row.id = f.id /\ row.kind = "exact" /\ row.evidence = f
  OBVIOUS
<1> HIDE DEF row
<1>6. \A id \in Receivables : \A e :
        Paid(id, e)' <=> (Paid(id, e) \/ (id = f.id /\ e = f))
  BY <1>1, <1>5 DEF Paid
<1>7. "payment_verified" \notin Actions
  BY DEF Actions
<1>8. TrailNext
  BY <1>1, <1>2, <1>6, <1>7, TrailTold, CandidatesKept, DispositionsKept
<1> QED
  BY <1>3, <1>4, <1>8 DEF AuditInv, TrailNext

LEMMA AuditReview ==
  ASSUME AuditInv, NEW f \in Evidence, MarkReviewCandidate(f)
  PROVE  AuditInv'
<1>1. /\ AppendEvent(f.id, "needs_review", f)
      /\ state' = [state EXCEPT ![f.id] = "needs_review"]
      /\ state[f.id] \notin Settled
      /\ candidates' = [candidates EXCEPT ![f.id] = Append(@, f)]
      /\ UNCHANGED <<settlements, resolutions>>
  BY DEF MarkReviewCandidate, CanReview, Settled
<1>2. f.id \in Receivables
  BY EvidenceFields
<1>3. TypeInv'
  BY TypeReview DEF AuditInv
<1>4. ValuationsOfSettled'
      /\ \A i \in Receivables : HistoryStarts(i)' /\ HistoryEnds(i)'
  BY <1>1, <1>2, EventNames, HistoryTold
<1>5. "needs_review" \notin Actions
  BY DEF Actions
<1>6. \A id \in Receivables : \A e :
        CandidateFor(id, e)' <=> (CandidateFor(id, e) \/ (id = f.id /\ e = f))
  BY <1>1, CandidatesGrow DEF AuditInv, TypeInv
<1>7. TrailNext
  BY <1>1, <1>2, <1>5, <1>6, TrailTold, PaymentsKept, DispositionsKept
<1> QED
  BY <1>3, <1>4, <1>7 DEF AuditInv, TrailNext

LEMMA AuditResolve ==
  ASSUME AuditInv, NEW f \in Evidence, NEW action \in Actions,
         NEW reason \in Reasons \cup {None}, ResolveReview(f, action, reason)
  PROVE  AuditInv'
<1> DEFINE row == [evidence |-> f, action |-> action, reason |-> reason]
<1>1. /\ AppendEvent(f.id, action, f)
      /\ state' = [state EXCEPT ![f.id] = TargetState(action)]
      /\ state[f.id] \notin Settled
      /\ resolutions' = resolutions \cup {row}
      /\ UNCHANGED candidates
  BY DEF ResolveReview, CanResolve, Settled
<1>2. f.id \in Receivables
  BY EvidenceFields
<1>3. TypeInv'
  BY TypeResolve DEF AuditInv
<1>4. ValuationsOfSettled'
      /\ \A i \in Receivables : HistoryStarts(i)' /\ HistoryEnds(i)'
  <2>1. TargetState(action) # "absent"
    BY TargetStates
  <2> QED
    BY <1>1, <1>2, <2>1, EventNames, HistoryTold
<1>5. row.evidence = f /\ row.action = action
  OBVIOUS
<1> HIDE DEF row
<1>6. \A id \in Receivables, a \in Actions : \A e :
        Disposed(id, a, e)'
          <=> (Disposed(id, a, e) \/ (id = f.id /\ a = action /\ e = f))
  BY <1>1, <1>5 DEF Disposed
<1>7. \A id, e : Paid(id, e)' <=> Paid(id, e)
  <2>1. CASE UNCHANGED settlements
    BY <2>1, PaymentsKept
  <2>2. CASE Settle(f, "accepted_underpayment")
    <3> DEFINE s == [id |-> f.id, reference |-> reference[f.id],
                     evidence |-> f, kind |-> "accepted_underpayment"]
    <3>1. settlements' = settlements \cup {s}
      BY <2>2 DEF Settle
    <3>2. s.kind # "exact"
      OBVIOUS
    <3> HIDE DEF s
    <3> QED
      BY <3>1, <3>2 DEF Paid
  <2> QED
    BY <2>1, <2>2 DEF ResolveReview
<1>8. TrailNext
  BY <1>1, <1>2, <1>6, <1>7, EventNames, TrailTold, CandidatesKept
<1> QED
  BY <1>3, <1>4, <1>8 DEF AuditInv, TrailNext

LEMMA AuditValue ==
  ASSUME AuditInv, NEW id \in Receivables, NEW q \in Quotes,
         AttachValuation(id, q)
  PROVE  AuditInv'
<1>1. /\ AppendEvent(id, "valuation_attached", None)
      /\ state[id] \in Settled
      /\ UNCHANGED <<state, candidates, resolutions, settlements>>
  BY DEF AttachValuation, CanValue
<1>2. TypeInv'
  BY TypeValue DEF AuditInv
<1>3. ValuationsOfSettled'
      /\ \A i \in Receivables : HistoryStarts(i)' /\ HistoryEnds(i)'
  BY <1>1, HistoryValued
<1>4. "valuation_attached" \notin Actions
  BY DEF Actions
<1>5. TrailNext
  BY <1>1, <1>4, TrailTold, CandidatesKept, DispositionsKept, PaymentsKept
<1> QED
  BY <1>2, <1>3, <1>5 DEF AuditInv, TrailNext

LEMMA AuditStep == AuditInv /\ [LedgerNext]_ledgerVars => AuditInv'
<1> SUFFICES ASSUME AuditInv, [LedgerNext]_ledgerVars PROVE AuditInv'
  OBVIOUS
<1>1. CASE UNCHANGED <<state, events, candidates, resolutions, settlements>>
  <2>1. \A id, nm, e : Told(id, nm, e)' <=> Told(id, nm, e)
    BY <1>1 DEF Told
  <2>2. \A id \in Receivables : TrailIsTrue(id)'
    BY <1>1, <2>1, CandidatesKept, DispositionsKept, PaymentsKept
    DEF AuditInv, TrailIsTrue
  <2>3. ValuationsOfSettled'
    BY <1>1 DEF AuditInv, ValuationsOfSettled
  <2>4. \A id \in Receivables : HistoryStarts(id)' /\ HistoryEnds(id)'
    BY <1>1 DEF AuditInv, HistoryStarts, HistoryEnds
  <2> QED
    BY <2>2, <2>3, <2>4, TypeStep DEF AuditInv
<1> QED
  BY <1>1, AuditCreate, AuditVerify, AuditReview, AuditResolve, AuditValue
  DEF LedgerNext, ledgerVars, RecordMonthClose, InsertReceipt

\* The append-only event chain and the mutable tables, which separate
\* statements of each transaction write, always tell one story.
THEOREM AuditAlwaysExplainsLedger == LedgerSpec => []AuditExplainsLedger
  BY AuditInit, AuditStep, AuditFollows, PTL DEF LedgerSpec

-----------------------------------------------------------------------------
(***************************************************************************)
(* One-time references.                                                    *)
(***************************************************************************)
ReferencesAreOwn ==
  \A id1, id2 \in Receivables :
    reference[id1] # None /\ reference[id1] = reference[id2] => id1 = id2

LEMMA ReferenceStep ==
  ASSUME TypeInv, ReferencesAreOwn, [LedgerNext]_ledgerVars
  PROVE  ReferencesAreOwn'
<1>1. CASE UNCHANGED reference
  BY <1>1 DEF ReferencesAreOwn
<1>2. ASSUME NEW id \in Receivables, NEW t \in Terms, NEW ref \in References,
             CreateOrGet(id, t, ref)
      PROVE  ReferencesAreOwn'
  <2>1. /\ reference \in [Receivables -> References \cup {None}]
        /\ reference' = [reference EXCEPT ![id] = ref]
        /\ \A other \in Receivables : reference[other] # ref
    BY <1>2 DEF CreateOrGet, TypeInv, TypeOK
  <2> QED
    BY <2>1 DEF ReferencesAreOwn
<1> QED
  BY <1>1, <1>2 DEF LedgerNext, ledgerVars, MarkPaymentVerified,
     MarkReviewCandidate, ResolveReview, AttachValuation, RecordMonthClose,
     InsertReceipt

\* Whose reference a settlement spent is settled.
LEMMA SpentReference ==
  ASSUME SettlementInv, ReferencesAreOwn, NEW id \in Receivables,
         NEW q \in settlements, q.reference = reference[id]
  PROVE  state[id] \in Settled
<1>1. /\ q.reference \in References /\ q.id \in Receivables
      /\ q.reference = reference[q.id]
      /\ state[q.id] \in Settled
  BY SettlementStates
  DEF SettlementInv, TypeInv, TypeOK, Settlement, StateMatchesSettlement
<1>2. reference[id] # None
  BY <1>1, LedgerAssumption
<1>3. q.id = id
  BY <1>1, <1>2 DEF ReferencesAreOwn
<1> QED
  BY <1>1, <1>3

=============================================================================
