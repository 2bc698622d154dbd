--------------------------- MODULE Reconciliation ---------------------------
(***************************************************************************)
(* The processes that move receivables through the ledger: the background  *)
(* and hot passes of run-reconcile-job.sh, bounded watches and single      *)
(* checks (apps/recebi-mcp/src/reconcile.rs), the operator who disposes of *)
(* reviews, and the finalized chain they read over RPC.                    *)
(*                                                                         *)
(* A pass is a sequence of store calls and RPC calls with other processes  *)
(* in between, so each call that reads or changes shared state is a step   *)
(* of its own and what it read is kept in the worker's record.  Background *)
(* and hot passes and watches hold a lease that expires by the clock; a    *)
(* single check holds none.                                                *)
(***************************************************************************)
EXTENDS Ledger, FiniteSets

CONSTANTS
  Workers,           \* processes
  Kind,              \* what each of them runs
  Verdict,           \* what a transaction is to a receivable, None: nothing
  Unreadable,        \* transactions the node never gives in a form that decodes
  MaxOpen,           \* receivables a pass takes (max_open_reconcile, <= 10)
  MaxCandidates,     \* MAX_CANDIDATE_SIGNATURES
  MaxNotices,        \* MAX_ANOMALY_SAMPLES, also the notifications per pass
  Polls,             \* WATCH_POLLS_PER_WINDOW
  OperatorActions,   \* the dispositions the operator uses
  MaxFaults,         \* bound on crashes, RPC failures and transport failures
  Orphan             \* the random lease owner of a process that crashed

Kinds == {"background", "hot", "watch", "check"}

ASSUME ReconciliationAssumption ==
  /\ Kind \in [Workers -> Kinds]
  /\ Verdict \in [Receivables -> [Signatures ->
                    {"exact", "underpayment", None} \cup Anomalies]]
  /\ {"duplicate_signature", "reference_reused"} \subseteq Anomalies
  /\ \A id \in Receivables, s \in Signatures :
       Verdict[id][s] # None =>
         \A v \in {Verdict[id][s], "duplicate_signature",
                   "reference_reused"} :
           [id |-> id, signature |-> s, verdict |-> v] \in Evidence
  /\ Unreadable \subseteq Signatures
  /\ {MaxOpen, MaxCandidates, MaxNotices, Polls, MaxFaults} \subseteq Nat
  /\ OperatorActions \subseteq Actions
  /\ None # Orphan /\ {None, Orphan} \cap Workers = {}

VARIABLES
  worker,  \* what each process is doing and what it has read
  lease,   \* the row of reconciliation_lease and whether it is unexpired
  chain,   \* finalized signatures, the newest last
  book,    \* receivables in creation order (created_at_unix_ms)
  young,   \* receivables created within HOT_WINDOW
  sent,    \* Telegram messages: the notification and the evidence they name
  faults   \* faults so far

processVars == <<worker, lease, chain, book, young, sent, faults>>
vars == <<ledgerVars, processVars>>

Idle ==
  [pc |-> "idle",
   job |-> "pass",      \* "pass": checking receivables; "notices": re-checking
   todo |-> {},         \* places in the book still to check
   polls |-> 1,         \* checks left of each of them
   id |-> None,         \* receivable being checked
   fetched |-> {},      \* places in the chain of the candidates fetched
   left |-> {},         \* those not assessed yet
   seen |-> {},         \* resolved fingerprints read before the assessment
   found |-> None,      \* first_anomaly, or the exact evidence to record
   notices |-> {},      \* pending notifications to re-check
   mail |-> <<>>]       \* re-checked notifications to send

Init ==
  /\ LedgerInit
  /\ worker = [w \in Workers |-> Idle]
  /\ lease = [holder |-> None, live |-> FALSE]
  /\ chain = <<>>
  /\ book = <<>>
  /\ young = {}
  /\ sent = {}
  /\ faults = 0

At(w, pc) == worker[w].pc = pc

Leased(w) == Kind[w] # "check"

Become(w, record) == worker' = [worker EXCEPT ![w] = record]

\* A step of one process that touches nothing but its own record.
Only(w, record) ==
  /\ Become(w, record)
  /\ UNCHANGED <<ledgerVars, lease, chain, book, young, sent, faults>>

\* Fault: an error inside the pass returns before the lease is released.
FailedWithoutRelease(w) == Idle

\* An error returned with `?`: the pass ends, its lease is released, and its
\* caller gets no result, so the script sends nothing.
Failed(w) == IF Leased(w) THEN [Idle EXCEPT !.pc = "release"] ELSE Idle

Least(S) == CHOOSE n \in S : \A k \in S : n <= k

Greatest(S) == CHOOSE n \in S : \A k \in S : k <= n

\* ORDER BY ... LIMIT: the least members of a set of places.
Limit(S, n) == {k \in S : Cardinality({j \in S : j < k}) < n}

Fault ==
  /\ faults < MaxFaults
  /\ faults' = faults + 1

-----------------------------------------------------------------------------
(***************************************************************************)
(* The lease and the list.                                                 *)
(***************************************************************************)

\* Fault: an expired lease is never replaced.
LeaseFreeIfAbsent == lease.holder = None

LeaseFree == lease.holder = None \/ ~lease.live

\* acquire_reconciliation_lease, at the start of reconcile_open,
\* hot_reconcile and watch_id_with; while it is busy nothing happens.
Acquire(w) ==
  /\ At(w, "idle")
  /\ Leased(w)
  /\ LeaseFree
  /\ lease' = [holder |-> w, live |-> TRUE]
  /\ \/ /\ Kind[w] \in {"background", "hot"}
        /\ Become(w, [Idle EXCEPT !.pc = "list"])
     \/ /\ Kind[w] = "watch"
        /\ \E n \in DOMAIN book :
             Become(w, [Idle EXCEPT !.pc = "next", !.todo = {n},
                                    !.polls = Polls])
  /\ UNCHANGED <<ledgerVars, chain, book, young, sent, faults>>

\* check: one receivable, outside the lease.  An unknown identifier is
\* refused before anything happens, here and in a watch.
StartCheck(w) ==
  /\ At(w, "idle")
  /\ Kind[w] = "check"
  /\ \E n \in DOMAIN book :
       Only(w, [Idle EXCEPT !.pc = "next", !.todo = {n}])

\* list_open and list_open_since.
Listed(w) ==
  Limit({n \in DOMAIN book :
           /\ state[book[n]] = "open"
           /\ Kind[w] = "hot" => book[n] \in young}, MaxOpen)

List(w) ==
  /\ At(w, "list")
  /\ Only(w, [worker[w] EXCEPT !.pc = "next", !.todo = Listed(w)])

\* The loop of reconcile_acquired, hot_reconcile_acquired, watch_id_acquired.
NextReceivable(w) ==
  /\ At(w, "next")
  /\ LET me == worker[w]
         n == Least(me.todo)
     IN  CASE me.todo # {} ->
                Only(w, [me EXCEPT
                           !.pc = "read", !.id = book[n], !.polls = @ - 1,
                           !.todo = IF me.polls > 1 THEN @ ELSE @ \ {n}])
           [] me.todo = {} /\ Kind[w] \in {"background", "hot"} ->
                Only(w, [me EXCEPT !.pc = "pending", !.job = "notices"])
           [] OTHER -> Only(w, Failed(w))

-----------------------------------------------------------------------------
(***************************************************************************)
(* One check (check_id_with_genesis and check_open).                       *)
(***************************************************************************)

\* Fault: the status of the re-check is not compared with the notification.
NoticeHoldsAlways(n, status) == status \in {"payment_verified", "needs_review"}

\* pending_terminal_notifications re-checks the receivable of a notification
\* and wants the status the notification was written for.
NoticeHolds(n, status) == status = outbox[n].status

\* What a worker does with the answer to a check: the status and the evidence
\* it names.
Answered(w, status, f) ==
  LET me == worker[w]
      rest == [me EXCEPT !.pc = IF me.job = "notices" THEN "notice" ELSE "next",
                         !.id = None, !.fetched = {}, !.left = {},
                         !.seen = {}, !.found = None,
                         !.polls = IF Kind[w] = "watch" THEN @ ELSE 1]
  IN  CASE me.job = "notices" ->
             IF NoticeHolds(Least(me.notices), status)
             THEN [rest EXCEPT
                     !.notices = @ \ {Least(@)},
                     !.mail = Append(@, [notification |-> Least(me.notices),
                                         status |-> status,
                                         evidence |-> f])]
             ELSE Failed(w)
        [] me.job = "pass" /\ Kind[w] = "check" -> Idle
        [] me.job = "pass" /\ Kind[w] = "watch" ->
             IF status \in {"pending", "incomplete"} THEN rest ELSE Failed(w)
        [] OTHER ->
             IF status \in {"cancelled", "settled_with_variance"}
             THEN Failed(w) ELSE rest

Answer(w, status, f) == Only(w, Answered(w, status, f))

\* The state is read, and acted on in later steps.
Read(w) ==
  /\ At(w, "read")
  /\ LET me == worker[w]
         goto(pc) == Only(w, [me EXCEPT !.pc = pc])
     IN  CASE state[me.id] = "open" -> goto("fetch")
           [] state[me.id] = "needs_review" -> goto("candidate")
           [] state[me.id] \in Settled -> goto("value")
           [] state[me.id] = "cancelled" -> Answer(w, "cancelled", None)

\* review_candidate; it cannot parse an underpayment with no block time.
ReadCandidate(w) ==
  /\ At(w, "candidate")
  /\ \/ \E f \in UnderReview(worker[w].id) :
          /\ f.verdict = "underpayment" => f.signature \in Timed
          /\ Answer(w, "needs_review", f)
     \/ /\ \A f \in UnderReview(worker[w].id) :
             f.verdict = "underpayment" /\ f.signature \notin Timed
        /\ Only(w, Failed(w))

\* settlement_summary and try_value_settled, which attaches the official
\* quote if the central bank has published one; settled_receivable refuses a
\* settlement with no block time.
Value(w) ==
  /\ At(w, "value")
  /\ \E s \in settlements :
       /\ s.id = worker[w].id
       /\ IF s.evidence.signature \notin Timed
          THEN Only(w, Failed(w))
          ELSE /\ \/ UNCHANGED ledgerVars
                  \/ \E q \in Quotes : AttachValuation(s.id, q)
               /\ Become(w, Answered(w, state[s.id], s.evidence))
               /\ UNCHANGED <<lease, chain, book, young, sent, faults>>

\* The places in the chain that name the reference of a receivable.
Named(id) == {n \in DOMAIN chain : Verdict[id][chain[n]] # None}

\* signatures_for_reference: the finalized signatures that name the
\* reference; one more than the bound is an incomplete answer.
Fetch(w) ==
  /\ At(w, "fetch")
  /\ LET me == worker[w]
         named == Named(me.id)
     IN  CASE named = {} -> Answer(w, "pending", None)
           [] Cardinality(named) > MaxCandidates ->
                Answer(w, "incomplete", None)
           [] OTHER -> Only(w, [me EXCEPT !.pc = "resolved",
                                          !.fetched = named, !.left = named])

\* A check that gets no evidence is incomplete; a watch ends when what it got
\* does not decode, and polls again when it got no answer.
Unread(w) ==
  \/ Become(w, Answered(w, "incomplete", None))
  \/ /\ Kind[w] = "watch"
     /\ At(w, "assess")
     /\ Become(w, Failed(w))

\* The RPC does not answer, or its answer does not decode.
RpcFails(w) ==
  /\ worker[w].pc \in {"fetch", "assess"}
  /\ Fault
  /\ Unread(w)
  /\ UNCHANGED <<ledgerVars, lease, chain, book, young, sent>>

\* resolved_review_fingerprints
ReadResolved(w) ==
  /\ At(w, "resolved")
  /\ Only(w, [worker[w] EXCEPT
                !.pc = "assess",
                !.seen = {r.evidence : r \in {q \in resolutions :
                            q.evidence.id = worker[w].id}}])

\* replay_state and assess_settlement_once.
Assessment(id, s) ==
  [id |-> id, signature |-> s,
   verdict |->
     IF \E q \in settlements : q.evidence.signature = s
     THEN "duplicate_signature"
     ELSE IF \E q \in settlements : q.reference = reference[id]
          THEN "reference_reused"
          ELSE Verdict[id][s]]

\* Fault: the first anomaly is recorded before the rest is assessed.
AfterAnomalyEager(me, f) ==
  IF f \in me.seen THEN me ELSE [me EXCEPT !.found = f, !.left = {}]

\* first_anomaly keeps the first candidate without a disposition.
AfterAnomaly(me, f) ==
  [me EXCEPT !.found = IF @ = None /\ f \notin me.seen THEN f ELSE @]

\* The loop over the candidates, the newest first, comes to one that cannot be
\* read: the check ends there, whatever the older ones are.
AssessUnreadable(w) ==
  /\ At(w, "assess")
  /\ worker[w].left # {}
  /\ chain[Greatest(worker[w].left)] \in Unreadable
  /\ Unread(w)
  /\ UNCHANGED <<ledgerVars, lease, chain, book, young, sent, faults>>

\* It comes to one that can be read.
Assess(w) ==
  /\ At(w, "assess")
  /\ worker[w].left # {}
  /\ LET n == Greatest(worker[w].left)
         me == [worker[w] EXCEPT !.left = @ \ {n}]
         f == Assessment(me.id, chain[n])
     IN  /\ chain[n] \notin Unreadable
         /\ IF f.verdict = "exact"
            THEN Only(w, [me EXCEPT !.pc = "verify", !.found = f])
            ELSE Only(w, AfterAnomaly(me, f))

AssessedAll(w) ==
  /\ At(w, "assess")
  /\ worker[w].left = {}
  /\ IF worker[w].found = None
     THEN Answer(w, "pending", None)
     ELSE Only(w, [worker[w] EXCEPT !.pc = "record"])

\* mark_payment_verified: done, already done, or refused.
Verify(w) ==
  /\ At(w, "verify")
  /\ LET f == worker[w].found IN
       \/ /\ MarkPaymentVerified(f)
          /\ Become(w, Answered(w, "payment_verified", f))
          /\ UNCHANGED <<lease, chain, book, young, sent, faults>>
       \/ /\ VerifyRetry(f)
          /\ Answer(w, "payment_verified", f)
       \/ /\ ~CanVerify(f) /\ ~VerifyRetry(f)
          /\ Only(w, Failed(w))

\* record_anomaly: done or refused.
Record(w) ==
  /\ At(w, "record")
  /\ LET f == worker[w].found IN
       \/ /\ MarkReviewCandidate(f)
          /\ Become(w, Answered(w, "needs_review", f))
          /\ UNCHANGED <<lease, chain, book, young, sent, faults>>
       \/ /\ ~CanReview(f)
          /\ Only(w, Failed(w))

-----------------------------------------------------------------------------
(***************************************************************************)
(* Notifications, the end of a pass, and delivery by the script.           *)
(***************************************************************************)
Delivered(n) == \E d \in receipts : d.notification = n

\* Fault: the outbox is read without its receipts.
PendingIgnoringReceipts == DOMAIN outbox

Pending == {n \in DOMAIN outbox : ~Delivered(n)}

ReadPending(w) ==
  /\ At(w, "pending")
  /\ Only(w, [worker[w] EXCEPT !.pc = "notice",
                               !.notices = Limit(Pending, MaxNotices)])

\* Re-check the receivable of the next notification with check_id; after the
\* last one the pass returns.
NextNotice(w) ==
  /\ At(w, "notice")
  /\ LET me == worker[w] IN
       IF me.notices = {}
       THEN Only(w, [me EXCEPT !.pc = "release"])
       ELSE Only(w, [me EXCEPT !.pc = "read",
                               !.id = outbox[Least(me.notices)].evidence.id])

\* Fault: the row is deleted whoever owns it.
AfterAnyRelease(w) == [holder |-> None, live |-> FALSE]

AfterRelease(w) ==
  IF lease.holder = w THEN [holder |-> None, live |-> FALSE] ELSE lease

\* Fault: a notification is acknowledged before it is sent.
DeliverUnsent(me) ==
  IF me.mail = <<>> THEN Idle ELSE [me EXCEPT !.pc = "acknowledge"]

\* The loop of run_pass over the terminal records.
Deliver(me) == IF me.mail = <<>> THEN Idle ELSE [me EXCEPT !.pc = "send"]

\* release_reconciliation_lease; the MCP process then answers the script.
Release(w) ==
  /\ At(w, "release")
  /\ lease' = AfterRelease(w)
  /\ Become(w, Deliver(worker[w]))
  /\ UNCHANGED <<ledgerVars, chain, book, young, sent, faults>>

\* send_message
Send(w) ==
  /\ At(w, "send")
  /\ sent' = sent \cup {Head(worker[w].mail)}
  /\ Become(w, [worker[w] EXCEPT !.pc = "acknowledge"])
  /\ UNCHANGED <<ledgerVars, lease, chain, book, young, faults>>

\* The script runs under set -e and ends.
SendFails(w) ==
  /\ At(w, "send")
  /\ Fault
  /\ Become(w, Idle)
  /\ UNCHANGED <<ledgerVars, lease, chain, book, young, sent>>

\* The SELECT of mark_terminal_notification_delivered.
Acknowledge(w) ==
  /\ At(w, "acknowledge")
  /\ LET me == worker[w]
         n == Head(me.mail).notification
     IN  IF Delivered(n)
         THEN Only(w, Deliver([me EXCEPT !.mail = Tail(@)]))
         ELSE Only(w, [me EXCEPT !.pc = "receipt"])

\* Its INSERT, in a statement of its own; a receipt written in between makes
\* it fail.
Receipt(w) ==
  /\ At(w, "receipt")
  /\ LET me == worker[w]
         n == Head(me.mail).notification
     IN  \/ /\ \E receipt \in Receipts : InsertReceipt(n, receipt)
            /\ Become(w, Deliver([me EXCEPT !.mail = Tail(@)]))
            /\ UNCHANGED <<lease, chain, book, young, sent, faults>>
         \/ /\ Delivered(n)
            /\ Only(w, Idle)

\* The process dies; nobody knows the random owner of its lease.
Crash(w) ==
  /\ ~At(w, "idle")
  /\ Fault
  /\ Become(w, Idle)
  /\ lease' = [lease EXCEPT !.holder = IF @ = w THEN Orphan ELSE @]
  /\ UNCHANGED <<ledgerVars, chain, book, young, sent>>

-----------------------------------------------------------------------------
(***************************************************************************)
(* The surroundings.                                                       *)
(***************************************************************************)

\* create: a random reference never met before; which one is immaterial.
Issue(id) ==
  /\ Unused # {}
  /\ \E t \in Terms : CreateOrGet(id, t, CHOOSE r \in Unused : TRUE)
  /\ book' = Append(book, id)
  /\ young' = young \cup {id}
  /\ UNCHANGED <<worker, lease, chain, sent, faults>>

\* A transaction that names the references of issued receivables finalizes.
Finalize(s) ==
  /\ \A n \in DOMAIN chain : chain[n] # s
  /\ \A id \in Receivables : Verdict[id][s] # None => state[id] # "absent"
  /\ chain' = Append(chain, s)
  /\ UNCHANGED <<ledgerVars, worker, lease, book, young, sent, faults>>

\* An approved disposition, for any fingerprint the operator was ever shown.
Resolve(f) ==
  /\ \E action \in OperatorActions, reason \in Reasons \cup {None} :
       ResolveReview(f, action, reason)
  /\ UNCHANGED processVars

\* The clock: HOT_WINDOW passes, which only hot passes can tell, or
\* LEASE_DURATION_MS passes.
Age(id) ==
  /\ id \in young
  /\ \E w \in Workers : Kind[w] = "hot"
  /\ young' = young \ {id}
  /\ UNCHANGED <<ledgerVars, worker, lease, chain, book, sent, faults>>

Expire ==
  /\ lease.live
  /\ lease' = [lease EXCEPT !.live = FALSE]
  /\ UNCHANGED <<ledgerVars, worker, chain, book, young, sent, faults>>

Check(w) ==
  \/ Read(w) \/ ReadCandidate(w) \/ Value(w) \/ Fetch(w) \/ ReadResolved(w)
  \/ AssessUnreadable(w) \/ Assess(w) \/ AssessedAll(w) \/ Verify(w) \/ Record(w)

Proceed(w) ==
  \/ List(w) \/ NextReceivable(w) \/ Check(w) \/ ReadPending(w)
  \/ NextNotice(w) \/ Release(w) \/ Send(w) \/ Acknowledge(w) \/ Receipt(w)

Next ==
  \/ \E w \in Workers :
       \/ Acquire(w) \/ StartCheck(w) \/ Proceed(w)
       \/ RpcFails(w) \/ SendFails(w) \/ Crash(w)
  \/ \E id \in Receivables : Issue(id) \/ Age(id)
  \/ \E s \in Signatures : Finalize(s)
  \/ \E f \in Evidence : Resolve(f)
  \/ Expire

Spec == Init /\ [][Next]_vars

\* A process that runs takes its next step; the scheduler starts background
\* passes again and again, and one of them meets a free lease; time passes.
\* The operator, the payers and the other processes owe nothing.
Fairness ==
  /\ \A w \in Workers : WF_vars(Proceed(w))
  /\ \A w \in Workers : Kind[w] = "background" => SF_vars(Acquire(w))
  /\ WF_vars(Expire)

FairSpec == Spec /\ Fairness

-----------------------------------------------------------------------------
(***************************************************************************)
(* Properties.                                                             *)
(***************************************************************************)

\* A worker is between the calls of its kind, and the lease row is in step
\* with it: who holds the lease, expired or not, is inside a pass and will
\* release it, on every error path too.
InPass(w) ==
  /\ Leased(w)
  /\ worker[w].pc \notin {"idle", "send", "acknowledge", "receipt"}

WorkersOK ==
  /\ \A w \in Workers :
       /\ worker[w].id \in Receivables \cup {None}
       /\ worker[w].found \in Evidence \cup {None}
       /\ worker[w].seen \subseteq Evidence
       /\ worker[w].notices \subseteq DOMAIN outbox
       /\ \A n \in DOMAIN worker[w].mail :
            worker[w].mail[n].notification \in DOMAIN outbox
  /\ lease \in [holder : Workers \cup {None, Orphan}, live : BOOLEAN]
  /\ lease.holder \in Workers => InPass(lease.holder)
  /\ \A id \in Receivables :
       (\E n \in DOMAIN book : book[n] = id) <=> state[id] # "absent"

\* A lease that has not expired leaves its holder only when the holder itself
\* releases it or dies, however many passes outlive theirs
\* (acquire_reconciliation_lease, release_reconciliation_lease).
LeaseIsRespected ==
  [][ lease.live /\ lease'.holder # lease.holder =>
        \/ /\ lease'.holder = Orphan
           /\ worker'[lease.holder] = Idle
        \/ /\ lease'.holder = None
           /\ lease.holder \in Workers
           /\ At(lease.holder, "release")
    ]_vars

\* An exact payment wins over every anomaly fetched with it: a check records
\* an anomaly only when each exact transaction it fetched has already settled
\* a receivable (check_open's loop over the candidates).
ExactPaymentWins ==
  [][ \A id \in Receivables, w \in Workers :
        /\ state[id] = "open" /\ state'[id] = "needs_review"
        /\ worker[w].id = id /\ At(w, "record") /\ worker'[w] # worker[w]
        => \A n \in worker[w].fetched :
             Verdict[id][chain[n]] = "exact" =>
               \E q \in settlements : q.evidence.signature = chain[n]
    ]_vars

\* A message tells the operator what its notification was written for: the
\* status of that notification, and evidence of its receivable that the
\* ledger holds with that status (pending_terminal_notifications).
MessagesAreTrue ==
  \A m \in sent :
    LET n == outbox[m.notification] IN
      /\ m.status = n.status
      /\ m.evidence.id = n.evidence.id
      /\ m.status = "payment_verified" =>
           \E s \in settlements : s.evidence = m.evidence /\ s.kind = "exact"
      /\ m.status = "needs_review" =>
           \E i \in DOMAIN candidates[m.evidence.id] :
             candidates[m.evidence.id][i] = m.evidence

\* A notification is acknowledged only after a message for it went out, so a
\* crash between the two repeats the message and never loses it (run_pass).
ReceiptsFollowMessages ==
  \A d \in receipts : \E m \in sent : m.notification = d.notification

\* A receivable with an exact finalized payment that no other receivable can
\* claim does not stay open: however often passes fail and processes crash,
\* a later background pass settles it or finds it flagged or cancelled.  Three
\* things can stand before it on every pass: MaxOpen older receivables that
\* stay open and fill the list (list_open), more than MaxCandidates signatures
\* on its reference (signatures_for_reference), and a transaction that names
\* the reference, cannot be read and is no older than the payment (check_open).
OwnExactPayments(id) ==
  {n \in Named(id) :
     /\ Verdict[id][chain[n]] = "exact"
     /\ \A other \in Receivables \ {id} : n \notin Named(other)}

Crowded(id) ==
  \E n \in DOMAIN book :
    /\ book[n] = id
    /\ Cardinality({k \in 1..(n - 1) : state[book[k]] = "open"}) >= MaxOpen

Overfull(id) == Cardinality(Named(id)) > MaxCandidates

Obscured(id) ==
  \A n \in OwnExactPayments(id) :
    \E k \in Named(id) : n <= k /\ chain[k] \in Unreadable

PaymentsAreNoticed ==
  \A id \in Receivables :
    state[id] = "open" /\ OwnExactPayments(id) # {} ~>
      state[id] # "open" \/ Crowded(id) \/ Overfull(id) \/ Obscured(id)

\* The outbox drains: every notification is delivered and acknowledged in the
\* end, whatever fails on the way.
Announced(f) ==
  \E n \in DOMAIN outbox : outbox[n].evidence = f /\ Delivered(n)

NoticesAreDelivered == \A f \in Evidence : Notified(f) ~> Announced(f)

\* It drains at least while every notification that waits can be confirmed: a
\* pass is held up only by one whose receivable has left the status it was
\* written for, or whose evidence has no block time (terminal_notification).
Confirmable(n) ==
  LET id == outbox[n].evidence.id IN
    /\ state[id] = outbox[n].status
    /\ \A s \in settlements : s.id = id => s.evidence.signature \in Timed
    /\ \A f \in UnderReview(id) : f.verdict = "underpayment" => f.signature \in Timed

ConfirmableNoticesAreDelivered ==
  <>[](\A n \in DOMAIN outbox : Delivered(n) \/ Confirmable(n)) => NoticesAreDelivered

=============================================================================
