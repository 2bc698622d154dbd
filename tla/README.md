# Recebi in TLA+

Recebi is a local payment desk: it issues Solana Pay requests, watches the
finalized chain for the transactions that pay them, records what it finds in a
SQLite ledger, lets an operator dispose of payments that do not fit, tells the
operator over Telegram, and closes months for an accountant.  This directory
holds TLA+ models of it, the TLC configurations that check them and theorems
about them that TLAPS proves.  Paths below are relative to `src/`; `store`
stands for `crates/recebi-store/src/lib.rs`, `settlement` and
`transaction_decode` and `ptax` for files of `crates/recebi-core/src`,
`reconcile`, `rpc` and `close_month` for files of `apps/recebi-mcp/src`.

## The system

| Component | State it keeps | Operations | What makes it correct |
|---|---|---|---|
| Ledger (`store`) | receivables, settlements, review candidates and resolutions, valuations, month closes, event chain, checkpoints, outbox and receipts | `create_or_get`, `mark_payment_verified`, `mark_needs_review`, `mark_underpayment_review`, `resolve_review`, `attach_valuation`, `record_month_close`, `mark_terminal_notification_delivered` | one payment settles one receivable; state, settlement, review and audit trail agree; dispositions are final; retries succeed |
| Opening the ledger (`store`) | the schema versions, the shapes of the tables, the first checkpoint | `open`: schema batch, `migrate_state_constraint`, `migrate_phase_five_schema`, `migrate_phase_six_schema`, `migrate_variance_schema`, `initialize_ledger_checkpoints` | whatever release wrote the file and whoever else opens it, what `open` returns is current, checkpointed and says what the old rows said |
| Leases (`store`) | one reconciliation lease, one export lease per month, with expiry | acquire, release | an unexpired lease is only lost by its owner |
| Reconciliation (`reconcile`) | nothing durable; what a pass has read so far | `reconcile_open`, `hot_reconcile`, `watch_payment`, `check`, `resolve_review`, `acknowledge_notification` | exact payments win over anomalies and are noticed |
| Job script (`scripts/run-reconcile-job.sh`) | the result of a pass | send, acknowledge | messages are true, may repeat, are not lost |
| Month close (`close_month`) | export directories | `close`, `snapshot` | a revision is one true state of the ledger; later revisions only add; what is reported is recorded and published |
| RPC client (`rpc`) | none | `signatures_for_reference`, `transaction` | answers are bounded, or incomplete |
| Transaction decoding (`transaction_decode`) | none | `decode_transaction` | every key gets the role the chain gave it, or there is no snapshot |
| Settlement assessment (`settlement`) | none | `assess_settlement_once` | what is accepted was paid, what was paid is accepted, an underpayment lacks only the amount |
| Amounts and calendars (`model/amount.rs`, `ptax`, `close_month`) | none | `from_decimal`, `format`, `PtaxDecimal::parse`, `civil_from_days`, `days_from_civil`, `month_bounds`, `validate_eligibility`, `nominal_brl_reference_cents` | an amount survives its texts; two calendars agree; a reference is the nearest cent |
| PTAX client (`apps/recebi-mcp/src/ptax.rs`) | the attempts of a request | `quote`, `parse_response` | a quote is of the day of the payment, or there is none |
| QR, MCP server, configuration, health | none that matters here | | |

Processes are independent: the MCP server of a chat session, scheduled
background and hot workers, and operator commands each open the database
themselves.  They meet only in SQLite (immediate transactions), in the two
kinds of lease, in the export directories and in the Telegram chat.  A single
`check` takes no lease.  The hard part is that a pass consists of dozens of
store and RPC calls: everything it acts on was read earlier, leases expire
under it, processes die between any two calls, and the operator acts on
messages that may be old.  `PROJECT.json` lists the hazards with their lines.

## Modules

* **`Lifecycle`** is the abstract promise: the states of a receivable, the
  edges between them, and a signature that is spent at most once.
* **`Ledger`** models the tables of `store` and its transactions, one action
  each.  A fingerprint is the record of what its SHA-256 digest covers; the
  material root is the tuple of the tables `ledger_root` hashes, so `Intact` is
  the comparison that `verify_ledger_checkpoints` makes before every call.
  Arguments are arbitrary, so every stale call is included.  `Life` maps it to
  `Lifecycle`.
* **`StoreOpen`** models `ReceivableStore::open` by several processes at once.
  The database is what the migrations can tell apart: which versions are
  recorded, what shape each table has, which states the CHECK of `receivables`
  admits, the rows that a migration copies, and the root of the last
  checkpoint.  Every transaction is `Begin` (wait for the only write lock) and
  an action that commits; every statement outside a transaction is an action of
  its own, so what it read may be stale; a verification reads the chain and then
  table by table, and is torn by a write to a table it has still to read
  (`Torn`).  `Files` are the files of each earlier
  release, as the migration tests of the store build them.  A process that has
  the store open may write, close it, and open it again.  Three operations of
  the ledger on the receivables of the model stand for all, together with the
  creation of receivables beyond them (`CreateOther`): a ledger that grows can
  be written to without end.
* **`LedgerProofs`**, **`ReconciliationProofs`**, **`MonthCloseProofs`**,
  **`SettlementProofs`**, **`StoreOpenProofs`**, **`CalendarProofs`** and
  **`ValuationProofs`** prove theorems about the modules they are named after;
  **`LeastNumber`** has what several of them share: the least number
  principle, and induction and recursion derived from it.
* **`Reconciliation`** extends `Ledger` with the processes, the lease, the
  chain and the chat.  Every store or RPC call of a pass is an action; what it
  read is in the process's record (`worker`).  `Acquire` to `NextReceivable`
  are the pass, `Read` to `Record` are `check_id_with_genesis` and
  `check_open` (`Unreadable` are transactions that never decode), `ReadPending` to `NextNotice` are
  `pending_terminal_notifications`, `Send` to `Receipt` are the script.
* **`MonthClose`** extends `Ledger` with exporters, the leases of the months
  and the published directories.  `Elsewhere` stands for the rest of the
  program, which goes on writing to the ledger.
* **`Settlement`** stands by itself: one transaction on the chain, written with
  the keys themselves; the answer a node gives for it, with indices and counts
  and possibly with a fault (`Answer`); `parse_transaction` and
  `decode_transaction` (`Decodable`, `Snapshot`); and `assess_settlement_once`
  on the snapshot, as the list of its checks in the order of the code
  (`Checks`).  Its actions are the three steps of `check` for one candidate.
  The properties say what a payment is in terms of keys alone, so that they do
  not repeat the verifier.  Its verdicts are the constant `Verdict` of
  `Reconciliation`.
* **`Calendar`** has the operators of the two hand-written calendars, one in
  each crate, and of the months of an export; months are texts, because the
  code compares them as texts.
* **`Valuation`** extends it with one receivable at a time: the amount the
  operator types (`Create`), what the wallet reads in the URL and pays
  (`Settle`), the request to the central bank with its retries (`Request`,
  `TransportFails`, `Answer`), the selection of the quote and the rounding
  (`Value`).  The clock ticks along a calendar that only knows how many days a
  month has.  The widths of the integers are constants, so that a run meets
  their limits.
* **`MCLedger`**, **`MCReconciliation`**, **`MCMonthClose`**,
  **`MCSettlement`**, **`MCStoreOpen`**, **`MCValuation`** define the small
  instances.

Operators whose comment begins with "Fault:" are not part of the system: each
is a plausible bug of the operator that follows it, and shows that the
property it is paired with in `PROJECT.json` can fail.

## Runs

| Run | Shows | Bounds |
|---|---|---|
| `ledger` | all properties of the ledger, and that it implements `Lifecycle` | 2 receivables, 3 transactions, one of which pays both exactly and one without a block time; 2 quotes; 1 month with 2 possible contents |
| `races` | `WorkersOK`, `ExactPaymentWins` | a watch and a check, 2 receivables sharing a transaction, an own exact payment and an underpayment; every disposition; the lease expires freely |
| `faults` | `MessagesAreTrue`, `ReceiptsFollowMessages`, `LeaseIsRespected` | background and hot worker, 1 receivable, one fault (crash, RPC or Telegram failure), every disposition, a quote |
| `liveness` | `PaymentsAreNoticed`, `ConfirmableNoticesAreDelivered` | background worker, 2 receivables of which a pass takes 1, 3 transactions on one reference of which a check takes 2, one of them unreadable, one notification per pass, 2 faults, reopening and cancelling |
| `month_close` | `RevisionsAddUp`, `ReportsAreBacked`, `RevisionsAreTrue` | 2 exporters whose leases expire, both modes, 1 receivable paid exactly, 2 interchangeable quotes, a crash |
| `settlement` | `AcceptedMeansPaid`, `PaymentsAreAccepted`, `UnderpaymentsLackOnlyTheAmount`, `DecodingIsFaithful` | an amount of 3; seven layouts of the account list, legacy and v0, with the reference in each section; every single instruction, pairs and triples of those that can interfere; wrong mints; failed transactions; one instruction too many; seven faults of the node |
| `valuation` | `CalendarsAgree`, `PaymentsFallInTheirMonth`, `MonthsCloseWhenOver`, `AmountsSurvive`, `QuotesAreOfTheirDay`, `ReferencesAreNearest` | every day of the 400 years from 1970, two seconds each; receivables on seven days (ends of February of a common, a leap, a century and a 400th year, the last days); 70 texts of an amount, 54 answers; 2 places and 1 place; integers of 11, 10 and 22 bits |
| `store_open` | `TypeOK`, `LoneOpensSucceed`, `OpenedStoresAreCurrent`, `OnlyStaleRebuildsLoseEvidence`, `OpenersGetIn` | 2 processes, 1 receivable and others beyond it without end, 1 month, a new file and those of six releases, a crash |
| `poisoned_outbox`, `repeated_close`, `phase_two`, `concurrent_opens` | disagreements, below | one or two receivables |

Two receivables are enough for the interesting conflicts because each of them
is between two rows (one signature, one reference, one lease, two places in the
outbox); the proofs remove the bound for the ledger and the passes.  Two
candidates fetched together, an exact payment and an anomaly, are what
`check_open` can confuse; `MaxCandidates` is 2, so that a third transaction
makes the answer incomplete, as the ninth does in the code.  In `liveness` a
third one is there: each of the three exceptions of `PaymentsAreNoticed` is
met, and without any one of them the run finds a violation.  `MaxOpen`,
`MaxNotices` and `Polls` are the code's limits scaled down.  Most
runs switch deadlock checking off: their models may stop because ids,
transactions and faults run out.

In `settlement` three instructions suffice for an error or a second candidate
before, between and after others; the limits of the code are scaled down to
values that the longest layout, list and data exceed by one.

In `valuation` 400 years are a period of the calendar (`CivilFromDaysInverts`
removes the bound), and `LastDay` lies beyond `MaxYear`, so that the end of the
evidence format is met.  In `store_open` two processes are the most that can
conflict over one write lock and one snapshot, and a crash at any point leaves
the files that one process would have had to leave behind.

Bounds in guards: `MaxFaults` (crashes, RPC and transport failures) in
`Reconciliation`, `MaxCrashes` in `StoreOpen`, `LastDay` in `Valuation`.
Nothing else is capped; the ledger is finite because each row is written once,
and `CreateOther` keeps no rows, only that they tear what is being read.

### Fairness

`FairSpec` assumes that a running process takes its next step (`WF(Proceed)`),
that the clock passes the expiry of a lease (`WF(Expire)`), and that the
background job meets a free lease again and again and takes it (`SF(Acquire)`):
the scheduler starts it every five minutes, a refused start does nothing, and a
lease lasts a minute.  Nothing is assumed of payers, the operator, hot workers,
watches or checks.  Faults are finitely many: an outage that never ends
delivers nothing.  `PaymentsAreNoticed` excepts a receivable that is shut out
on every pass: older open ones fill the list (`Crowded`), its reference is
named by more transactions than a check takes (`Overfull`), or one of them is
never readable and no older than the payment, so that each check ends before it
comes to it (`Obscured`).  `ConfirmableNoticesAreDelivered` excepts an outbox
whose head can no longer be confirmed (all below).

In `StoreOpen`, `FairSpec` assumes that an open that can go on goes on and is
tried again after a failure (`WF(Opening)`: the scheduler starts the job again,
the session its server), and that a process that asks for the write lock gets
it when it is free again and again (`SF(Begin)`: the busy handler asks for 20
seconds, and transactions are short).  Writes, ends and crashes of processes
are not fair, and writes never run out: as long as any other process has the
store open it may create one more receivable.  Under this alone an open can
fail on every attempt, because each verification can meet a write.
`OpenersGetIn` therefore promises something only to a process that is
undisturbed from some time on while it compares the tables of the root
(`VerifiesUndisturbed`); the others may write at all other times, forever.
That is a premise of the property and not a fairness assumption: nothing in the
code provides it.  It is plausible where writes are minutes apart and a
verification takes milliseconds.

### Disagreements found

1. *Poisoned outbox* (`poisoned_outbox`, `reconcile:1095`).  A review resolved
   before its notification was delivered leaves a notification that can never be
   confirmed, and every later pass fails on it; the documents promise that
   terminal notifications are retried until a receipt is recorded.
2. *Repeated close* (`repeated_close`, `store:1630`).  Evidence that returns to
   the bytes of an earlier revision cannot be recorded.
3. *Phase-two files* (`phase_two`, `store:2446`).  A file whose `receivables`
   still has the CHECK of phase two is rebuilt with that of phase six, and
   `needs_rebuild`, which would widen it, looks at other tables, which the
   schema batch has just created: no underpayment can ever be accepted there.
   For files of all other releases `OpenedStoresAreCurrent` includes the CHECK.
4. *Contended opens* (`concurrent_opens`, `store:2304`).  The verification inside
   `open` reads the chain and then the tables in separate statements on a bare
   connection; a receivable that another opener creates in between makes the
   open of a sound store fail with `Integrity`.  The test
   `concurrent_opens_all_succeed` (`store:2924`), whose threads do just this,
   says that openers wait instead of failing, and `docs/EVIDENCE.md:162` that
   verification pins one read snapshot, which only `verify_ledger_integrity`
   (`store:1693`) does.  `LoneOpensSucceed` says that an open fails for no other
   reason than somebody else's write, and `OpenersGetIn` under which premise it
   gets in at last (see Fairness).

Also worth knowing.  The ledger accepts an exact settlement without a block
time, but `settled_receivable` refuses to read it (`store:1590`), so `check`
and the outbox fail for it although valuation is said to be fail-open;
`Confirmable` excludes it.  `list_open` always takes the oldest (`store:384`);
with as many unpaid old requests as the limit, a younger paid one is not
checked by the durable fallback (`Crowded`).  Nor is one noticed whose
reference more than eight transactions name (`rpc:102`, `Overfull`), or whose
payment is older than one that does not decode (`reconcile:579`, `Obscured`);
both are reported as incomplete evidence on every pass.  Two workers that
acknowledge one notification with the same receipt can meet between lookup and
insert (`store:981`), and the slower one gets an error.  A process that read
`needs_rebuild` before it waited for the lock rebuilds again what another has
migrated (`store:2170`) and turns accepted underpayments into exact
settlements; `OnlyStaleRebuildsLoseEvidence` says that nothing else loses
evidence, and that even this keeps every state, every settlement with what was
paid, and which receivables have candidates, resolutions and valuations.
Months are parsed as numbers and compared as texts (`close_month:636`): one
with a plus sign in place of its first digit, such as `2026-+9`, sorts before
all others and is closed before it is over, although `docs/OPERATIONS.md:57`
says that active and future months are rejected.  For months without a sign
`MonthsCloseWhenOver` is proved.  Two first opens can refuse each other the
first checkpoint, and the loser must be started again.  Leases are not renewed,
so passes longer than 60 seconds overlap (the safety properties above hold
nevertheless, their runs let the lease expire at any time); an exact payment
that arrives during a review is not assessed, so cancelling leaves a paid
receivable cancelled; a notification's message may name a newer candidate of
the same receivable than the one it was written for.

## Proofs

Every safety invariant and every action property that a passing run checks is a
theorem, for all values of the constants that satisfy the assumptions of the
modules.  A run shows the property on a small instance, and its mutant that it
can fail.

`LedgerProofs`:

* `LedgerTypes`: `TypeOK`, by the inductive invariant `TypeInv`, which adds
  that a receivable has a reference exactly once it was issued (`Issued`).
* `LedgerAppendsOnly`: no transaction rewrites evidence.  What others have read
  stays true because of it.
* `PaymentsAreSpentOnce` and `StatesMatchSettlements`, together inductive
  (`SettlementInv`): that no two settlements collide is kept because a
  transaction checks `Collides` in the same step in which it inserts, and that
  the state matches the settlement needs that one receivable has at most one.
* `ReviewsNameTheirCandidate`, by `ReviewInv`: candidates are filed under the
  receivable they name, and every resolution is of a recorded candidate;
  without the second, a fingerprint could be resolved before it is a candidate.
* `CheckpointsAreCurrent` and `RetriesAlwaysSucceed`: one by one, every
  transaction that writes a table writes the checkpoint of what it has written,
  and none withdraws a row on which an earlier answer rested.
* `DispositionsStayFinal`: a property of steps that needs only the types; the
  guards do not depend on what callers read.
* `OutboxAlwaysMatchesLedger`: an announcement is written in the transaction
  that writes what it announces, so `AnnouncedTruly` is kept; that it is written
  once (`AnnouncedOnce`) follows from the guard `~Notified` and is needed for
  the next step (`OutboxGrows`).
* `AuditAlwaysExplainsLedger`, by `AuditInv`.  The state is that of the last
  event which is not a valuation (`HistoryEnds`), and only valuations follow it.
  For that to last, no other event may come after a valuation: one is attached
  to settled receivables only (`ValuationsOfSettled`), which have no event but
  valuations ahead.  `TrailIsTrue` relates the events of each name to the rows
  of the other tables.
* `LedgerImplementsLifecycle`: from `SettlementInv`, every transaction is one
  step of `Lifecycle` or changes nothing of it.

`ReconciliationProofs`, for any number of processes of each kind and any limits:

* `RunImplementsLedger`: every step of a process, the operator, the payers or
  the clock is one transaction of `Ledger` or none.  This is not immediate: a
  worker settles with evidence it assembled several steps ago from a signature
  it fetched before that, for a receivable it took from a list or from a
  notification still earlier.  The inductive invariant `RunInv` says why that
  stays meaningful: the book, the chain and the outbox only grow (`Extended`),
  rows are never deleted, so what a record says of them (`Sound`) survives the
  steps of others (`SoundStays`), and `OwnStep` reduces each action to what it
  writes to its own record.
* From it, without a new induction, the ledger's theorems for the running
  system: `RunSpendsPaymentsOnce`, `RunStatesMatchSettlements`,
  `RunReviewsNameTheirCandidate`, `RunKeepsItsBooks` (checkpoint, audit trail,
  outbox and retries), `RunDispositionsStayFinal`, `RunKeepsLifecycle`.
* `WorkersAreOK` and `LeasesAreRespected`: the lease row names a process only
  inside its pass (`LeaseOK`), a live lease has a holder, so it can neither be
  taken nor dropped by anyone else.
* `MessagesPrecedeReceipts`, by `ReceiptInv`, which adds that a worker about to
  acknowledge has sent that message (`SentFirst`).
* `MessagesAreAlwaysTrue` and `ExactPaymentsWin`, by `GroundInv`: what each
  process holds is grounded in the tables (`Grounded`).  What it is about to
  send is true (`TrueMail`), and of the transactions it has looked at so far no
  exact one is unspent unless its receivable is settled (`NoneMissed`).  Both
  survive the steps of others because chain, outbox, candidates and settlements
  only grow and a settled receivable stays settled (`Grown`).  An exact payment
  that is assessed as a replay has its signature spent, or its reference, and
  then, because a reference belongs to one receivable (`ReferencesAreOwn`), that
  receivable is settled (`NotExact`).

`MonthCloseProofs`, for any number of exporters, months and quotes, by one
inductive invariant `ExportInv`:

* `ExportsImplementLedger`: every step of an export is a transaction of the
  ledger or none.
* `RevisionsAreAlwaysTrue`.  An exporter reads the root, the rows, their
  valuations and the root again in separate statements.  Equal roots do not say
  that nothing happened in between; but the ledger only grows, so what was read
  (`Drawn`) lies between the tables under the first root and those of now, and
  where the roots are equal these are the same.  The lease plays no part.
* `RevisionsAlwaysAddUp`: revisions are backed by settlements and quotes that
  stay (`ClosesBacked`), so a later true one includes them.
* `ReportsAreAlwaysBacked`: an exporter on its way from the ledger to the
  directory has its revision recorded (`Recorded`), whoever wrote others since.

`SettlementProofs`, for any set of transactions with account lists and
instruction lists of any length, any request and any limits:

* `StageInvariance`: the invariant `StageInv`, by which each stage holds a
  function of what the stage before it holds.
* `DecodingFaithful`.  The argument is about positions: the six sections occupy
  consecutive intervals of the account list (`SixJoined`, `InSection`), so a
  role is an interval condition (`RolesByPosition`); the counts of the header
  give the same conditions on indices (`AccountsMirror`), provided the loaded
  tables are the transaction's own (`TablesAreWhole`), which the comparison of
  lengths ensures because a node leaves out both tables or none.
* `AcceptedPaid`: an accepted snapshot has a sole candidate (`AcceptedIsSole`);
  a candidate passed all seventeen checks (`RulingOfInstruction`), which, read
  back through the indices (`KeyInSnapshot`), make it the only movement of
  classic tokens (`CandidatesPay`).
* `PaymentsAlwaysAccepted`, the other direction.  The ruling on an instruction
  is the first of its checks that fails (`RulingIsFirst`, `RulingExactly`); each
  check, read back through the indices, says of keys what the payment must
  satisfy, no less (`InstructionsReadBack`, `MintsReadBack`,
  `ReferenceReadBack`, `FitsExactly`), so that a transaction that pays has a
  sole candidate and an exact amount (`SoleExactly`, `ExactExactly`).
* `UnderpaymentsAreExactForLess`: only the last comparison depends on the
  amount asked for (`SoleIsJudged`).

`StoreOpenProofs`, for any number of processes, receivables and months, and for
any of the earlier releases:

* `TypeCorrect`, `Current_WhileOpen`, `LoneSuccess` and `EvidenceIsKept`, from
  one inductive invariant of three parts.  `Sound` is what every committed
  database satisfies: above all, when nothing is left to rebuild, the last
  checkpoint covers the rows or there is none yet, and when something is, no row
  is of an accepted underpayment (`Plain`), so that a rebuild loses nothing.
  `Knows` is what a process may conclude from where it stands, although it read
  it outside a transaction: it survives what the others do because databases
  only grow (`Grows`).  `Alone` is what it knows besides while nobody writes; an
  open fails only where that is contradicted.
  What a rebuild keeps even when it is stale is in `RebuiltKeepsStanding`, which
  needs neither `Knows` nor `Alone`.
* Each transaction has its lemma (`PhaseFivePreserves`, `RebuiltPreserves`, ...),
  and `FilesAreSound` says that the files of all releases are sound.

`CalendarProofs` and `ValuationProofs`, for days of any length and any widths of
the integers:

* `CivilFromDaysInverts`: `CivilFromDays(DaysFromCivil(y, m, d))` is the date,
  for every date from 1970 on.  Integer division is the difficulty: a day is
  split into era, century, cycle of four years, year and day of the year, each
  quotient of the code is bounded from both sides by these parts (`EraDays`,
  `YearOfDay`), and the months by the line 153/5 (`MonthLength`).
* `CalendarsAlwaysAgree`: with `Clock`, by which the calendar of the clock and
  `DaysFromCivil` tick together (`DayAfter`).
* `PaymentsAlwaysFallInTheirMonth` and `MonthsAlwaysCloseWhenOver`: the bounds
  of consecutive months are consecutive (`MonthsInOrder`), so the day of a date
  lies between those of its own month only, and the order of canonical texts is
  that of the months.
* `QuotesAreAlwaysOfTheirDay`, by `QuoteInv`: the time of a payment determines
  its date, and a valued outcome comes from a row that was compared with it.
* `AmountsAlwaysSurvive` and `ReferencesAreAlwaysNearest`, by `AmountInv`.  The
  first digits that `Format` writes are those of the number without its last
  ones (`FirstDigits`, by induction on how many), those it leaves out are zeros
  (`LastIsLast`, `LastDigits`), and so the code's parser (`FormatReadsBack`,
  `FromDecimalReads`) and the wallet's (`UnitsAreScaled`) read back what was
  written.  For the cents, `HalfUpIsNear` is the arithmetic of rounding and
  `NominalIsNearest` that of the limits.

`LeastNumber` derives the least number principle (`LeastExists`) from the
well-foundedness of inclusion on finite sets: that there is a first failing
check, and an oldest or newest place in a set of places.  From it follow
`Induction`, with a set for what is proved, and `RecursionUpTo` and
`RecursionExists`, with a function for the step; `TenToRecurs`, `NumberRecurs`
and `UnitsRecurs` apply them to the recursive functions of `Valuation`.  The
induction and recursion theorems of the library take operators as arguments,
which the provers cannot use.  Powers of ten are a recursive function because
the provers know nothing of `^`.

The assumptions.  Evidence consists of fingerprints and contains every
assessment the chain admits, replays included; anomaly codes are not the two
verdicts with evidence; `NULL` and the owner of a lost lease are not processes,
numbers or values of a column; timed signatures are signatures; a transaction
lists no key twice and all the keys it uses, and `NULL` is no key.  A request
asks for something: `from_decimal` refuses zero when it is created.  What the
operator types and the central bank answers is a text or a body as the models
describe them.  Powers of ten for the places of the token and of a quote fit 64
bits: the configuration admits 18 places (`apps/recebi-mcp/src/config.rs:176`),
and quotes have 5.

`ReferencesAreNearest` promises that a reference is refused only when it does
not fit, provided that 128 bits hold every product (`Wide`), which is so for
tokens of up to 14 places.  For 15 to 18 places, which the configuration
admits, the checked product of `ptax:213` may overflow for a large payment
although its cents would fit; the code then reports no reference, and never a
wrong one.

Only model-checked: liveness (`PaymentsAreNoticed`,
`ConfirmableNoticesAreDelivered`, `OpenersGetIn`), which under fairness is out of
the prover's reach.  No module uses a `RECURSIVE` operator.

## Not modelled

* The columns that no migration tells apart, triggers, file permissions and the
  WAL in `StoreOpen`.
* The wire format of transactions and JSON: an answer that does not parse, or
  that `sanitize` refuses, is one flag.  Four checks of `assess_settlement` that
  no decoded answer can fail.  In `Reconciliation`, chain answers are complete
  but for those of overfull references and unreadable transactions, and
  never contradict each other; a wrong cluster is a configuration error
  that stops every pass.
* The chain of event and checkpoint hashes: append-only sequences, whose last
  root is compared; tampering from outside is not in the model.
* Wording and layout of messages and files, the rest of the payment URL, QR
  images, the MCP protocol and configuration.  Years before 1970 and months with
  a negative year.
* `list_settled_between` reads a month in several statements; the first reading
  of an export is one step here, the second, on which the evidence rests, two.

## Plan

Done, in this order: `Ledger` with `Lifecycle`, `Reconciliation`, `MonthClose`,
`LedgerProofs`, `ReconciliationProofs`, `Settlement`, `SettlementProofs`,
`StoreOpen`, `Calendar`, `Valuation`, `CalendarProofs`, `ValuationProofs`,
`StoreOpenProofs`, `MonthCloseProofs`; then the remaining safety properties of
the ledger, the passes, the settlement and the amounts as theorems.  Next:

1. `Ledger` on top of `StoreOpen`: what an atomic open would promise, and the
   failures of `open` above as the difference.
2. A measure that each step of a pass and of an open decreases: the part of
   liveness that is an action property and can be proved.  Liveness itself
   stays with TLC.
