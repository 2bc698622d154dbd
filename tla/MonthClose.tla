----------------------------- MODULE MonthClose -----------------------------
(***************************************************************************)
(* Monthly exports (apps/recebi-mcp/src/close_month.rs): final closes,     *)
(* which are recorded in the ledger as revisions and then published as a   *)
(* directory of files, and provisional snapshots, which are only           *)
(* published.  Exporters hold a lease per month that expires by the clock, *)
(* and payments, reviews and valuations go on while they run; every store  *)
(* call, network call and rename is a step of its own.                     *)
(***************************************************************************)
EXTENDS Ledger, FiniteSets

CONSTANTS
  Exporters,       \* processes
  Modes,           \* the kinds of export each of them makes
  MonthOf,         \* the month of the block time of each timed signature
  PendingReasons,  \* why a settlement has no official quote yet
  MaxFaults,       \* bound on crashes
  Orphan           \* the random lease owner of a process that crashed

\* The canonical bytes of a month: for each receivable None when it is not
\* settled in that month, else its quote, or why it has none.  "unexplained"
\* is a settlement that appeared after the quotes were asked for.
Pending == PendingReasons \cup {"unexplained"}

Evidences == [Receivables -> {None} \cup Quotes \cup Pending]

ASSUME MonthCloseAssumption ==
  /\ Modes \in [Exporters -> SUBSET {"final", "snapshot"}]
  /\ MonthOf \in [Timed -> Months]
  /\ Artifacts = Evidences
  /\ None \notin Quotes \cup Pending
  /\ Quotes \cap Pending = {}
  /\ MaxFaults \in Nat
  /\ {None, Orphan} \cap Exporters = {}

VARIABLES
  exporter,   \* what each process is doing and what it has read
  leases,     \* monthly_export_leases and whether they are unexpired
  published,  \* the bytes in each directory under the export root
  reports,    \* the closes reported to the operator: month, revision, bytes
  faults      \* faults so far

exportVars == <<exporter, leases, published, reports, faults>>
vars == <<ledgerVars, exportVars>>

Free == [holder |-> None, live |-> FALSE]

Idle ==
  [pc |-> "idle",
   month |-> None,
   mode |-> None,        \* "final" or "snapshot"
   todo |-> {},          \* unvalued settlements to ask a quote for
   reasons |-> [id \in Receivables |-> None],   \* pending_reasons
   seen |-> None,       \* the root last read
   rows |-> {},          \* settlements of the month, as selected
   bytes |-> None,       \* the canonical evidence
   revision |-> 0]       \* the revision of the close, 0 for a snapshot

Init ==
  /\ LedgerInit
  /\ exporter = [e \in Exporters |-> Idle]
  /\ leases = [m \in Months |-> Free]
  /\ published = {}
  /\ reports = {}
  /\ faults = 0

At(e, pc) == exporter[e].pc = pc

Become(e, record) == exporter' = [exporter EXCEPT ![e] = record]

Only(e, record) ==
  /\ Become(e, record)
  /\ UNCHANGED <<ledgerVars, leases, published, reports, faults>>

\* export_locked returns, with its output or an error.
Returned(e) == [Idle EXCEPT !.pc = "release", !.month = exporter[e].month]

-----------------------------------------------------------------------------
\* acquire_monthly_export_lease replaces only an expired lease.
Acquire(e, m) ==
  /\ At(e, "idle")
  /\ ~leases[m].live
  /\ leases' = [leases EXCEPT ![m] = [holder |-> e, live |-> TRUE]]
  /\ \E mode \in Modes[e] :
       Become(e, [Idle EXCEPT !.pc = "list", !.month = m, !.mode = mode])
  /\ UNCHANGED <<ledgerVars, published, reports, faults>>

SettledIn(m) ==
  {s.id : s \in {q \in settlements : /\ q.evidence.signature \in Timed
                                     /\ MonthOf[q.evidence.signature] = m}}

\* list_settled_between refuses every month while any settlement of any month
\* has no block time.
Readable == \A s \in settlements : s.evidence.signature \in Timed

\* The first list_settled_between: what has no valuation yet.
List(e) ==
  /\ At(e, "list")
  /\ IF Readable
     THEN Only(e, [exporter[e] EXCEPT
                     !.pc = "quote",
                     !.todo = {id \in SettledIn(exporter[e].month) :
                                 valuations[id] = None}])
     ELSE Only(e, Returned(e))

\* attach_available_valuations for one receivable: the central bank has no
\* quote or does not answer, or its quote is attached; another quote attached
\* in between is a conflict.
Quote(e) ==
  /\ At(e, "quote")
  /\ \E id \in exporter[e].todo :
       LET rest == [exporter[e] EXCEPT !.todo = @ \ {id}] IN
         \/ \E reason \in PendingReasons :
              Only(e, [rest EXCEPT !.reasons[id] = reason])
         \/ \E q \in Quotes :
              \/ /\ AttachValuation(id, q)
                 /\ Become(e, rest)
                 /\ UNCHANGED <<leases, published, reports, faults>>
              \/ /\ valuations[id] = q
                 /\ Only(e, rest)
              \/ /\ valuations[id] \notin {None, q}
                 /\ Only(e, Returned(e))

\* The first ledger_fingerprint.
ReadRootBefore(e) ==
  /\ At(e, "quote")
  /\ exporter[e].todo = {}
  /\ Only(e, [exporter[e] EXCEPT !.pc = "rows", !.seen = root])

\* The second list_settled_between: its SELECT ...
ReadRows(e) ==
  /\ At(e, "rows")
  /\ IF Readable
     THEN Only(e, [exporter[e] EXCEPT !.pc = "valuations",
                                      !.rows = SettledIn(exporter[e].month)])
     ELSE Only(e, Returned(e))

\* canonical_evidence of the rows; a row with a quote has no reason.
CanonicalEvidence(rows, reasons) ==
  [id \in Receivables |->
     CASE id \notin rows -> None
       [] id \in rows /\ valuations[id] # None -> valuations[id]
       [] id \in rows /\ valuations[id] = None /\ reasons[id] # None ->
            reasons[id]
       [] OTHER -> "unexplained"]

\* ... and, in statements of their own, the valuations of its rows.
ReadValuations(e) ==
  /\ At(e, "valuations")
  /\ LET me == exporter[e] IN
       Only(e, [me EXCEPT !.pc = "compare", !.rows = {},
                          !.reasons = Idle.reasons,
                          !.bytes = CanonicalEvidence(me.rows, me.reasons)])

\* Fault: only the root read after the rows is handed to the store.
UnmovedAlways(e) == TRUE

\* Nothing was written between the two fingerprints.
Unmoved(e) == exporter[e].seen = root

\* The second ledger_fingerprint and its comparison with the first.
Compare(e) ==
  /\ At(e, "compare")
  /\ IF ~Unmoved(e)
     THEN Only(e, Returned(e))
     ELSE Only(e, IF exporter[e].mode = "final"
                  THEN [exporter[e] EXCEPT !.pc = "record", !.seen = root]
                  ELSE [exporter[e] EXCEPT !.pc = "publish",
                                           !.seen = None])

\* Fault: MAX(revision) without the + 1.
LatestRevision(m) == Len(closes[m])

NextRevision(m) == Len(closes[m]) + 1

\* record_month_close: appended, already the latest revision, or refused,
\* because the ledger moved on or an earlier revision has these bytes.
Record(e) ==
  /\ At(e, "record")
  /\ LET me == exporter[e]
         recorded(n) == [me EXCEPT !.pc = "publish", !.seen = None,
                                   !.revision = n]
     IN  \/ /\ ~SameAsLatestClose(me.month, me.bytes)
            /\ RecordMonthClose(me.month, me.bytes, me.seen)
            /\ Become(e, recorded(NextRevision(me.month)))
            /\ UNCHANGED <<leases, published, reports, faults>>
         \/ /\ me.seen = material
            /\ SameAsLatestClose(me.month, me.bytes)
            /\ Only(e, recorded(Len(closes[me.month])))
         \/ /\ \/ me.seen # material
               \/ /\ HashTaken(me.month, me.bytes)
                  /\ ~SameAsLatestClose(me.month, me.bytes)
            /\ Only(e, Returned(e))

\* closed/<month>/revision-<n>, or snapshots/<month>/<hash of the evidence>.
Directory(e) ==
  <<exporter[e].mode, exporter[e].month,
    IF exporter[e].mode = "final" THEN exporter[e].revision ELSE exporter[e].bytes>>

Exists(directory) == \E p \in published : p.directory = directory

Report(e) ==
  reports' = IF exporter[e].mode = "final"
             THEN reports \cup {[month |-> exporter[e].month,
                                 revision |-> exporter[e].revision,
                                 bytes |-> exporter[e].bytes]}
             ELSE reports

\* write_exports_atomic: a directory that is already there must hold the same
\* bytes; otherwise the files are written beside it, under the owner's name.
Publish(e) ==
  /\ At(e, "publish")
  /\ LET me == exporter[e]
         there == {p.bytes : p \in {q \in published :
                                      q.directory = Directory(e)}}
     IN  CASE there = {} -> Only(e, [me EXCEPT !.pc = "rename"])
           [] there = {me.bytes} ->
                /\ Report(e)
                /\ Become(e, Returned(e))
                /\ UNCHANGED <<ledgerVars, leases, published, faults>>
           [] OTHER -> Only(e, Returned(e))

\* The rename, which fails if another exporter got there first.
Rename(e) ==
  /\ At(e, "rename")
  /\ IF Exists(Directory(e))
     THEN Only(e, Returned(e))
     ELSE /\ published' = published \cup
               {[directory |-> Directory(e), bytes |-> exporter[e].bytes]}
          /\ Report(e)
          /\ Become(e, Returned(e))
          /\ UNCHANGED <<ledgerVars, leases, faults>>

\* release_monthly_export_lease
Release(e) ==
  /\ At(e, "release")
  /\ leases' = [leases EXCEPT ![exporter[e].month] =
                  IF @.holder = e THEN Free ELSE @]
  /\ Become(e, Idle)
  /\ UNCHANGED <<ledgerVars, published, reports, faults>>

\* The process dies; its files that were not renamed are never looked at.
Crash(e) ==
  /\ ~At(e, "idle")
  /\ faults < MaxFaults
  /\ faults' = faults + 1
  /\ leases' = [m \in Months |->
                  IF leases[m].holder = e
                  THEN [leases[m] EXCEPT !.holder = Orphan] ELSE leases[m]]
  /\ Become(e, Idle)
  /\ UNCHANGED <<ledgerVars, published, reports>>

\* The clock: EXPORT_LEASE_MS passes.
Expire(m) ==
  /\ leases[m].live
  /\ leases' = [leases EXCEPT ![m].live = FALSE]
  /\ UNCHANGED <<ledgerVars, exporter, published, reports, faults>>

\* The rest of the program goes on: payments, reviews and valuations.
Elsewhere ==
  /\ \/ /\ Unused # {}
        /\ \E id \in Receivables, t \in Terms :
             CreateOrGet(id, t, CHOOSE r \in Unused : TRUE)
     \/ \E f \in Evidence : MarkPaymentVerified(f) \/ MarkReviewCandidate(f)
     \/ \E f \in Evidence, action \in Actions, reason \in Reasons \cup {None} :
          ResolveReview(f, action, reason)
     \/ \E id \in Receivables, q \in Quotes : AttachValuation(id, q)
  /\ UNCHANGED exportVars

Next ==
  \/ \E e \in Exporters :
       \/ \E m \in Months : Acquire(e, m)
       \/ List(e) \/ Quote(e) \/ ReadRootBefore(e) \/ ReadRows(e)
       \/ ReadValuations(e) \/ Compare(e) \/ Record(e) \/ Publish(e)
       \/ Rename(e) \/ Release(e) \/ Crash(e)
  \/ \E m \in Months : Expire(m)
  \/ Elsewhere

Spec == Init /\ [][Next]_vars

-----------------------------------------------------------------------------
(***************************************************************************)
(* Properties.                                                             *)
(***************************************************************************)

\* A revision is true at the moment it is recorded: its bytes name exactly
\* the settlements of its month, each with the quote the ledger then holds or
\* as pending if it holds none, and never mix two states of the ledger
\* although they were read in several statements, with an expired lease,
\* while others wrote (export_locked).
RevisionsAreTrue ==
  [][ \A m \in Months :
        closes'[m] # closes[m] =>
          LET bytes == closes'[m][Len(closes'[m])] IN
            \A id \in Receivables :
              IF id \notin SettledIn(m) THEN bytes[id] = None
              ELSE IF valuations[id] = None THEN bytes[id] \in Pending
              ELSE bytes[id] = valuations[id]
    ]_vars

\* Later revisions of a month only add to earlier ones: a receivable is never
\* dropped and a quote never changed, so an accountant who used an earlier
\* revision finds its settlements in every later one.
RevisionsAddUp ==
  \A m \in Months : \A i, j \in DOMAIN closes[m] :
    i < j => \A id \in Receivables :
      /\ closes[m][i][id] # None => closes[m][j][id] # None
      /\ closes[m][i][id] \in Quotes => closes[m][j][id] = closes[m][i][id]

\* What the operator was told is what the ledger recorded and what lies in
\* the export directory, and nothing is published as a close that the ledger
\* did not record, whoever crashed between the two (write_exports_atomic).
ReportsAreBacked ==
  /\ \A r \in reports :
       /\ r.revision \in DOMAIN closes[r.month]
       /\ closes[r.month][r.revision] = r.bytes
       /\ [directory |-> <<"final", r.month, r.revision>>,
           bytes |-> r.bytes] \in published
  /\ \A p \in published :
       p.directory[1] = "final" =>
         /\ p.directory[3] \in DOMAIN closes[p.directory[2]]
         /\ closes[p.directory[2]][p.directory[3]] = p.bytes

\* record_month_close: "A changed snapshot appends a revision": bytes that
\* are not those of the latest revision are appended, unless the ledger has
\* moved on since they were read.
ChangedSnapshotsAreAppended ==
  [][ \A e \in Exporters :
        LET me == exporter[e] IN
          /\ Record(e)
          /\ me.seen = material
          /\ ~SameAsLatestClose(me.month, me.bytes)
          => closes'[me.month] = Append(closes[me.month], me.bytes)
    ]_vars

=============================================================================
