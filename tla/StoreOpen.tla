------------------------------ MODULE StoreOpen ------------------------------
(***************************************************************************)
(* ReceivableStore::open: the schema batch, four migrations and the        *)
(* checkpoint chain, run by every process that uses the ledger.  The       *)
(* session server, the scheduled job and the operator's commands open the  *)
(* same file at the same time, from whatever release wrote it last.        *)
(*                                                                         *)
(* The statements between two transactions run in autocommit: what they    *)
(* read may be stale by the time it is used.  BEGIN IMMEDIATE takes the    *)
(* only write lock, a transaction commits as a whole, and a process that   *)
(* dies inside one leaves no trace of it.  Rows are abstracted to what the *)
(* migrations do to them.                                                  *)
(***************************************************************************)
EXTENDS Naturals, Sequences

CONSTANTS
  Processes,    \* processes that open the store
  Receivables,  \* receivables of the ledger
  Months,       \* months with a close
  Releases,     \* releases that may have written the file last
  MaxCrashes,   \* bound on the processes that die while they open it
  None          \* no value

ASSUME StoreOpenAssumption ==
  /\ Releases \subseteq {"new", "phase_two", "phase_three", "phase_four", "phase_five",
                         "phase_six", "current"}
  /\ MaxCrashes \in Nat
  /\ None \notin Processes
  /\ None \notin {"full", "short", "unmeasured", "exact", "nominal", "hashed"}
  /\ None \notin [paid : {"full", "short"}, expected : {"full", "short"},
                  kind : {"exact", "accepted_underpayment"}, run : {None, "run"}]
  /\ None \notin [run : {None, "run"}]

VARIABLES
  release,    \* the release that wrote the file before this one
  db,         \* the committed database
  writer,     \* the process that holds the write lock, or None
  pc,         \* where each process stands in open
  rebuild,    \* needs_rebuild, as each process read it
  snapshot,   \* the database a process last read from
  next,       \* how many tables of the root a process has read
  torn,       \* whether one of them differed from its checkpoint
  result,     \* the error of the last open that failed
  disturbed,  \* whether another process wrote during this attempt
  crashes     \* processes that died so far

procVars == <<pc, rebuild, snapshot, next, torn>>
vars == <<release, db, writer, pc, rebuild, snapshot, next, torn, result, disturbed, crashes>>

-----------------------------------------------------------------------------
(* The schema.  A table is "absent", of the current shape, or of the shape *)
(* an older release gave it.                                               *)

Versions == 1..8

States == {"open", "payment_verified", "needs_review", "cancelled", "settled_with_variance"}

\* The states that the CHECK of each generation of receivables admits.
CheckOpen == {"open"}
CheckPhaseFive == {"open", "payment_verified", "needs_review"}
CheckPhaseSix == CheckPhaseFive \union {"cancelled"}
CheckCurrent == States

\* What CREATE TABLE IF NOT EXISTS makes of a table.
Create(shape) == IF shape = "absent" THEN "current" ELSE shape

\* The rows that the checkpoint's root covers, in the order in which their
\* tables are read.  The second table holds the events: every change of a
\* state appends one and no migration touches them, so the states stand for
\* them too.
Material == <<"states", "states", "settlements", "candidates", "resolutions", "methods", "closes">>

Root(d) == [i \in DOMAIN Material |-> d[Material[i]]]

Exact(paid) == [paid |-> paid, expected |-> paid, kind |-> "exact", run |-> None]

\* A settlement that was written before settlements had a kind.
Unkinded(paid) == [paid |-> paid, expected |-> None, kind |-> None, run |-> None]

Accepted == [paid |-> "short", expected |-> "full", kind |-> "accepted_underpayment", run |-> "run"]

\* Fault: only the tables of phase five count as old.
NeedsRebuildOfPhaseFive(d) == d.shape.candidates = "phase_five"

\* needs_rebuild of migrate_variance_schema.
NeedsRebuild(d) ==
  \/ d.shape.settlements = "old"
  \/ d.shape.candidates \in {"phase_five", "phase_six"}
  \/ d.shape.resolutions = "old"

-----------------------------------------------------------------------------
(* The files that earlier releases left behind.                            *)

\* The last root of the chain of checkpoints, when there is none, and when an
\* older release computed it over its own columns.
NoCheckpoint == <<>>
Legacy == <<"legacy">>

NoRows == [r \in Receivables |-> None]

Shapes(settlements, candidates, resolutions, valuations, revisions, month_closes) ==
  [settlements |-> settlements, candidates |-> candidates, resolutions |-> resolutions,
   valuations |-> valuations, revisions |-> revisions, month_closes |-> month_closes]

Absent == Shapes("absent", "absent", "absent", "absent", "absent", "absent")
Current == Shapes("current", "current", "current", "current", "current", "absent")

Empty == [versions |-> {}, check |-> {}, shape |-> Absent,
          states |-> NoRows, settlements |-> NoRows, candidates |-> NoRows,
          resolutions |-> NoRows, methods |-> NoRows,
          closes |-> [m \in Months |-> None], checkpoint |-> NoCheckpoint]

\* Rows of a release with settlements, reviews and closes: each receivable is
\* absent, open, paid and valued, or under review.
Histories(settlement, method, close) ==
  {[Empty EXCEPT !.states = s,
       !.settlements = [r \in Receivables |-> IF s[r] = "payment_verified" THEN settlement ELSE None],
       !.methods = [r \in Receivables |-> IF s[r] = "payment_verified" THEN method ELSE None],
       !.candidates = [r \in Receivables |-> IF s[r] = "needs_review" THEN "unmeasured" ELSE None],
       !.closes = [m \in Months |-> IF \E r \in Receivables : s[r] = "payment_verified"
                                    THEN close ELSE None]] :
     s \in [Receivables -> {None, "open", "payment_verified", "needs_review"}]}

Files(rel) ==
  CASE rel = "new" -> {Empty}
    [] rel = "phase_two" ->
         {[Empty EXCEPT !.check = CheckOpen, !.states = s] :
            s \in [Receivables -> {None, "open"}]}
    [] rel = "phase_three" ->
         {[h EXCEPT !.versions = 1..4, !.check = CheckPhaseFive,
             !.shape = Shapes("old", "phase_five", "absent", "json", "old", "present")] :
            h \in Histories(Unkinded("full"), "json", "month_closes")}
    [] rel = "phase_four" ->
         {[h EXCEPT !.versions = 1..5, !.check = CheckPhaseFive, !.checkpoint = Legacy,
             !.shape = Shapes("old", "phase_five", "absent", "json", "old", "absent")] :
            h \in Histories(Unkinded("full"), "json", "unhashed")}
    [] rel = "phase_five" ->
         {[h EXCEPT !.versions = 1..6, !.check = CheckPhaseFive, !.checkpoint = Legacy,
             !.shape = Shapes("old", "phase_five", "absent", "current", "current", "absent")] :
            h \in Histories(Unkinded("full"), "nominal", "hashed")}
    [] rel = "phase_six" ->
         {[h EXCEPT !.versions = 1..7, !.check = CheckPhaseSix, !.checkpoint = Legacy,
             !.shape = Shapes("old", "phase_six", "old", "current", "current", "absent")] :
            h \in Histories(Unkinded("full"), "nominal", "hashed")}
    [] rel = "current" ->
         {[h EXCEPT !.versions = Versions, !.check = CheckCurrent, !.checkpoint = Root(h),
             !.shape = Current] :
            h \in Histories(Exact("full"), "nominal", "hashed")}

-----------------------------------------------------------------------------
(* What each transaction makes of the database.                            *)

\* The batch of open: IF NOT EXISTS, so what is there keeps its shape.
Created(d) ==
  [d EXCEPT !.versions = @ \union 1..4,
            !.check = IF @ = {} THEN CheckCurrent ELSE @,
            !.shape = [t \in DOMAIN @ |-> IF t = "month_closes" THEN @[t] ELSE Create(@[t])]]

\* migrate_state_constraint: receivables rebuilt, its CHECK as of phase six.
Widened(d) == [d EXCEPT !.check = CheckPhaseSix]

\* Fault: the table month_closes is dropped before its rows are copied.
PhaseFiveDroppingFirst(d) ==
  [d EXCEPT !.versions = @ \union {6},
            !.shape = [@ EXCEPT !.valuations = "current", !.revisions = "current",
                                !.month_closes = "absent"],
            !.methods = [r \in Receivables |-> IF @[r] = None THEN None ELSE "nominal"],
            !.closes = [m \in Months |-> IF @[m] \in {None, "month_closes"} THEN None ELSE "hashed"]]

\* migrate_phase_five_schema: one text for the valuation method, the table
\* month_closes moved into the revisions, every close hashed anew.
PhaseFive(d) ==
  [d EXCEPT !.versions = @ \union {6},
            !.shape = [@ EXCEPT !.valuations = "current", !.revisions = "current",
                                !.month_closes = "absent"],
            !.methods = [r \in Receivables |-> IF @[r] = None THEN None ELSE "nominal"],
            !.closes = [m \in Months |-> IF @[m] = None THEN None ELSE "hashed"]]

\* migrate_phase_six_schema: candidates numbered, resolutions, cancellation.
PhaseSixShape(shape) ==
  [shape EXCEPT !.candidates = IF @ = "phase_five" THEN "phase_six" ELSE @,
                !.resolutions = IF @ = "absent" THEN "old" ELSE @]

PhaseSix(d) ==
  [d EXCEPT !.versions = @ \union {7},
            !.shape = PhaseSixShape(@),
            !.check = IF "cancelled" \in @ THEN @ ELSE CheckPhaseSix]

\* The rebuild of migrate_variance_schema: every settlement copied as exact,
\* candidates and resolutions without the columns that phase six did not have.
Rebuilt(d) ==
  [d EXCEPT !.check = CheckCurrent,
            !.shape = [@ EXCEPT !.settlements = "current", !.candidates = "current",
                                !.resolutions = "current"],
            !.settlements = [r \in Receivables |-> IF @[r] = None THEN None ELSE Exact(@[r].paid)],
            !.candidates = [r \in Receivables |-> IF @[r] = None THEN None ELSE "unmeasured"],
            !.resolutions = [r \in Receivables |->
              IF @[r] = None THEN None ELSE [@[r] EXCEPT !.run = None]]]

Checkpointed(d) == [d EXCEPT !.checkpoint = Root(d)]

\* Fault: the rebuilt rows get no checkpoint.
VarianceUncheckpointed(d, needs) ==
  LET rows == IF needs THEN Rebuilt(d) ELSE d
  IN  [rows EXCEPT !.versions = @ \union {8}]

\* migrate_variance_schema, with the needs_rebuild that was read before it.
Variance(d, needs) ==
  LET rows == IF needs THEN Checkpointed(Rebuilt(d)) ELSE d
  IN  [rows EXCEPT !.versions = @ \union {8}]

\* initialize_ledger_checkpoints on a store without version 5.
Genesis(d) == [Checkpointed(d) EXCEPT !.versions = @ \union {5}]

-----------------------------------------------------------------------------

Init ==
  /\ release \in Releases
  /\ db \in Files(release)
  /\ writer = None
  /\ pc = [p \in Processes |-> "closed"]
  /\ rebuild = [p \in Processes |-> FALSE]
  /\ snapshot = [p \in Processes |-> None]
  /\ next = [p \in Processes |-> 1]
  /\ torn = [p \in Processes |-> FALSE]
  /\ result = [p \in Processes |-> None]
  /\ disturbed = [p \in Processes |-> FALSE]
  /\ crashes = 0

Goto(p, label) == pc' = [pc EXCEPT ![p] = label]

\* open returns or its process dies: the locals and the connection are gone.
Leave(p, label) ==
  /\ Goto(p, label)
  /\ rebuild' = [rebuild EXCEPT ![p] = FALSE]
  /\ snapshot' = [snapshot EXCEPT ![p] = None]
  /\ next' = [next EXCEPT ![p] = 1]
  /\ torn' = [torn EXCEPT ![p] = FALSE]

Fail(p, error) ==
  /\ Leave(p, "closed")
  /\ result' = [result EXCEPT ![p] = error]

Opens(p) == pc[p] \notin {"closed", "open"}

\* What a write of p means for the attempts of the others.
Disturb(p) == disturbed' = [q \in Processes |-> disturbed[q] \/ (q # p /\ Opens(q))]

Transactions == {"create", "widen", "five", "six", "variance"}

\* BEGIN IMMEDIATE: waits for the lock, as long as the busy timeout lasts.
Begin(p) ==
  /\ pc[p] \in Transactions
  /\ writer = None
  /\ writer' = p
  /\ Disturb(p)
  /\ UNCHANGED <<release, db, procVars, result, crashes>>

\* COMMIT of the transaction that p holds the lock for.
Commit(p, d, label) ==
  /\ writer = p
  /\ db' = d
  /\ writer' = None
  /\ Goto(p, label)
  /\ UNCHANGED <<release, rebuild, snapshot, next, torn, result, disturbed, crashes>>

\* Fault: the error is returned with the transaction still open.
AbortInTransaction(p) ==
  /\ writer = p
  /\ Fail(p, "unavailable")
  /\ UNCHANGED <<release, db, writer, disturbed, crashes>>

\* INSERT INTO schema_migrations finds the version there: all is rolled back.
Abort(p) ==
  /\ writer = p
  /\ writer' = None
  /\ Fail(p, "unavailable")
  /\ UNCHANGED <<release, db, disturbed, crashes>>

Start(p) ==
  /\ pc[p] = "closed"
  /\ Goto(p, "create")
  /\ result' = [result EXCEPT ![p] = None]
  /\ disturbed' = [disturbed EXCEPT ![p] = writer # None]
  /\ UNCHANGED <<release, db, writer, rebuild, snapshot, next, torn, crashes>>

CreateSchema(p) == pc[p] = "create" /\ Commit(p, Created(db), "read_check")

\* A check in autocommit, on which the next transaction depends.
Read(p, label, needed, transaction, otherwise) ==
  /\ pc[p] = label
  /\ Goto(p, IF needed THEN transaction ELSE otherwise)
  /\ UNCHANGED <<release, db, writer, rebuild, snapshot, next, torn, result, disturbed, crashes>>

ReadCheck(p) == Read(p, "read_check", db.check = CheckOpen, "widen", "read_five")

MigrateStateConstraint(p) ==
  /\ pc[p] = "widen"
  /\ IF \A r \in Receivables : db.states[r] \in CheckPhaseSix \union {None}
     THEN Commit(p, Widened(db), "read_five")
     ELSE Abort(p)

\* Fault: the migration is tried whatever the versions say.
ReadPhaseFiveAlways(p) == Read(p, "read_five", TRUE, "five", "read_six")

ReadPhaseFive(p) == Read(p, "read_five", 6 \notin db.versions, "five", "read_six")

MigratePhaseFive(p) ==
  /\ pc[p] = "five"
  /\ IF 6 \notin db.versions THEN Commit(p, PhaseFive(db), "read_six") ELSE Abort(p)

ReadPhaseSix(p) == Read(p, "read_six", 7 \notin db.versions, "six", "read_variance")

MigratePhaseSix(p) ==
  /\ pc[p] = "six"
  /\ IF 7 \notin db.versions THEN Commit(p, PhaseSix(db), "read_variance") ELSE Abort(p)

\* Version 8 and the columns change in one transaction, so one read stands for
\* the four statements.
ReadVariance(p) ==
  /\ pc[p] = "read_variance"
  /\ rebuild' = [rebuild EXCEPT ![p] = NeedsRebuild(db)]
  /\ Goto(p, IF 8 \in db.versions /\ ~NeedsRebuild(db) THEN "read_chain" ELSE "variance")
  /\ UNCHANGED <<release, db, writer, snapshot, next, torn, result, disturbed, crashes>>

MigrateVariance(p) == pc[p] = "variance" /\ Commit(p, Variance(db, rebuild[p]), "read_chain")

ReadChain(p) == Read(p, "read_chain", 5 \notin db.versions, "genesis", "verify")

\* BEGIN DEFERRED: the first read of ledger_root fixes the snapshot.
ReadGenesis(p) ==
  /\ pc[p] = "genesis"
  /\ snapshot' = [snapshot EXCEPT ![p] = db]
  /\ Goto(p, "append")
  /\ UNCHANGED <<release, db, writer, rebuild, next, torn, result, disturbed, crashes>>

\* The first INSERT upgrades the transaction: it fails at once when another
\* process holds the lock or has committed since the snapshot.
AppendGenesis(p) ==
  /\ pc[p] = "append"
  /\ writer = None
  /\ db = snapshot[p]
  /\ 5 \notin db.versions
  /\ db' = Genesis(db)
  /\ Leave(p, "open")
  /\ Disturb(p)
  /\ UNCHANGED <<release, writer, result, crashes>>

\* The INSERT of version 5 fails when it was there before the snapshot.
RefuseGenesis(p) ==
  /\ pc[p] = "append"
  /\ writer # None \/ db # snapshot[p] \/ 5 \in db.versions
  /\ Fail(p, "unavailable")
  /\ UNCHANGED <<release, db, writer, disturbed, crashes>>

\* verify_ledger_checkpoints on the bare connection: first the chain ...
ReadCheckpoints(p) ==
  /\ pc[p] = "verify"
  /\ IF db.checkpoint = NoCheckpoint
     THEN Fail(p, "integrity")
     ELSE /\ snapshot' = [snapshot EXCEPT ![p] = db.checkpoint]
          /\ Goto(p, "root")
          /\ UNCHANGED <<rebuild, next, torn, result>>
  /\ UNCHANGED <<release, db, writer, disturbed, crashes>>

\* ... then one table of the root after the other, each as of its own instant.
Differs(p) == snapshot[p] = Legacy \/ snapshot[p][next[p]] # Root(db)[next[p]]

ReadTable(p) ==
  /\ pc[p] = "root"
  /\ next[p] < Len(Material)
  /\ torn' = [torn EXCEPT ![p] = @ \/ Differs(p)]
  /\ next' = [next EXCEPT ![p] = @ + 1]
  /\ UNCHANGED <<release, db, writer, pc, rebuild, snapshot, result, disturbed, crashes>>

CompareRoot(p) ==
  /\ pc[p] = "root"
  /\ next[p] = Len(Material)
  /\ IF torn[p] \/ Differs(p)
     THEN Fail(p, "integrity")
     ELSE Leave(p, "open") /\ UNCHANGED result
  /\ UNCHANGED <<release, db, writer, disturbed, crashes>>

\* The process dies in the middle of open; SQLite rolls its transaction back.
Crash(p) ==
  /\ crashes < MaxCrashes
  /\ Opens(p)
  /\ crashes' = crashes + 1
  /\ Leave(p, "closed")
  /\ writer' = IF writer = p THEN None ELSE writer
  /\ UNCHANGED <<release, db, result, disturbed>>

\* The process ends; another call opens the store again.
Close(p) ==
  /\ pc[p] = "open"
  /\ Goto(p, "closed")
  /\ UNCHANGED <<release, db, writer, rebuild, snapshot, next, torn, result, disturbed, crashes>>

-----------------------------------------------------------------------------
(* What a process that has the store open writes, each in one immediate    *)
(* transaction.  Three of the ledger's operations on the receivables of    *)
(* the model, and the creation of receivables beyond them, stand for all   *)
(* of them.                                                                *)

\* The event chain only grows, so what a write adds to the tables up to the
\* last-th never again agrees with a checkpoint that was read before it; it
\* counts for whoever has these tables still to read.
Torn(p, last) == torn[p] \/ (pc[p] = "root" /\ next[p] <= last)

Write(p, d, last) ==
  /\ pc[p] = "open"
  /\ writer = None
  /\ db' = Checkpointed(d)
  /\ torn' = [q \in Processes |-> Torn(q, last)]
  /\ Disturb(p)
  /\ UNCHANGED <<release, writer, pc, rebuild, snapshot, next, result, crashes>>

CreateOrGet(p, r) ==
  /\ db.states[r] = None
  /\ Write(p, [db EXCEPT !.states[r] = "open"], 2)

\* A receivable beyond those of the model: its rows are not kept.
CreateOther(p) == Write(p, db, 2)

MarkUnderpaymentReview(p, r) ==
  /\ db.states[r] = "open"
  /\ "needs_review" \in db.check
  /\ Write(p, [db EXCEPT !.states[r] = "needs_review", !.candidates[r] = "short"], 4)

\* Without the measured amounts, or against the CHECK, nothing is written.
AcceptUnderpayment(p, r) ==
  /\ db.states[r] = "needs_review"
  /\ db.candidates[r] = "short"
  /\ "settled_with_variance" \in db.check
  /\ Write(p, [db EXCEPT !.states[r] = "settled_with_variance",
                         !.settlements[r] = Accepted,
                         !.resolutions[r] = [run |-> "run"]], 5)

Opening(p) ==
  \/ Begin(p)
  \/ Start(p)
  \/ CreateSchema(p)
  \/ ReadCheck(p)
  \/ MigrateStateConstraint(p)
  \/ ReadPhaseFive(p)
  \/ MigratePhaseFive(p)
  \/ ReadPhaseSix(p)
  \/ MigratePhaseSix(p)
  \/ ReadVariance(p)
  \/ MigrateVariance(p)
  \/ ReadChain(p)
  \/ ReadGenesis(p)
  \/ AppendGenesis(p)
  \/ RefuseGenesis(p)
  \/ ReadCheckpoints(p)
  \/ ReadTable(p)
  \/ CompareRoot(p)

Writing(p) ==
  \/ CreateOther(p)
  \/ \E r \in Receivables :
       CreateOrGet(p, r) \/ MarkUnderpaymentReview(p, r) \/ AcceptUnderpayment(p, r)

Next == \E p \in Processes : Opening(p) \/ Crash(p) \/ Close(p) \/ Writing(p)

Spec == Init /\ [][Next]_vars

\* The scheduled job runs again and the session server is started again: an
\* open that can go on goes on, and one that failed is tried again.  The busy
\* handler asks for the lock until it finds it free, and nobody keeps it.
FairSpec ==
  /\ Spec
  /\ \A p \in Processes : WF_vars(Opening(p)) /\ SF_vars(Begin(p))

-----------------------------------------------------------------------------
(* Properties                                                              *)

Labels == Transactions \union
  {"closed", "read_check", "read_five", "read_six", "read_variance", "read_chain",
   "genesis", "append", "verify", "root", "open"}

TypeOK ==
  /\ release \in Releases
  /\ db.versions \subseteq Versions
  /\ db.check \subseteq States
  /\ db.states \in [Receivables -> States \union {None}]
  /\ writer \in Processes \union {None}
  /\ writer # None => pc[writer] \in Transactions
  /\ pc \in [Processes -> Labels]
  /\ rebuild \in [Processes -> BOOLEAN]
  /\ next \in [Processes -> 1..Len(Material)]
  /\ torn \in [Processes -> BOOLEAN]
  /\ result \in [Processes -> {None, "unavailable", "integrity"}]
  /\ disturbed \in [Processes -> BOOLEAN]
  /\ crashes \in 0..MaxCrashes

\* An open fails only when another process wrote while it ran: alone, it
\* succeeds from what any release left behind, and from what an earlier open
\* left behind that died at any point.
LoneOpensSucceed == \A p \in Processes : result[p] # None => disturbed[p]

\* As long as any process has the store open, no old table is left, all
\* versions are installed and the last checkpoint covers the current rows.
OpenedStoresAreCurrent ==
  (\E p \in Processes : pc[p] = "open") =>
    /\ db.versions = Versions
    /\ db.shape = Current
    /\ db.checkpoint = Root(db)
    /\ release # "phase_two" => db.check = States

\* What the rows say, whatever the generation of their table: a settlement
\* without a kind is exact, and a close is a close under any of its forms.
Evidence(d) ==
  [states |-> d.states,
   settlements |-> [r \in Receivables |->
      IF d.settlements[r] = None THEN None
      ELSE IF d.settlements[r].kind = None THEN Exact(d.settlements[r].paid)
      ELSE d.settlements[r]],
   candidates |-> d.candidates,
   resolutions |-> d.resolutions,
   valued |-> {r \in Receivables : d.methods[r] # None},
   closed |-> {m \in Months : d.closes[m] # None}]

\* A rebuild that was decided on before another process made it.
StaleRebuild(p) == pc[p] = "variance" /\ rebuild[p] /\ ~NeedsRebuild(db)

\* What is left of it when its kinds and its amounts due are forgotten.
Standing(d) ==
  LET said == Evidence(d) IN
    [said EXCEPT
       !.settlements = [r \in Receivables |-> IF @[r] = None THEN None ELSE @[r].paid],
       !.candidates = {r \in Receivables : @[r] # None},
       !.resolutions = {r \in Receivables : @[r] # None}]

\* No step of an open changes what the rows say, only the writes do, with one
\* exception: a stale rebuild copies every settlement as exact again
\* (migrate_variance_schema reads needs_rebuild before its transaction).  Even
\* that one leaves every state, every settlement and what was paid with it,
\* and which receivables have candidates, resolutions and valuations.
OnlyStaleRebuildsLoseEvidence ==
  [][\A p \in Processes :
       /\ (Opening(p) /\ ~StaleRebuild(p)) \/ Crash(p) => Evidence(db') = Evidence(db)
       /\ Opening(p) => Standing(db') = Standing(db)]_vars

\* Openers that contend wait for each other instead of failing: so the test
\* concurrent_opens_all_succeed says of a store of the current release, each
\* of whose openers writes when it is in, and docs/EVIDENCE.md that a
\* verification reads from one snapshot.
ConcurrentOpensSucceed == \A p \in Processes : result[p] = None

\* An open store admits every state that the code writes.
OpenedStoresAdmitEveryState == (\E p \in Processes : pc[p] = "open") => States \subseteq db.check

\* Once the checkpoint chain exists, whoever goes on trying gets the store
\* open, if from some time on nobody writes while it compares the tables of the
\* root; the others may write at all other times, forever.  Without that rest
\* each attempt can meet a write (open verifies outside a transaction), and
\* before the chain exists two processes can go on refusing each other the
\* first checkpoint.
VerifiesUndisturbed(p) ==
  <>[][pc[p] = "root" => \A q \in Processes \ {p} : ~Writing(q)]_vars

OpenersGetIn ==
  \A p \in Processes : VerifiesUndisturbed(p) => (5 \in db.versions ~> pc[p] = "open")
=============================================================================
