-------------------------- MODULE MonthCloseProofs --------------------------
(***************************************************************************)
(* Theorems of the monthly exports, for any number of exporters, months,   *)
(* receivables and quotes.  The difficulty is that an exporter reads the   *)
(* root, the settlements of its month, their valuations and the root again *)
(* in separate statements.  Equal roots do not say that nothing happened   *)
(* in between, but the ledger only grows: what was read lies between two   *)
(* states that the roots say are the same.                                 *)
(***************************************************************************)
EXTENDS MonthClose, LedgerProofs

-----------------------------------------------------------------------------
(***************************************************************************)
(* Roots.                                                                  *)
(***************************************************************************)
Tables ==
  [Receivables -> States \cup {"absent"}]
  \X [Receivables -> Terms \cup {None}]
  \X [Receivables -> References \cup {None}]
  \X (SUBSET Settlement)
  \X [Receivables -> Seq(Evidence)]
  \X (SUBSET Resolution)
  \X [Receivables -> Quotes \cup {None}]
  \X [Months -> Seq(Artifacts)]
  \X [Receivables -> Seq(Event)]

\* The settlements and the valuations under a root.
SettlementsOf(tables) == tables[4]

ValuationsOf(tables) == tables[7]

LEMMA NineColumns ==
  ASSUME NEW A, NEW B, NEW C, NEW D, NEW E, NEW F, NEW G, NEW H, NEW I,
         NEW a \in A, NEW b \in B, NEW c \in C, NEW d \in D, NEW e \in E,
         NEW f \in F, NEW g \in G, NEW h \in H, NEW i \in I
  PROVE  /\ <<a, b, c, d, e, f, g, h, i>>
              \in A \X B \X C \X D \X E \X F \X G \X H \X I
         /\ <<a, b, c, d, e, f, g, h, i>>[4] = d
         /\ <<a, b, c, d, e, f, g, h, i>>[7] = g
  OBVIOUS

LEMMA MaterialTables ==
  ASSUME TypeOK
  PROVE  /\ material \in Tables
         /\ SettlementsOf(material) = settlements
         /\ ValuationsOf(material) = valuations
<1>1. settlements \in SUBSET Settlement /\ resolutions \in SUBSET Resolution
  BY DEF TypeOK
<1>2. /\ state \in [Receivables -> States \cup {"absent"}]
      /\ terms \in [Receivables -> Terms \cup {None}]
      /\ reference \in [Receivables -> References \cup {None}]
      /\ candidates \in [Receivables -> Seq(Evidence)]
      /\ valuations \in [Receivables -> Quotes \cup {None}]
      /\ closes \in [Months -> Seq(Artifacts)]
      /\ events \in [Receivables -> Seq(Event)]
  BY DEF TypeOK
<1>3. material \in Tables
  BY <1>1, <1>2, NineColumns, Zenon DEF material, Tables
<1>4. material[4] = settlements /\ material[7] = valuations
  BY DEF material
<1> QED
  BY <1>3, <1>4 DEF SettlementsOf, ValuationsOf

-----------------------------------------------------------------------------
(***************************************************************************)
(* The inductive invariant.                                                *)
(***************************************************************************)
Reading == {"rows", "valuations", "compare", "record"}

Holding == {"compare", "record", "publish", "rename"}

ExporterRecord ==
  [pc : {"idle", "list", "quote", "release"} \cup Reading \cup Holding,
   month : Months \cup {None},
   mode : {"final", "snapshot", None},
   todo : SUBSET Receivables,
   reasons : [Receivables -> PendingReasons \cup {None}],
   seen : Tables \cup {None},
   rows : SUBSET Receivables,
   bytes : Evidences \cup {None},
   revision : Nat]

SettledBy(ss, m) ==
  {s.id : s \in {q \in ss : /\ q.evidence.signature \in Timed
                            /\ MonthOf[q.evidence.signature] = m}}

\* Valuations that were attached since.
Later(vs1, vs2) ==
  \A id \in Receivables : vs1[id] # None => vs2[id] = vs1[id]

\* Bytes that were put together after the root was read and before now.
Drawn(bytes, seen, m, ss, vs) ==
  \A id \in Receivables :
    /\ id \in SettledBy(SettlementsOf(seen), m) => bytes[id] # None
    /\ bytes[id] # None => id \in SettledBy(ss, m)
    /\ bytes[id] \in Quotes => vs[id] = bytes[id]
    /\ bytes[id] # None /\ ValuationsOf(seen)[id] # None
         => bytes[id] = ValuationsOf(seen)[id]

Recorded(m, revision, bytes, cl) ==
  revision \in DOMAIN cl[m] /\ cl[m][revision] = bytes

\* What a record says of the settlements, the valuations and the closes.
Sound(me, ss, vs, cl) ==
  /\ me.pc # "idle" => me.month \in Months
  /\ me.pc \in Reading =>
       /\ me.seen \in Tables
       /\ SettlementsOf(me.seen) \subseteq ss
       /\ Later(ValuationsOf(me.seen), vs)
  /\ me.pc = "valuations" =>
       /\ SettledBy(SettlementsOf(me.seen), me.month) \subseteq me.rows
       /\ me.rows \subseteq SettledBy(ss, me.month)
  /\ me.pc \in {"compare", "record"} =>
       Drawn(me.bytes, me.seen, me.month, ss, vs)
  /\ me.pc \in Holding => me.bytes \in Evidences
  /\ me.pc = "record" => me.mode = "final"
  /\ me.pc \in {"publish", "rename"} /\ me.mode = "final"
       => Recorded(me.month, me.revision, me.bytes, cl)

RecordsOK ==
  /\ exporter \in [Exporters -> ExporterRecord]
  /\ \A e \in Exporters :
       Sound(exporter[e], settlements, valuations, closes)

\* A revision names settlements of its month and quotes that are attached.
Backed(bytes, m, ss, vs) ==
  /\ bytes \in Evidences
  /\ \A id \in Receivables :
       /\ bytes[id] # None => id \in SettledBy(ss, m)
       /\ bytes[id] \in Quotes => vs[id] = bytes[id]

ClosesBacked ==
  \A m \in Months : \A i \in DOMAIN closes[m] :
    Backed(closes[m][i], m, settlements, valuations)

Directories ==
  {"final", "snapshot", None} \X Months \X (Nat \cup Evidences)

ReportRecord == [month : Months, revision : Nat, bytes : Evidences]

PublishedOK ==
  /\ published \subseteq [directory : Directories, bytes : Evidences]
  /\ reports \subseteq ReportRecord

ExportInv ==
  /\ SettlementInv
  /\ CheckpointIsCurrent
  /\ RecordsOK
  /\ ClosesBacked
  /\ RevisionsAddUp
  /\ PublishedOK
  /\ ReportsAreBacked

LEMMA SettledByAll ==
  ASSUME NEW m
  PROVE  SettledIn(m) = SettledBy(settlements, m)
  BY DEF SettledIn, SettledBy

\* A later state of the ledger.
LEMMA SettledByGrows ==
  ASSUME NEW m, NEW ss, NEW ss2, ss \subseteq ss2
  PROVE  SettledBy(ss, m) \subseteq SettledBy(ss2, m)
  BY DEF SettledBy

LEMMA LaterTrans ==
  ASSUME NEW vs1, NEW vs2, NEW vs3, Later(vs1, vs2), Later(vs2, vs3)
  PROVE  Later(vs1, vs3)
  BY DEF Later

\* The ledger moved on, by whole transactions.
Advanced(ss, ss2, vs, vs2, cl, cl2) ==
  /\ ss \subseteq ss2
  /\ Later(vs, vs2)
  /\ \A m \in Months : Extended(cl[m], cl2[m])

LEMMA DrawnStays ==
  ASSUME NEW bytes, NEW seen, NEW m, NEW ss, NEW ss2, NEW vs, NEW vs2,
         ss \subseteq ss2, Later(vs, vs2), Drawn(bytes, seen, m, ss, vs)
  PROVE  Drawn(bytes, seen, m, ss2, vs2)
<1>1. SettledBy(ss, m) \subseteq SettledBy(ss2, m)
  BY SettledByGrows
<1>2. \A id \in Receivables : bytes[id] \in Quotes => bytes[id] # None
  BY MonthCloseAssumption
<1> QED
  BY <1>1, <1>2 DEF Drawn, Later

LEMMA SoundStays ==
  ASSUME NEW me, NEW ss, NEW ss2, NEW vs, NEW vs2, NEW cl, NEW cl2,
         Advanced(ss, ss2, vs, vs2, cl, cl2), Sound(me, ss, vs, cl)
  PROVE  Sound(me, ss2, vs2, cl2)
<1> USE DEF Advanced
<1>1. me.pc \in Reading =>
        /\ me.seen \in Tables
        /\ SettlementsOf(me.seen) \subseteq ss2
        /\ Later(ValuationsOf(me.seen), vs2)
  BY LaterTrans DEF Sound
<1>2. me.pc = "valuations" =>
        /\ SettledBy(SettlementsOf(me.seen), me.month) \subseteq me.rows
        /\ me.rows \subseteq SettledBy(ss2, me.month)
  BY SettledByGrows DEF Sound
<1>3. me.pc \in {"compare", "record"} =>
        Drawn(me.bytes, me.seen, me.month, ss2, vs2)
  BY DrawnStays DEF Sound
<1>4. me.pc \in {"publish", "rename"} /\ me.mode = "final"
        => Recorded(me.month, me.revision, me.bytes, cl2)
  BY DEF Sound, Recorded, Extended
<1> QED
  BY <1>1, <1>2, <1>3, <1>4 DEF Sound

LEMMA BackedStays ==
  ASSUME NEW bytes, NEW m, NEW ss, NEW ss2, NEW vs, NEW vs2,
         ss \subseteq ss2, Later(vs, vs2), Backed(bytes, m, ss, vs)
  PROVE  Backed(bytes, m, ss2, vs2)
<1>1. SettledBy(ss, m) \subseteq SettledBy(ss2, m)
  BY SettledByGrows
<1>2. \A id \in Receivables : bytes[id] \in Quotes => bytes[id] # None
  BY MonthCloseAssumption
<1> QED
  BY <1>1, <1>2 DEF Backed, Later

LEMMA LedgerAdvances ==
  ASSUME TypeInv, [LedgerNext]_ledgerVars
  PROVE  Advanced(settlements, settlements', valuations, valuations',
                  closes, closes')
  BY LedgerGrows DEF AppendsOnly, Advanced, Later

\* At the moment the root is the one it read, what an exporter put together
\* is what the ledger holds.
LEMMA DrawnIsTrue ==
  ASSUME TypeOK, NEW m, NEW bytes \in Evidences,
         Drawn(bytes, material, m, settlements, valuations),
         NEW id \in Receivables
  PROVE  IF id \notin SettledIn(m) THEN bytes[id] = None
         ELSE IF valuations[id] = None THEN bytes[id] \in Pending
         ELSE bytes[id] = valuations[id]
<1>1. /\ SettlementsOf(material) = settlements
      /\ ValuationsOf(material) = valuations
  BY MaterialTables
<1>2. /\ id \in SettledIn(m) <=> bytes[id] # None
      /\ bytes[id] \in Quotes => valuations[id] = bytes[id]
      /\ bytes[id] # None /\ valuations[id] # None => bytes[id] = valuations[id]
  BY <1>1, SettledByAll DEF Drawn
<1>3. bytes[id] \in {None} \cup Quotes \cup Pending
  BY DEF Evidences
<1>4. None \notin Quotes
  BY MonthCloseAssumption
<1> QED
  BY <1>2, <1>3, <1>4

-----------------------------------------------------------------------------
(***************************************************************************)
(* Steps of one exporter and of the others.                                *)
(***************************************************************************)

\* What a transaction of the ledger leaves true of the closes so far.
LEMMA ClosesStay ==
  ASSUME ExportInv, [LedgerNext]_ledgerVars, UNCHANGED closes
  PROVE  SettlementInv' /\ CheckpointIsCurrent' /\ ClosesBacked'
           /\ RevisionsAddUp'
<1>1. SettlementInv' /\ CheckpointIsCurrent'
  BY SettlementStep, CheckpointStep DEF ExportInv
<1>2. Advanced(settlements, settlements', valuations, valuations',
               closes, closes')
  BY LedgerAdvances DEF ExportInv, SettlementInv
<1>3. ASSUME NEW m \in Months, NEW i \in DOMAIN closes[m]
      PROVE  Backed(closes[m][i], m, settlements', valuations')
  <2>1. Backed(closes[m][i], m, settlements, valuations)
    BY DEF ExportInv, ClosesBacked
  <2> QED
    BY <1>2, <2>1, BackedStays DEF Advanced
<1>4. ClosesBacked'
  BY <1>3 DEF ClosesBacked
<1>5. RevisionsAddUp'
  BY DEF ExportInv, RevisionsAddUp
<1> QED
  BY <1>1, <1>4, <1>5

\* One exporter's record changes.
LEMMA OwnStep ==
  ASSUME RecordsOK, NEW e \in Exporters, NEW r \in ExporterRecord,
         Become(e, r),
         Advanced(settlements, settlements', valuations, valuations',
                  closes, closes'),
         Sound(r, settlements', valuations', closes')
  PROVE  RecordsOK'
<1>1. /\ exporter \in [Exporters -> ExporterRecord]
      /\ exporter' = [exporter EXCEPT ![e] = r]
  BY DEF RecordsOK, Become
<1>2. exporter' \in [Exporters -> ExporterRecord]
  BY <1>1
<1>3. ASSUME NEW x \in Exporters
      PROVE  Sound(exporter'[x], settlements', valuations', closes')
  <2>1. CASE x = e
    BY <1>1, <2>1
  <2>2. CASE x # e
    <3>1. exporter'[x] = exporter[x]
      BY <1>1, <2>2
    <3>2. Sound(exporter[x], settlements, valuations, closes)
      BY DEF RecordsOK
    <3> QED
      BY <3>1, <3>2, SoundStays
  <2> QED
    BY <2>1, <2>2
<1> QED
  BY <1>2, <1>3 DEF RecordsOK

\* None changes.
LEMMA OthersStep ==
  ASSUME RecordsOK, UNCHANGED exporter,
         Advanced(settlements, settlements', valuations, valuations',
                  closes, closes')
  PROVE  RecordsOK'
<1>1. ASSUME NEW x \in Exporters
      PROVE  Sound(exporter[x], settlements', valuations', closes')
  <2>1. Sound(exporter[x], settlements, valuations, closes)
    BY DEF RecordsOK
  <2> QED
    BY <2>1, SoundStays
<1> QED
  BY <1>1 DEF RecordsOK

\* Reports and directories stay backed while the closes grow.
LEMMA ReportsStay ==
  ASSUME PublishedOK, ReportsAreBacked, UNCHANGED <<published, reports>>,
         \A m \in Months : Extended(closes[m], closes'[m])
  PROVE  PublishedOK' /\ ReportsAreBacked'
<1>1. ASSUME NEW r \in reports
      PROVE  /\ r.revision \in DOMAIN closes'[r.month]
             /\ closes'[r.month][r.revision] = r.bytes
             /\ [directory |-> <<"final", r.month, r.revision>>,
                 bytes |-> r.bytes] \in published
  <2>1. r.month \in Months
    BY DEF PublishedOK, ReportRecord
  <2> QED
    BY <2>1 DEF ReportsAreBacked, Extended
<1>2. ASSUME NEW p \in published, p.directory[1] = "final"
      PROVE  /\ p.directory[3] \in DOMAIN closes'[p.directory[2]]
             /\ closes'[p.directory[2]][p.directory[3]] = p.bytes
  <2>1. p.directory[2] \in Months
    BY DEF PublishedOK, Directories
  <2> QED
    BY <1>2, <2>1 DEF ReportsAreBacked, Extended
<1>3. PublishedOK'
  BY DEF PublishedOK
<1> QED
  BY <1>1, <1>2, <1>3 DEF ReportsAreBacked

\* The ledger stands still.
LEMMA StillAdvanced ==
  ASSUME UNCHANGED ledgerVars
  PROVE  Advanced(settlements, settlements', valuations, valuations',
                  closes, closes')
  BY SelfExtended DEF ledgerVars, Advanced, Later

\* A step of one exporter that writes nothing but its own record.
LEMMA OnlyStep ==
  ASSUME ExportInv, NEW e \in Exporters, NEW r \in ExporterRecord,
         Sound(r, settlements, valuations, closes),
         Become(e, r), UNCHANGED <<ledgerVars, published, reports>>
  PROVE  ExportInv'
<1>1. Advanced(settlements, settlements', valuations, valuations',
               closes, closes')
  BY StillAdvanced
<1>2. Sound(r, settlements', valuations', closes')
  BY <1>1, SoundStays
<1>3. RecordsOK'
  BY <1>1, <1>2, OwnStep DEF ExportInv
<1>4. PublishedOK' /\ ReportsAreBacked'
  BY <1>1, ReportsStay DEF ExportInv, Advanced
<1>5. SettlementInv' /\ CheckpointIsCurrent' /\ ClosesBacked' /\ RevisionsAddUp'
  BY ClosesStay DEF ledgerVars
<1> QED
  BY <1>3, <1>4, <1>5 DEF ExportInv

\* A step of the rest of the program.
LEMMA ElsewhereStep ==
  ASSUME ExportInv, [LedgerNext]_ledgerVars, UNCHANGED closes,
         UNCHANGED <<exporter, published, reports>>
  PROVE  ExportInv'
<1>1. Advanced(settlements, settlements', valuations, valuations',
               closes, closes')
  BY LedgerAdvances DEF ExportInv, SettlementInv
<1>2. RecordsOK'
  BY <1>1, OthersStep DEF ExportInv
<1>3. PublishedOK' /\ ReportsAreBacked'
  BY <1>1, ReportsStay DEF ExportInv, Advanced
<1>4. SettlementInv' /\ CheckpointIsCurrent' /\ ClosesBacked' /\ RevisionsAddUp'
  BY ClosesStay
<1> QED
  BY <1>2, <1>3, <1>4 DEF ExportInv

\* What an exporter at work has.
LEMMA AtWork ==
  ASSUME ExportInv, NEW e \in Exporters, exporter[e].pc # "idle"
  PROVE  /\ exporter[e] \in ExporterRecord
         /\ Sound(exporter[e], settlements, valuations, closes)
         /\ exporter[e].month \in Months
  BY DEF ExportInv, RecordsOK, Sound

LEMMA IdleIsSound ==
  Idle \in ExporterRecord /\ Sound(Idle, settlements, valuations, closes)
<1>1. Idle \in ExporterRecord
  BY DEF Idle, ExporterRecord
<1>2. Sound(Idle, settlements, valuations, closes)
  BY DEF Idle, Sound, Reading, Holding
<1> QED
  BY <1>1, <1>2

LEMMA ReturnedIsSound ==
  ASSUME NEW e \in Exporters, exporter[e].month \in Months
  PROVE  /\ Returned(e) \in ExporterRecord
         /\ Sound(Returned(e), settlements, valuations, closes)
<1>1. Returned(e) = [Idle EXCEPT !.pc = "release", !.month = exporter[e].month]
  BY DEF Returned
<1>2. Returned(e) \in ExporterRecord
  BY <1>1, IdleIsSound DEF ExporterRecord
<1>3. /\ Returned(e).pc = "release"
      /\ Returned(e).month = exporter[e].month
  BY <1>1 DEF Idle
<1>4. Sound(Returned(e), settlements, valuations, closes)
  BY <1>3 DEF Sound, Reading, Holding
<1> QED
  BY <1>2, <1>4

-----------------------------------------------------------------------------
(***************************************************************************)
(* Reading.                                                                *)
(***************************************************************************)
LEMMA StepReturned ==
  ASSUME ExportInv, NEW e \in Exporters, exporter[e].pc # "idle",
         Only(e, Returned(e))
  PROVE  ExportInv'
  BY AtWork, ReturnedIsSound, OnlyStep DEF Only

LEMMA StepAcquire ==
  ASSUME ExportInv, NEW e \in Exporters, NEW m \in Months, Acquire(e, m)
  PROVE  ExportInv'
<1>1. PICK mode \in Modes[e] :
        Become(e, [Idle EXCEPT !.pc = "list", !.month = m, !.mode = mode])
  BY DEF Acquire
<1> DEFINE r == [Idle EXCEPT !.pc = "list", !.month = m, !.mode = mode]
<1>2. mode \in {"final", "snapshot"}
  BY MonthCloseAssumption
<1>3. r \in ExporterRecord
  BY <1>2, IdleIsSound DEF ExporterRecord
<1>4. r.pc = "list" /\ r.month = m
  BY DEF Idle
<1> HIDE DEF r
<1>5. Sound(r, settlements, valuations, closes)
  BY <1>4 DEF Sound, Reading, Holding
<1>6. Become(e, r)
  BY <1>1 DEF r
<1> QED
  BY <1>3, <1>5, <1>6, OnlyStep DEF Acquire

LEMMA SettledInReceivables ==
  ASSUME TypeOK, NEW m
  PROVE  SettledIn(m) \subseteq Receivables
  BY DEF TypeOK, Settlement, SettledIn

LEMMA StepList ==
  ASSUME ExportInv, NEW e \in Exporters, List(e)
  PROVE  ExportInv'
<1> DEFINE me == exporter[e]
           todo == {id \in SettledIn(me.month) : valuations[id] = None}
           r == [me EXCEPT !.pc = "quote", !.todo = todo]
<1>1. me.pc = "list"
  BY DEF List, At
<1>2. CASE ~Readable
  BY <1>1, <1>2, StepReturned DEF List
<1>3. CASE Readable
  <2>1. Only(e, r)
    BY <1>3 DEF List
  <2>2. todo \subseteq Receivables
    BY SettledInReceivables DEF ExportInv, SettlementInv, TypeInv
  <2>3. me \in ExporterRecord /\ me.month \in Months
    BY <1>1, AtWork
  <2> HIDE DEF me, todo
  <2>4. r \in ExporterRecord /\ r.pc = "quote" /\ r.month = me.month
    BY <2>2, <2>3 DEF ExporterRecord
  <2> HIDE DEF r
  <2>5. Sound(r, settlements, valuations, closes)
    BY <2>3, <2>4 DEF Sound, Reading, Holding
  <2> QED
    BY <2>1, <2>4, <2>5, OnlyStep DEF Only
<1> QED
  BY <1>2, <1>3

\* A record that is still asking for quotes.
LEMMA QuotingIsSound ==
  ASSUME NEW r, r.pc = "quote", r.month \in Months, NEW ss, NEW vs, NEW cl
  PROVE  Sound(r, ss, vs, cl)
  BY DEF Sound, Reading, Holding

LEMMA StepQuote ==
  ASSUME ExportInv, NEW e \in Exporters, Quote(e)
  PROVE  ExportInv'
<1> DEFINE me == exporter[e]
<1>1. me.pc = "quote"
  BY DEF Quote, At
<1>2. me \in ExporterRecord /\ me.month \in Months
  BY <1>1, AtWork
<1>3. PICK id \in me.todo :
        \/ \E reason \in PendingReasons :
             Only(e, [[me EXCEPT !.todo = @ \ {id}]
                        EXCEPT !.reasons[id] = reason])
        \/ \E q \in Quotes :
             \/ /\ AttachValuation(id, q)
                /\ Become(e, [me EXCEPT !.todo = @ \ {id}])
                /\ UNCHANGED <<leases, published, reports, faults>>
             \/ /\ valuations[id] = q
                /\ Only(e, [me EXCEPT !.todo = @ \ {id}])
             \/ /\ valuations[id] \notin {None, q}
                /\ Only(e, Returned(e))
  BY DEF Quote
<1> DEFINE rest == [me EXCEPT !.todo = @ \ {id}]
<1>4. id \in Receivables
  BY <1>2 DEF ExporterRecord
<1>5. CASE Only(e, Returned(e))
  BY <1>1, <1>5, StepReturned
<1> HIDE DEF me
<1>6. rest \in ExporterRecord /\ rest.pc = "quote" /\ rest.month = me.month
  BY <1>1, <1>2 DEF ExporterRecord
<1> HIDE DEF rest
<1>7. Sound(rest, settlements, valuations, closes)
  BY <1>2, <1>6, QuotingIsSound
<1>8. CASE Only(e, rest)
  BY <1>6, <1>7, <1>8, OnlyStep DEF Only
<1>9. ASSUME NEW reason \in PendingReasons,
             Only(e, [rest EXCEPT !.reasons[id] = reason])
      PROVE  ExportInv'
  <2> DEFINE r == [rest EXCEPT !.reasons[id] = reason]
  <2>1. r \in ExporterRecord /\ r.pc = "quote" /\ r.month = me.month
    BY <1>4, <1>6 DEF ExporterRecord
  <2>2. Only(e, r)
    BY <1>9
  <2> HIDE DEF r
  <2>3. Sound(r, settlements, valuations, closes)
    BY <1>2, <2>1, QuotingIsSound
  <2> QED
    BY <2>1, <2>2, <2>3, OnlyStep DEF Only
<1>10. ASSUME NEW q \in Quotes, AttachValuation(id, q), Become(e, rest),
              UNCHANGED <<leases, published, reports, faults>>
       PROVE  ExportInv'
  <2>1. LedgerNext /\ UNCHANGED closes
    BY <1>4, <1>10 DEF LedgerNext, AttachValuation
  <2>2. Advanced(settlements, settlements', valuations, valuations',
                 closes, closes')
    BY <2>1, LedgerAdvances DEF ExportInv, SettlementInv
  <2>3. Sound(rest, settlements', valuations', closes')
    BY <1>2, <1>6, QuotingIsSound
  <2>4. RecordsOK'
    BY <1>6, <1>10, <2>2, <2>3, OwnStep DEF ExportInv
  <2>5. PublishedOK' /\ ReportsAreBacked'
    BY <1>10, <2>2, ReportsStay DEF ExportInv, Advanced
  <2>6. SettlementInv' /\ CheckpointIsCurrent' /\ ClosesBacked'
          /\ RevisionsAddUp'
    BY <2>1, ClosesStay
  <2> QED
    BY <2>4, <2>5, <2>6 DEF ExportInv
<1> QED
  BY <1>3, <1>5, <1>8, <1>9, <1>10 DEF rest, me

LEMMA StepReadRoot ==
  ASSUME ExportInv, NEW e \in Exporters, ReadRootBefore(e)
  PROVE  ExportInv'
<1> DEFINE me == exporter[e]
           r == [me EXCEPT !.pc = "rows", !.seen = root]
<1>1. me.pc = "quote" /\ Only(e, r)
  BY DEF ReadRootBefore, At
<1>2. me \in ExporterRecord /\ me.month \in Months
  BY <1>1, AtWork
<1>3. /\ root \in Tables
      /\ SettlementsOf(root) = settlements
      /\ ValuationsOf(root) = valuations
  BY MaterialTables
  DEF ExportInv, SettlementInv, TypeInv, CheckpointIsCurrent
<1> HIDE DEF me
<1>4. /\ r \in ExporterRecord
      /\ r.pc = "rows" /\ r.month = me.month /\ r.seen = root
  BY <1>2, <1>3 DEF ExporterRecord, Reading
<1> HIDE DEF r
<1>5. Sound(r, settlements, valuations, closes)
  BY <1>2, <1>3, <1>4 DEF Sound, Reading, Holding, Later
<1> QED
  BY <1>1, <1>4, <1>5, OnlyStep DEF Only

LEMMA StepReadRows ==
  ASSUME ExportInv, NEW e \in Exporters, ReadRows(e)
  PROVE  ExportInv'
<1> DEFINE me == exporter[e]
           rows == SettledIn(me.month)
           r == [me EXCEPT !.pc = "valuations", !.rows = rows]
<1>1. me.pc = "rows"
  BY DEF ReadRows, At
<1>2. CASE ~Readable
  BY <1>1, <1>2, StepReturned DEF ReadRows
<1>3. CASE Readable
  <2>1. Only(e, r)
    BY <1>3 DEF ReadRows
  <2>2. /\ rows \subseteq Receivables
        /\ rows = SettledBy(settlements, me.month)
    BY SettledInReceivables, SettledByAll
    DEF ExportInv, SettlementInv, TypeInv
  <2>3. /\ me \in ExporterRecord /\ me.month \in Months
        /\ Sound(me, settlements, valuations, closes)
    BY <1>1, AtWork
  <2> HIDE DEF me, rows
  <2>4. /\ me.seen \in Tables
        /\ SettlementsOf(me.seen) \subseteq settlements
        /\ Later(ValuationsOf(me.seen), valuations)
    BY <1>1, <2>3 DEF Sound, Reading
  <2>5. SettledBy(SettlementsOf(me.seen), me.month) \subseteq rows
    BY <2>2, <2>4, SettledByGrows
  <2>6. /\ r \in ExporterRecord
        /\ r.pc = "valuations" /\ r.month = me.month /\ r.seen = me.seen
        /\ r.rows = rows
    BY <2>2, <2>3 DEF ExporterRecord, Reading
  <2> HIDE DEF r
  <2>7. Sound(r, settlements, valuations, closes)
    BY <2>2, <2>3, <2>4, <2>5, <2>6 DEF Sound, Reading, Holding
  <2> QED
    BY <2>1, <2>6, <2>7, OnlyStep DEF Only
<1> QED
  BY <1>2, <1>3

\* What the valuations of the rows make of them.
LEMMA EvidenceIsDrawn ==
  ASSUME TypeOK, NEW seen, NEW m, NEW rows \in SUBSET Receivables,
         NEW reasons \in [Receivables -> PendingReasons \cup {None}],
         SettledBy(SettlementsOf(seen), m) \subseteq rows,
         rows \subseteq SettledBy(settlements, m),
         Later(ValuationsOf(seen), valuations)
  PROVE  /\ CanonicalEvidence(rows, reasons) \in Evidences
         /\ Drawn(CanonicalEvidence(rows, reasons), seen, m, settlements,
                  valuations)
<1> DEFINE bytes == CanonicalEvidence(rows, reasons)
<1>1. ASSUME NEW id \in Receivables
      PROVE  /\ bytes[id] \in {None} \cup Quotes \cup Pending
             /\ bytes[id] # None <=> id \in rows
             /\ bytes[id] \in Quotes => valuations[id] = bytes[id]
             /\ bytes[id] # None /\ valuations[id] # None
                  => bytes[id] = valuations[id]
  <2>1. /\ valuations[id] \in Quotes \cup {None}
        /\ reasons[id] \in PendingReasons \cup {None}
    BY DEF TypeOK
  <2>2. /\ None \notin Quotes /\ None \notin Pending
        /\ Quotes \cap Pending = {}
        /\ PendingReasons \subseteq Pending /\ "unexplained" \in Pending
    BY MonthCloseAssumption DEF Pending
  <2>3. bytes[id] = CASE id \notin rows -> None
                      [] id \in rows /\ valuations[id] # None -> valuations[id]
                      [] id \in rows /\ valuations[id] = None
                           /\ reasons[id] # None -> reasons[id]
                      [] OTHER -> "unexplained"
    BY DEF CanonicalEvidence
  <2> HIDE DEF bytes
  <2>4. CASE id \notin rows
    BY <2>2, <2>3, <2>4
  <2>5. CASE id \in rows /\ valuations[id] # None
    BY <2>1, <2>2, <2>3, <2>5
  <2>6. CASE id \in rows /\ valuations[id] = None /\ reasons[id] # None
    BY <2>1, <2>2, <2>3, <2>6
  <2>7. CASE id \in rows /\ valuations[id] = None /\ reasons[id] = None
    BY <2>1, <2>2, <2>3, <2>7
  <2> QED
    BY <2>4, <2>5, <2>6, <2>7
<1>2. bytes \in Evidences
  <2>1. bytes = [id \in Receivables |-> bytes[id]]
    BY DEF CanonicalEvidence
  <2> HIDE DEF bytes
  <2> QED
    BY <1>1, <2>1 DEF Evidences
<1> HIDE DEF bytes
<1>3. Drawn(bytes, seen, m, settlements, valuations)
  BY <1>1 DEF Drawn, Later
<1> QED
  BY <1>2, <1>3 DEF bytes

LEMMA StepReadValuations ==
  ASSUME ExportInv, NEW e \in Exporters, ReadValuations(e)
  PROVE  ExportInv'
<1> DEFINE me == exporter[e]
           bytes == CanonicalEvidence(me.rows, me.reasons)
           r == [me EXCEPT !.pc = "compare", !.rows = {},
                           !.reasons = Idle.reasons, !.bytes = bytes]
<1>1. me.pc = "valuations" /\ Only(e, r)
  BY DEF ReadValuations, At
<1>2. /\ me \in ExporterRecord /\ me.month \in Months
      /\ Sound(me, settlements, valuations, closes)
  BY <1>1, AtWork
<1> HIDE DEF me
<1>3. /\ me.seen \in Tables
      /\ SettlementsOf(me.seen) \subseteq settlements
      /\ Later(ValuationsOf(me.seen), valuations)
      /\ SettledBy(SettlementsOf(me.seen), me.month) \subseteq me.rows
      /\ me.rows \subseteq SettledBy(settlements, me.month)
  BY <1>1, <1>2 DEF Sound, Reading
<1>4. /\ me.rows \in SUBSET Receivables
      /\ me.reasons \in [Receivables -> PendingReasons \cup {None}]
  BY <1>2 DEF ExporterRecord
<1>5. /\ bytes \in Evidences
      /\ Drawn(bytes, me.seen, me.month, settlements, valuations)
  BY <1>3, <1>4, EvidenceIsDrawn DEF ExportInv, SettlementInv, TypeInv
<1>6. Idle.reasons \in [Receivables -> PendingReasons \cup {None}]
  BY DEF Idle
<1> HIDE DEF bytes
<1>7. /\ r \in ExporterRecord
      /\ r.pc = "compare" /\ r.month = me.month /\ r.seen = me.seen
      /\ r.bytes = bytes
  BY <1>2, <1>5, <1>6 DEF ExporterRecord, Reading, Holding
<1> HIDE DEF r
<1>8. Sound(r, settlements, valuations, closes)
  BY <1>2, <1>3, <1>5, <1>7 DEF Sound, Reading, Holding
<1> QED
  BY <1>1, <1>7, <1>8, OnlyStep DEF Only

-----------------------------------------------------------------------------
(***************************************************************************)
(* Recording and publishing.                                               *)
(***************************************************************************)
LEMMA StepCompare ==
  ASSUME ExportInv, NEW e \in Exporters, Compare(e)
  PROVE  ExportInv'
<1> DEFINE me == exporter[e]
           final == [me EXCEPT !.pc = "record", !.seen = root]
           snapshot == [me EXCEPT !.pc = "publish", !.seen = None]
<1>1. me.pc = "compare"
  BY DEF Compare, At
<1>2. /\ me \in ExporterRecord /\ me.month \in Months
      /\ Sound(me, settlements, valuations, closes)
  BY <1>1, AtWork
<1>3. CASE ~Unmoved(e)
  BY <1>1, <1>3, StepReturned DEF Compare
<1>4. CASE Unmoved(e)
  <2>1. /\ me.seen = root
        /\ Only(e, IF me.mode = "final" THEN final ELSE snapshot)
    BY <1>4 DEF Compare, Unmoved
  <2> HIDE DEF me
  <2>2. /\ me.seen \in Tables
        /\ SettlementsOf(me.seen) \subseteq settlements
        /\ Later(ValuationsOf(me.seen), valuations)
        /\ Drawn(me.bytes, me.seen, me.month, settlements, valuations)
        /\ me.bytes \in Evidences
    BY <1>1, <1>2 DEF Sound, Reading, Holding
  <2>3. CASE me.mode = "final"
    <3>1. /\ final \in ExporterRecord
          /\ final.pc = "record" /\ final.month = me.month
          /\ final.seen = me.seen /\ final.bytes = me.bytes
          /\ final.mode = me.mode
      BY <1>2, <2>1, <2>2 DEF ExporterRecord, Reading
    <3>2. Only(e, final)
      BY <2>1, <2>3
    <3> HIDE DEF final
    <3>3. Sound(final, settlements, valuations, closes)
      BY <1>2, <2>2, <2>3, <3>1 DEF Sound, Reading, Holding
    <3> QED
      BY <3>1, <3>2, <3>3, OnlyStep DEF Only
  <2>4. CASE me.mode # "final"
    <3>1. /\ snapshot \in ExporterRecord
          /\ snapshot.pc = "publish" /\ snapshot.month = me.month
          /\ snapshot.bytes = me.bytes /\ snapshot.mode = me.mode
      BY <1>2 DEF ExporterRecord, Holding
    <3>2. Only(e, snapshot)
      BY <2>1, <2>4
    <3> HIDE DEF snapshot
    <3>3. Sound(snapshot, settlements, valuations, closes)
      BY <1>2, <2>2, <2>4, <3>1 DEF Sound, Reading, Holding
    <3> QED
      BY <3>1, <3>2, <3>3, OnlyStep DEF Only
  <2> QED
    BY <2>3, <2>4
<1> QED
  BY <1>3, <1>4

\* The record of an exporter whose close is in the ledger.
LEMMA RecordedIsSound ==
  ASSUME NEW me \in ExporterRecord, NEW n \in Nat, NEW ss, NEW vs, NEW cl,
         me.month \in Months, me.bytes \in Evidences,
         Recorded(me.month, n, me.bytes, cl)
  PROVE  LET r == [me EXCEPT !.pc = "publish", !.seen = None, !.revision = n]
         IN  r \in ExporterRecord /\ Sound(r, ss, vs, cl)
<1> DEFINE r == [me EXCEPT !.pc = "publish", !.seen = None, !.revision = n]
<1>1. /\ r \in ExporterRecord
      /\ r.pc = "publish" /\ r.month = me.month /\ r.bytes = me.bytes
      /\ r.revision = n
  BY DEF ExporterRecord, Holding
<1> HIDE DEF r
<1>2. Sound(r, ss, vs, cl)
  BY <1>1 DEF Sound, Reading, Holding
<1> QED
  BY <1>1, <1>2 DEF r

\* What is true of the bytes at the moment they are recorded.
TrueNow(bytes, m) ==
  \A id \in Receivables :
    IF id \notin SettledIn(m) THEN bytes[id] = None
    ELSE IF valuations[id] = None THEN bytes[id] \in Pending
    ELSE bytes[id] = valuations[id]

\* A revision that is appended.
LEMMA StepAppend ==
  ASSUME ExportInv, NEW e \in Exporters, At(e, "record"),
         RecordMonthClose(exporter[e].month, exporter[e].bytes,
                          exporter[e].seen)
  PROVE  LET me == exporter[e]
             n == NextRevision(me.month)
         IN  /\ LedgerNext
             /\ me.bytes \in Evidences
             /\ TrueNow(me.bytes, me.month)
             /\ n \in Nat
             /\ closes' = [closes EXCEPT
                             ![me.month] = Append(closes[me.month], me.bytes)]
             /\ Recorded(me.month, n, me.bytes, closes')
             /\ settlements' = settlements /\ valuations' = valuations
<1> DEFINE me == exporter[e]
           n == NextRevision(me.month)
<1>1. me.pc = "record"
  BY DEF At
<1>2. /\ me \in ExporterRecord /\ me.month \in Months
      /\ Sound(me, settlements, valuations, closes)
  BY <1>1, AtWork
<1>3. RecordMonthClose(me.month, me.bytes, me.seen)
  OBVIOUS
<1> HIDE DEF me
<1>4. me.seen = material /\ material = root
  BY <1>3 DEF RecordMonthClose, Intact
<1>5. /\ Drawn(me.bytes, material, me.month, settlements, valuations)
      /\ me.bytes \in Evidences
  BY <1>1, <1>2, <1>4 DEF Sound, Reading, Holding
<1>6. TypeOK
  BY DEF ExportInv, SettlementInv, TypeInv
<1>7. TrueNow(me.bytes, me.month)
  BY <1>5, <1>6, DrawnIsTrue DEF TrueNow
<1>8. me.bytes \in Artifacts
  BY <1>5, MonthCloseAssumption
<1>9. LedgerNext
  BY <1>2, <1>3, <1>4, <1>8 DEF LedgerNext
<1>10. /\ closes' = [closes EXCEPT
                       ![me.month] = Append(closes[me.month], me.bytes)]
       /\ settlements' = settlements /\ valuations' = valuations
  BY <1>3 DEF RecordMonthClose
<1>11. closes \in [Months -> Seq(Artifacts)]
  BY <1>6 DEF TypeOK
<1>12. n \in Nat /\ Recorded(me.month, n, me.bytes, closes')
  <2>1. closes[me.month] \in Seq(Artifacts)
    BY <1>2, <1>11
  <2>2. closes'[me.month] = Append(closes[me.month], me.bytes)
    BY <1>2, <1>10, <1>11
  <2> QED
    BY <1>8, <2>1, <2>2 DEF Recorded, NextRevision
<1> QED
  BY <1>5, <1>7, <1>9, <1>10, <1>12 DEF me

\* A true revision adds up with those before it, which name settlements and
\* quotes the ledger still holds.
LEMMA TrueAddsUp ==
  ASSUME TypeOK, ClosesBacked, RevisionsAddUp, NEW m \in Months,
         NEW bytes \in Artifacts, bytes \in Evidences, TrueNow(bytes, m),
         closes' = [closes EXCEPT ![m] = Append(closes[m], bytes)],
         settlements' = settlements, valuations' = valuations
  PROVE  ClosesBacked' /\ RevisionsAddUp'
<1>1. None \notin Quotes /\ None \notin Pending /\ Quotes \cap Pending = {}
  BY MonthCloseAssumption
<1>2. Backed(bytes, m, settlements, valuations)
  BY <1>1, SettledByAll DEF TrueNow, Backed
<1>3. ASSUME NEW old, Backed(old, m, settlements, valuations),
             NEW id \in Receivables
      PROVE  /\ old[id] # None => bytes[id] # None
             /\ old[id] \in Quotes => bytes[id] = old[id]
  BY <1>1, <1>3, SettledByAll DEF TrueNow, Backed
<1>4. /\ closes \in [Months -> Seq(Artifacts)]
      /\ closes[m] \in Seq(Artifacts)
  BY DEF TypeOK
<1>5. /\ closes'[m] = Append(closes[m], bytes)
      /\ \A k \in Months : k # m => closes'[k] = closes[k]
  BY <1>4
<1>6. ASSUME NEW i \in DOMAIN closes'[m]
      PROVE  \/ i \in DOMAIN closes[m] /\ closes'[m][i] = closes[m][i]
             \/ i = Len(closes[m]) + 1 /\ closes'[m][i] = bytes
  BY <1>4, <1>5
<1>7. ASSUME NEW k \in Months, NEW i \in DOMAIN closes'[k]
      PROVE  Backed(closes'[k][i], k, settlements, valuations)
  <2>1. CASE k = m
    BY <1>2, <1>6, <1>7, <2>1 DEF ClosesBacked
  <2>2. CASE k # m
    BY <1>5, <2>2 DEF ClosesBacked
  <2> QED
    BY <2>1, <2>2
<1>8. ClosesBacked'
  BY <1>7 DEF ClosesBacked
<1>9. ASSUME NEW k \in Months, NEW i \in DOMAIN closes'[k],
             NEW j \in DOMAIN closes'[k], i < j, NEW id \in Receivables
      PROVE  /\ closes'[k][i][id] # None => closes'[k][j][id] # None
             /\ closes'[k][i][id] \in Quotes
                  => closes'[k][j][id] = closes'[k][i][id]
  <2>1. CASE k # m
    BY <1>5, <1>9, <2>1 DEF RevisionsAddUp
  <2>2. CASE k = m /\ j \in DOMAIN closes[m]
    <3>1. i \in DOMAIN closes[m]
      BY <1>4, <1>6, <1>9, <2>2
    <3>2. closes'[m][i] = closes[m][i] /\ closes'[m][j] = closes[m][j]
      BY <1>4, <1>5, <2>2, <3>1
    <3> QED
      BY <1>9, <2>2, <3>1, <3>2 DEF RevisionsAddUp
  <2>3. CASE k = m /\ j \notin DOMAIN closes[m]
    <3>1. j = Len(closes[m]) + 1 /\ closes'[m][j] = bytes
      BY <1>6, <2>3
    <3>2. i \in DOMAIN closes[m] /\ closes'[m][i] = closes[m][i]
      BY <1>4, <1>6, <1>9, <2>3, <3>1
    <3>3. Backed(closes[m][i], m, settlements, valuations)
      BY <3>2 DEF ClosesBacked
    <3> QED
      BY <1>3, <2>3, <3>1, <3>2, <3>3
  <2> QED
    BY <2>1, <2>2, <2>3
<1>10. RevisionsAddUp'
  BY <1>9 DEF RevisionsAddUp
<1> QED
  BY <1>8, <1>10

LEMMA StepRecord ==
  ASSUME ExportInv, NEW e \in Exporters, Record(e)
  PROVE  ExportInv'
<1> DEFINE me == exporter[e]
           recorded(n) == [me EXCEPT !.pc = "publish", !.seen = None,
                                     !.revision = n]
<1>1. me.pc = "record" /\ At(e, "record")
  BY DEF Record, At
<1>2. /\ me \in ExporterRecord /\ me.month \in Months
      /\ Sound(me, settlements, valuations, closes)
  BY <1>1, AtWork
<1>3. me.bytes \in Evidences
  BY <1>1, <1>2 DEF Sound, Holding
<1>4. CASE Only(e, Returned(e))
  BY <1>1, <1>4, StepReturned
<1>5. CASE /\ SameAsLatestClose(me.month, me.bytes)
           /\ Only(e, recorded(Len(closes[me.month])))
  <2>1. closes[me.month] \in Seq(Artifacts)
    BY <1>2 DEF ExportInv, SettlementInv, TypeInv, TypeOK
  <2>2. /\ Len(closes[me.month]) \in Nat
        /\ Recorded(me.month, Len(closes[me.month]), me.bytes, closes)
    BY <1>5, <2>1 DEF SameAsLatestClose, Recorded
  <2>3. /\ recorded(Len(closes[me.month])) \in ExporterRecord
        /\ Sound(recorded(Len(closes[me.month])), settlements, valuations,
                 closes)
    BY <1>2, <1>3, <2>2, RecordedIsSound
  <2> QED
    BY <1>5, <2>3, OnlyStep DEF Only
<1>6. CASE /\ RecordMonthClose(me.month, me.bytes, me.seen)
           /\ Become(e, recorded(NextRevision(me.month)))
           /\ UNCHANGED <<leases, published, reports, faults>>
  <2> DEFINE n == NextRevision(me.month)
  <2>1. /\ LedgerNext
        /\ TrueNow(me.bytes, me.month)
        /\ n \in Nat
        /\ closes' = [closes EXCEPT
                        ![me.month] = Append(closes[me.month], me.bytes)]
        /\ Recorded(me.month, n, me.bytes, closes')
        /\ settlements' = settlements /\ valuations' = valuations
    BY <1>1, <1>6, StepAppend
  <2>2. Become(e, recorded(n))
    BY <1>6
  <2> HIDE DEF n
  <2>3. /\ recorded(n) \in ExporterRecord
        /\ Sound(recorded(n), settlements', valuations', closes')
    BY <1>2, <1>3, <2>1, RecordedIsSound
  <2>4. Advanced(settlements, settlements', valuations, valuations',
                 closes, closes')
    BY <2>1, LedgerAdvances DEF ExportInv, SettlementInv
  <2>5. RecordsOK'
    BY <2>2, <2>3, <2>4, OwnStep DEF ExportInv
  <2>6. PublishedOK' /\ ReportsAreBacked'
    BY <1>6, <2>4, ReportsStay DEF ExportInv, Advanced
  <2>7. SettlementInv' /\ CheckpointIsCurrent'
    BY <2>1, SettlementStep, CheckpointStep DEF ExportInv
  <2>8. me.bytes \in Artifacts
    BY <1>3, MonthCloseAssumption
  <2>9. ClosesBacked' /\ RevisionsAddUp'
    BY <1>2, <1>3, <2>1, <2>8, TrueAddsUp
    DEF ExportInv, SettlementInv, TypeInv
  <2> QED
    BY <2>5, <2>6, <2>7, <2>9 DEF ExportInv
<1> QED
  BY <1>4, <1>5, <1>6 DEF Record

\* Where an exporter publishes, and what lies there afterwards.
Entry(e) == [directory |-> Directory(e), bytes |-> exporter[e].bytes]

PublishedRecord == [directory : Directories, bytes : Evidences]

LEMMA EntryFields ==
  ASSUME ExportInv, NEW e \in Exporters,
         exporter[e].pc \in {"publish", "rename"}
  PROVE  /\ Entry(e) \in PublishedRecord
         /\ exporter[e].month \in Months
         /\ exporter[e].bytes \in Evidences
         /\ exporter[e].revision \in Nat
         /\ Directory(e)[1] = exporter[e].mode
         /\ exporter[e].mode = "final" =>
              /\ Directory(e)
                   = <<"final", exporter[e].month, exporter[e].revision>>
              /\ Recorded(exporter[e].month, exporter[e].revision,
                          exporter[e].bytes, closes)
<1> DEFINE me == exporter[e]
<1>1. /\ me \in ExporterRecord /\ me.month \in Months
      /\ Sound(me, settlements, valuations, closes)
  BY AtWork
<1>2. me.bytes \in Evidences
  BY <1>1 DEF Sound, Holding
<1>3. me.mode = "final" => Recorded(me.month, me.revision, me.bytes, closes)
  BY <1>1 DEF Sound
<1>4. me.revision \in Nat /\ me.mode \in {"final", "snapshot", None}
  BY <1>1 DEF ExporterRecord
<1>5. Directory(e) = <<me.mode, me.month,
                       IF me.mode = "final" THEN me.revision ELSE me.bytes>>
  BY DEF Directory
<1> HIDE DEF me
<1>6. Directory(e) \in Directories
  BY <1>1, <1>2, <1>4, <1>5 DEF Directories
<1>7. Directory(e)[1] = me.mode
  BY <1>5
<1>8. me.mode = "final" => Directory(e) = <<"final", me.month, me.revision>>
  BY <1>5
<1> QED
  BY <1>1, <1>2, <1>3, <1>4, <1>6, <1>7, <1>8 DEF Entry, PublishedRecord, me

\* A close that is reported has its directory.
LEMMA ReportIsBacked ==
  ASSUME ExportInv, NEW e \in Exporters,
         exporter[e].pc \in {"publish", "rename"},
         UNCHANGED closes, Report(e), published \subseteq published',
         published' \subseteq published \cup {Entry(e)},
         Entry(e) \in published'
  PROVE  PublishedOK' /\ ReportsAreBacked'
<1> DEFINE me == exporter[e]
           row == [month |-> me.month, revision |-> me.revision,
                   bytes |-> me.bytes]
<1>1. /\ Entry(e) \in PublishedRecord
      /\ me.month \in Months /\ me.bytes \in Evidences /\ me.revision \in Nat
      /\ Directory(e)[1] = me.mode
      /\ me.mode = "final" =>
           /\ Directory(e) = <<"final", me.month, me.revision>>
           /\ Recorded(me.month, me.revision, me.bytes, closes)
  BY EntryFields
<1>2. /\ reports' \subseteq reports \cup {row}
      /\ me.mode # "final" => reports' = reports
  BY DEF Report
<1>3. Entry(e).directory = Directory(e) /\ Entry(e).bytes = me.bytes
  BY DEF Entry
<1>4. /\ row \in ReportRecord
      /\ row.month = me.month /\ row.revision = me.revision
      /\ row.bytes = me.bytes
  BY <1>1 DEF ReportRecord
<1>5. me.mode = "final" =>
        [directory |-> <<"final", me.month, me.revision>>,
         bytes |-> me.bytes] \in published'
  BY <1>1 DEF Entry
<1> HIDE DEF row, me
<1>6. PublishedOK'
  <2>1. published' \subseteq PublishedRecord
    BY <1>1 DEF ExportInv, PublishedOK, PublishedRecord
  <2>2. reports' \subseteq ReportRecord
    BY <1>2, <1>4 DEF ExportInv, PublishedOK
  <2> QED
    BY <2>1, <2>2 DEF PublishedOK, PublishedRecord
<1>7. ASSUME NEW r \in reports'
      PROVE  /\ r.revision \in DOMAIN closes[r.month]
             /\ closes[r.month][r.revision] = r.bytes
             /\ [directory |-> <<"final", r.month, r.revision>>,
                 bytes |-> r.bytes] \in published'
  <2>1. CASE r \in reports
    BY <2>1 DEF ExportInv, ReportsAreBacked
  <2>2. CASE r = row /\ me.mode = "final"
    BY <1>1, <1>4, <1>5, <2>2 DEF Recorded
  <2> QED
    BY <1>2, <2>1, <2>2
<1>8. ASSUME NEW p \in published', p.directory[1] = "final"
      PROVE  /\ p.directory[3] \in DOMAIN closes[p.directory[2]]
             /\ closes[p.directory[2]][p.directory[3]] = p.bytes
  <2>1. CASE p \in published
    BY <1>8, <2>1 DEF ExportInv, ReportsAreBacked
  <2>2. CASE p = Entry(e)
    <3>1. p.directory = <<"final", me.month, me.revision>> /\ p.bytes = me.bytes
      BY <1>1, <1>3, <1>8, <2>2
    <3>2. Recorded(me.month, me.revision, me.bytes, closes)
      BY <1>1, <1>3, <1>8, <2>2
    <3> QED
      BY <3>1, <3>2 DEF Recorded
  <2> QED
    BY <2>1, <2>2
<1> QED
  BY <1>6, <1>7, <1>8 DEF ReportsAreBacked

\* A step that leaves the ledger alone, publishes, and returns.
LEMMA StepDone ==
  ASSUME ExportInv, NEW e \in Exporters,
         exporter[e].pc \in {"publish", "rename"},
         UNCHANGED ledgerVars, Become(e, Returned(e)), Report(e),
         published \subseteq published',
         published' \subseteq published \cup {Entry(e)},
         Entry(e) \in published'
  PROVE  ExportInv'
<1>1. PublishedOK' /\ ReportsAreBacked'
  BY ReportIsBacked DEF ledgerVars
<1>2. /\ Returned(e) \in ExporterRecord
      /\ Sound(Returned(e), settlements, valuations, closes)
  BY AtWork, ReturnedIsSound
<1>3. Advanced(settlements, settlements', valuations, valuations',
               closes, closes')
  BY StillAdvanced
<1>4. Sound(Returned(e), settlements', valuations', closes')
  BY <1>2, <1>3, SoundStays
<1>5. RecordsOK'
  BY <1>2, <1>3, <1>4, OwnStep DEF ExportInv
<1>6. SettlementInv' /\ CheckpointIsCurrent' /\ ClosesBacked' /\ RevisionsAddUp'
  BY ClosesStay DEF ledgerVars
<1> QED
  BY <1>1, <1>5, <1>6 DEF ExportInv

LEMMA StepPublish ==
  ASSUME ExportInv, NEW e \in Exporters, Publish(e)
  PROVE  ExportInv'
<1> DEFINE me == exporter[e]
           there == {p.bytes : p \in {q \in published :
                                        q.directory = Directory(e)}}
<1>1. me.pc = "publish"
  BY DEF Publish, At
<1>2. /\ me \in ExporterRecord /\ me.month \in Months
      /\ Sound(me, settlements, valuations, closes)
  BY <1>1, AtWork
<1>3. \/ Only(e, [me EXCEPT !.pc = "rename"])
      \/ /\ there = {me.bytes}
         /\ Report(e)
         /\ Become(e, Returned(e))
         /\ UNCHANGED <<ledgerVars, leases, published, faults>>
      \/ Only(e, Returned(e))
  BY <1>1 DEF Publish
<1>4. CASE Only(e, Returned(e))
  BY <1>1, <1>4, StepReturned
<1>5. CASE Only(e, [me EXCEPT !.pc = "rename"])
  <2> DEFINE r == [me EXCEPT !.pc = "rename"]
  <2> HIDE DEF me
  <2>1. /\ r \in ExporterRecord
        /\ r.pc = "rename" /\ r.month = me.month /\ r.mode = me.mode
        /\ r.bytes = me.bytes /\ r.revision = me.revision
    BY <1>2 DEF ExporterRecord, Holding
  <2>2. Only(e, r)
    BY <1>5
  <2> HIDE DEF r
  <2>3. Sound(r, settlements, valuations, closes)
    BY <1>1, <1>2, <2>1 DEF Sound, Reading, Holding
  <2> QED
    BY <2>1, <2>2, <2>3, OnlyStep DEF Only
<1>6. CASE /\ there = {me.bytes}
           /\ Report(e)
           /\ Become(e, Returned(e))
           /\ UNCHANGED <<ledgerVars, leases, published, faults>>
  <2>1. PICK p \in published : p.directory = Directory(e) /\ p.bytes = me.bytes
    BY <1>6
  <2>2. p \in PublishedRecord
    BY DEF ExportInv, PublishedOK, PublishedRecord
  <2>3. p = [directory |-> p.directory, bytes |-> p.bytes]
    BY <2>2 DEF PublishedRecord
  <2>4. Entry(e) \in published
    BY <2>1, <2>3 DEF Entry
  <2> QED
    BY <1>1, <1>6, <2>4, StepDone
<1> QED
  BY <1>3, <1>4, <1>5, <1>6

LEMMA StepRename ==
  ASSUME ExportInv, NEW e \in Exporters, Rename(e)
  PROVE  ExportInv'
<1>1. exporter[e].pc = "rename"
  BY DEF Rename, At
<1>2. CASE Exists(Directory(e))
  BY <1>1, <1>2, StepReturned DEF Rename
<1>3. CASE ~Exists(Directory(e))
  <2>1. /\ published' = published \cup {Entry(e)}
        /\ Report(e)
        /\ Become(e, Returned(e))
        /\ UNCHANGED ledgerVars
    BY <1>3 DEF Rename, Entry
  <2> QED
    BY <1>1, <2>1, StepDone
<1> QED
  BY <1>2, <1>3

\* The reservation of a month is no part of the argument: any step that sends
\* an exporter back to the start keeps the invariant.
LEMMA StepIdle ==
  ASSUME ExportInv, NEW e \in Exporters, Become(e, Idle),
         UNCHANGED <<ledgerVars, published, reports>>
  PROVE  ExportInv'
  BY IdleIsSound, OnlyStep

\* A transaction of the rest of the program is one of the ledger, and no
\* close.
LEMMA ElsewhereIsLedger ==
  ASSUME Elsewhere
  PROVE  LedgerNext /\ UNCHANGED closes
<1>1. ASSUME Unused # {}, NEW id \in Receivables, NEW t \in Terms,
             CreateOrGet(id, t, CHOOSE r \in Unused : TRUE)
      PROVE  LedgerNext /\ UNCHANGED closes
  <2>1. (CHOOSE r \in Unused : TRUE) \in References
    BY <1>1 DEF Unused
  <2> QED
    BY <1>1, <2>1 DEF LedgerNext, CreateOrGet
<1>2. ASSUME NEW f \in Evidence,
             MarkPaymentVerified(f) \/ MarkReviewCandidate(f)
      PROVE  LedgerNext /\ UNCHANGED closes
  BY <1>2 DEF LedgerNext, MarkPaymentVerified, MarkReviewCandidate
<1>3. ASSUME NEW f \in Evidence, NEW action \in Actions,
             NEW reason \in Reasons \cup {None},
             ResolveReview(f, action, reason)
      PROVE  LedgerNext /\ UNCHANGED closes
  BY <1>3 DEF LedgerNext, ResolveReview
<1>4. ASSUME NEW id \in Receivables, NEW q \in Quotes, AttachValuation(id, q)
      PROVE  LedgerNext /\ UNCHANGED closes
  BY <1>4 DEF LedgerNext, AttachValuation
<1> QED
  BY <1>1, <1>2, <1>3, <1>4 DEF Elsewhere

LEMMA ExportInit == Init => ExportInv
<1> SUFFICES ASSUME Init PROVE ExportInv
  OBVIOUS
<1>1. SettlementInv
  BY SettlementInit DEF Init
<1>2. CheckpointIsCurrent
  BY DEF Init, LedgerInit, CheckpointIsCurrent
<1>3. RecordsOK
  BY IdleIsSound DEF Init, RecordsOK
<1>4. \A m \in Months : closes[m] = <<>>
  BY DEF Init, LedgerInit
<1>5. ClosesBacked /\ RevisionsAddUp
  BY <1>4 DEF ClosesBacked, RevisionsAddUp
<1>6. PublishedOK /\ ReportsAreBacked
  BY DEF Init, PublishedOK, ReportsAreBacked
<1> QED
  BY <1>1, <1>2, <1>3, <1>5, <1>6 DEF ExportInv

LEMMA ExportStep == ExportInv /\ [Next]_vars => ExportInv'
<1> SUFFICES ASSUME ExportInv, [Next]_vars PROVE ExportInv'
  OBVIOUS
<1>1. ASSUME NEW e \in Exporters,
             \/ \E m \in Months : Acquire(e, m)
             \/ List(e) \/ Quote(e) \/ ReadRootBefore(e) \/ ReadRows(e)
             \/ ReadValuations(e) \/ Compare(e) \/ Record(e) \/ Publish(e)
             \/ Rename(e)
      PROVE  ExportInv'
  BY <1>1, StepAcquire, StepList, StepQuote, StepReadRoot, StepReadRows,
     StepReadValuations, StepCompare, StepRecord, StepPublish, StepRename
<1>2. ASSUME NEW e \in Exporters, Release(e) \/ Crash(e)
      PROVE  ExportInv'
  BY <1>2, StepIdle DEF Release, Crash
<1>3. ASSUME NEW m \in Months, Expire(m)
      PROVE  ExportInv'
  BY <1>3, ElsewhereStep DEF Expire, ledgerVars
<1>4. CASE Elsewhere
  BY <1>4, ElsewhereIsLedger, ElsewhereStep DEF Elsewhere, exportVars
<1>5. CASE UNCHANGED vars
  BY <1>5, ElsewhereStep DEF vars, exportVars, ledgerVars
<1> QED
  BY <1>1, <1>2, <1>3, <1>4, <1>5 DEF Next

LEMMA ExportAlways == Spec => []ExportInv
  BY ExportInit, ExportStep, PTL DEF Spec

-----------------------------------------------------------------------------
(***************************************************************************)
(* Theorems.                                                               *)
(***************************************************************************)

\* Every step of an export is a transaction of the ledger, or none: what is
\* proved of the ledger is true while months are closed.
THEOREM ExportsImplementLedger == Spec => LedgerSpec
<1>1. ExportInv /\ [Next]_vars => [LedgerNext]_ledgerVars
  <2> SUFFICES ASSUME ExportInv, [Next]_vars
               PROVE  LedgerNext \/ UNCHANGED ledgerVars
    OBVIOUS
  <2>1. ASSUME NEW e \in Exporters, Quote(e)
        PROVE  LedgerNext \/ UNCHANGED ledgerVars
    <3>1. exporter[e].todo \subseteq Receivables
      BY DEF ExportInv, RecordsOK, ExporterRecord
    <3> QED
      BY <2>1, <3>1 DEF Quote, Only, LedgerNext
  <2>2. ASSUME NEW e \in Exporters, Record(e)
        PROVE  LedgerNext \/ UNCHANGED ledgerVars
    BY <2>2, StepAppend DEF Record, Only
  <2>3. ASSUME NEW e \in Exporters,
               \/ \E m \in Months : Acquire(e, m)
               \/ List(e) \/ ReadRootBefore(e) \/ ReadRows(e)
               \/ ReadValuations(e) \/ Compare(e) \/ Publish(e)
               \/ Rename(e) \/ Release(e) \/ Crash(e)
        PROVE  UNCHANGED ledgerVars
    BY <2>3 DEF Acquire, List, ReadRootBefore, ReadRows, ReadValuations,
       Compare, Publish, Rename, Release, Crash, Only
  <2> QED
    BY <2>1, <2>2, <2>3, ElsewhereIsLedger DEF Next, Expire, vars
<1>2. Init => LedgerInit
  BY DEF Init
<1> QED
  BY <1>1, <1>2, ExportAlways, PTL DEF Spec, LedgerSpec

\* However many exporters run, with leases that expired or were never theirs,
\* while others settle and value: a revision is what the ledger holds at the
\* moment it is recorded.
THEOREM RevisionsAreAlwaysTrue == Spec => RevisionsAreTrue
<1> DEFINE Appended(m) ==
             TrueNow(closes'[m][Len(closes'[m])], m)
<1>1. ASSUME ExportInv, [Next]_vars, NEW m \in Months, closes'[m] # closes[m]
      PROVE  Appended(m)
  <2>1. PICK e \in Exporters : Record(e)
    <3>1. ASSUME NEW e \in Exporters,
                 \/ \E k \in Months : Acquire(e, k)
                 \/ List(e) \/ Quote(e) \/ ReadRootBefore(e) \/ ReadRows(e)
                 \/ ReadValuations(e) \/ Compare(e) \/ Publish(e)
                 \/ Rename(e) \/ Release(e) \/ Crash(e)
          PROVE  UNCHANGED closes
      BY <3>1 DEF Acquire, List, Quote, ReadRootBefore, ReadRows,
         ReadValuations, Compare, Publish, Rename, Release, Crash, Only,
         ledgerVars, AttachValuation
    <3> QED
      BY <1>1, <3>1, ElsewhereIsLedger DEF Next, Expire, vars, ledgerVars
  <2> DEFINE me == exporter[e]
  <2>2. RecordMonthClose(me.month, me.bytes, me.seen) /\ At(e, "record")
    BY <1>1, <2>1 DEF Record, Only, ledgerVars
  <2>3. /\ TrueNow(me.bytes, me.month)
        /\ closes' = [closes EXCEPT
                        ![me.month] = Append(closes[me.month], me.bytes)]
        /\ me.bytes \in Evidences
    BY <1>1, <2>2, StepAppend
  <2>4. closes \in [Months -> Seq(Artifacts)] /\ Artifacts = Evidences
    BY <1>1, MonthCloseAssumption DEF ExportInv, SettlementInv, TypeInv, TypeOK
  <2> HIDE DEF me
  <2>5. m = me.month /\ closes'[m] = Append(closes[m], me.bytes)
    BY <1>1, <2>3, <2>4
  <2>6. closes'[m][Len(closes'[m])] = me.bytes
    BY <2>3, <2>4, <2>5
  <2> QED
    BY <2>3, <2>5, <2>6
<1>2. ExportInv /\ [Next]_vars
        => \A m \in Months : closes'[m] # closes[m] => Appended(m)
  BY <1>1
<1>3. ExportInv /\ [Next]_vars =>
        \A m \in Months :
          closes'[m] # closes[m] =>
            LET bytes == closes'[m][Len(closes'[m])] IN
              \A id \in Receivables :
                IF id \notin SettledIn(m) THEN bytes[id] = None
                ELSE IF valuations[id] = None THEN bytes[id] \in Pending
                ELSE bytes[id] = valuations[id]
  BY <1>2, Zenon DEF TrueNow
<1> QED
  BY <1>3, ExportAlways, PTL DEF Spec, RevisionsAreTrue

\* Later revisions of a month only add to earlier ones.
THEOREM RevisionsAlwaysAddUp == Spec => []RevisionsAddUp
  BY ExportAlways, PTL DEF ExportInv

\* Whoever crashes between the ledger and the directory: what was reported
\* lies in both, and no directory of a close is without its revision.
THEOREM ReportsAreAlwaysBacked == Spec => []ReportsAreBacked
  BY ExportAlways, PTL DEF ExportInv

=============================================================================
