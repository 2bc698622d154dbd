--------------------------- MODULE StoreOpenProofs ---------------------------
(***************************************************************************)
(* Theorems about StoreOpen: what holds of a store that any number of      *)
(* processes open, write to and leave, from the files of every release.    *)
(*                                                                         *)
(* The invariant has three parts: what every committed database satisfies  *)
(* (Sound), what a process knows by where it stands in open (Knows), which *)
(* survives the transactions of others because databases only grow (Grows) *)
(* and what it knows besides as long as nobody disturbs it (Alone).        *)
(***************************************************************************)
EXTENDS StoreOpen, TLAPS

Paid == {"full", "short"}

Rows == [paid : Paid, expected : Paid \union {None},
         kind : {"exact", "accepted_underpayment", None}, run : {None, "run"}]

ShapesOfTables ==
  [settlements : {"absent", "old", "current"},
   candidates : {"absent", "phase_five", "phase_six", "current"},
   resolutions : {"absent", "old", "current"},
   valuations : {"absent", "json", "current"},
   revisions : {"absent", "old", "current"},
   month_closes : {"absent", "present"}]

Checks == {{}, CheckOpen, CheckPhaseFive, CheckPhaseSix, CheckCurrent}

StateRows == [Receivables -> States \union {None}]
SettlementRows == [Receivables -> Rows \union {None}]
CandidateRows == [Receivables -> {None, "unmeasured", "short"}]
ResolutionRows == [Receivables -> [run : {None, "run"}] \union {None}]
MethodRows == [Receivables -> {None, "json", "nominal"}]
CloseRows == [Months -> {None, "month_closes", "unhashed", "hashed"}]

\* A database: its fields, whatever the last root is.
IsDatabase(d) ==
  d \in [versions : SUBSET Versions, check : Checks, shape : ShapesOfTables,
         states : StateRows, settlements : SettlementRows, candidates : CandidateRows,
         resolutions : ResolutionRows, methods : MethodRows, closes : CloseRows,
         checkpoint : {d.checkpoint}]

\* The schema batch has run.
Made(d) ==
  /\ 1..4 \subseteq d.versions
  /\ d.check # {}
  /\ d.shape.settlements # "absent"
  /\ d.shape.candidates # "absent"
  /\ d.shape.resolutions # "absent"
  /\ d.shape.valuations # "absent"
  /\ d.shape.revisions # "absent"

\* Rows that a rebuild does not change: none is of an accepted underpayment.
Plain(d) ==
  \A r \in Receivables :
    /\ d.settlements[r] # None =>
         d.settlements[r] \in {Exact(d.settlements[r].paid), Unkinded(d.settlements[r].paid)}
    /\ d.candidates[r] # "short"
    /\ d.resolutions[r] # None => d.resolutions[r].run = None

Sound(d) ==
  /\ IsDatabase(d)
  /\ \A r \in Receivables : d.states[r] \in d.check \union {None}
  /\ 6 \in d.versions =>
       /\ d.shape.valuations = "current"
       /\ d.shape.revisions = "current"
       /\ d.shape.month_closes = "absent"
  /\ 8 \in d.versions => Made(d) /\ {6, 7} \subseteq d.versions /\ ~NeedsRebuild(d)
  /\ ~NeedsRebuild(d) =>
       \/ d.checkpoint = Root(d) /\ 8 \in d.versions
       \/ d.checkpoint = NoCheckpoint /\ 5 \notin d.versions
  /\ NeedsRebuild(d) => Plain(d)

\* What only holds of files that were not of phase two.
Wide(d) ==
  /\ d.check # CheckOpen
  /\ d.check # {} /\ ~NeedsRebuild(d) => d.check = CheckCurrent

Grows(d, e) ==
  /\ d.versions \subseteq e.versions
  /\ Made(d) => Made(e)
  /\ ~NeedsRebuild(d) => ~NeedsRebuild(e)

AfterChain == {"verify", "root", "open"}
AfterVariance == AfterChain \union {"read_chain", "genesis", "append"}
AfterSix == AfterVariance \union {"read_variance", "variance"}
AfterFive == AfterSix \union {"read_six", "six"}

\* What a process knows of the database by where it stands.
Knows(label, needs, d) ==
  /\ label \notin {"closed", "create"} => Made(d)
  /\ label \in AfterFive => 6 \in d.versions
  /\ label \in AfterSix => 7 \in d.versions
  /\ label = "variance" /\ ~needs => ~NeedsRebuild(d)
  /\ label \in AfterVariance => 8 \in d.versions
  /\ label \in AfterChain => 5 \in d.versions

\* What it knows besides while no other process writes.
Alone(p) ==
  /\ writer \in {None, p}
  /\ pc[p] = "widen" => db.check = CheckOpen
  /\ pc[p] = "five" => 6 \notin db.versions
  /\ pc[p] = "six" => 7 \notin db.versions
  /\ pc[p] \in {"genesis", "append"} => 5 \notin db.versions
  /\ pc[p] = "append" => snapshot[p] = db
  /\ pc[p] = "root" => snapshot[p] = Root(db) /\ ~torn[p]

TypeInv ==
  /\ release \in Releases
  /\ writer \in Processes \union {None}
  /\ writer # None => pc[writer] \in Transactions
  /\ pc \in [Processes -> Labels]
  /\ rebuild \in [Processes -> BOOLEAN]
  /\ DOMAIN snapshot = Processes
  /\ next \in [Processes -> 1..Len(Material)]
  /\ torn \in [Processes -> BOOLEAN]
  /\ result \in [Processes -> {None, "unavailable", "integrity"}]
  /\ disturbed \in [Processes -> BOOLEAN]
  /\ crashes \in 0..MaxCrashes

SoundInv ==
  /\ Sound(db)
  /\ release # "phase_two" => Wide(db)
  /\ \A p \in Processes : Knows(pc[p], rebuild[p], db)
  /\ \A p \in Processes : pc[p] = "widen" => release = "phase_two"

AloneInv ==
  /\ \A p \in Processes : Opens(p) /\ ~disturbed[p] => Alone(p)
  /\ \A p \in Processes : pc[p] # "root" => ~torn[p]
  /\ \A p \in Processes : result[p] # None => disturbed[p]
-----------------------------------------------------------------------------
(* What each transaction makes of a sound database.                        *)

\* The fields that the root covers.
SameRows(d, e) ==
  /\ e.states = d.states
  /\ e.settlements = d.settlements
  /\ e.candidates = d.candidates
  /\ e.resolutions = d.resolutions
  /\ e.methods = d.methods
  /\ e.closes = d.closes

LEMMA RootOfSameRows ==
  ASSUME NEW d, NEW e, SameRows(d, e)
  PROVE  Root(e) = Root(d)
<1>1. \A i \in DOMAIN Material : e[Material[i]] = d[Material[i]]
  BY DEF SameRows, Material
<1> QED BY <1>1 DEF Root

LEMMA RootIsNoOther ==
  ASSUME NEW d
  PROVE  Root(d) # NoCheckpoint /\ Root(d) # Legacy
<1>1. DOMAIN Root(d) = DOMAIN Material
  BY DEF Root
<1>2. DOMAIN Material = 1..7 /\ DOMAIN NoCheckpoint = 1..0 /\ DOMAIN Legacy = 1..1
  BY DEF Material, NoCheckpoint, Legacy
<1>3. 7 \in 1..7 /\ 7 \notin 1..0 /\ 7 \notin 1..1
  OBVIOUS
<1> QED BY <1>1, <1>2, <1>3

LEMMA PlainRows ==
  ASSUME NEW d, NEW e, Plain(d), e.settlements = d.settlements,
         e.candidates = d.candidates, e.resolutions = d.resolutions
  PROVE  Plain(e)
BY DEF Plain

LEMMA CreatedFields ==
  ASSUME NEW d, IsDatabase(d)
  PROVE  /\ IsDatabase(Created(d))
         /\ Created(d).versions = d.versions \union 1..4
         /\ Created(d).check = IF d.check = {} THEN CheckCurrent ELSE d.check
         /\ Created(d).shape.settlements = Create(d.shape.settlements)
         /\ Created(d).shape.candidates = Create(d.shape.candidates)
         /\ Created(d).shape.resolutions = Create(d.shape.resolutions)
         /\ Created(d).shape.valuations = Create(d.shape.valuations)
         /\ Created(d).shape.revisions = Create(d.shape.revisions)
         /\ Created(d).shape.month_closes = d.shape.month_closes
         /\ SameRows(d, Created(d))
         /\ Created(d).checkpoint = d.checkpoint
<1> DEFINE v == d.versions \union 1..4
           c == IF d.check = {} THEN CheckCurrent ELSE d.check
           s == [t \in DOMAIN d.shape |->
                   IF t = "month_closes" THEN d.shape[t] ELSE Create(d.shape[t])]
<1>1. Created(d) = [d EXCEPT !.versions = v, !.check = c, !.shape = s]
  BY DEF Created
<1>2. v \in SUBSET Versions /\ c \in Checks
  BY DEF IsDatabase, Versions, Checks
<1>3. d.shape \in ShapesOfTables
  BY DEF IsDatabase
<1>4. /\ s \in ShapesOfTables
      /\ s.settlements = Create(d.shape.settlements)
      /\ s.candidates = Create(d.shape.candidates)
      /\ s.resolutions = Create(d.shape.resolutions)
      /\ s.valuations = Create(d.shape.valuations)
      /\ s.revisions = Create(d.shape.revisions)
      /\ s.month_closes = d.shape.month_closes
  BY <1>3 DEF ShapesOfTables, Create
<1> HIDE DEF v, c, s
<1> QED BY <1>1, <1>2, <1>4 DEF IsDatabase, SameRows, v, c

LEMMA WidenedFields ==
  ASSUME NEW d, IsDatabase(d)
  PROVE  /\ IsDatabase(Widened(d))
         /\ Widened(d).versions = d.versions
         /\ Widened(d).check = CheckPhaseSix
         /\ Widened(d).shape = d.shape
         /\ SameRows(d, Widened(d))
         /\ Widened(d).checkpoint = d.checkpoint
<1>1. CheckPhaseSix \in Checks
  BY DEF Checks
<1> HIDE DEF CheckPhaseSix
<1> QED BY <1>1 DEF Widened, IsDatabase, SameRows

LEMMA PhaseFiveFields ==
  ASSUME NEW d, IsDatabase(d)
  PROVE  /\ IsDatabase(PhaseFive(d))
         /\ PhaseFive(d).versions = d.versions \union {6}
         /\ PhaseFive(d).check = d.check
         /\ PhaseFive(d).shape.settlements = d.shape.settlements
         /\ PhaseFive(d).shape.candidates = d.shape.candidates
         /\ PhaseFive(d).shape.resolutions = d.shape.resolutions
         /\ PhaseFive(d).shape.valuations = "current"
         /\ PhaseFive(d).shape.revisions = "current"
         /\ PhaseFive(d).shape.month_closes = "absent"
         /\ PhaseFive(d).states = d.states
         /\ PhaseFive(d).settlements = d.settlements
         /\ PhaseFive(d).candidates = d.candidates
         /\ PhaseFive(d).resolutions = d.resolutions
         /\ PhaseFive(d).methods =
              [r \in Receivables |-> IF d.methods[r] = None THEN None ELSE "nominal"]
         /\ PhaseFive(d).closes =
              [m \in Months |-> IF d.closes[m] = None THEN None ELSE "hashed"]
         /\ PhaseFive(d).checkpoint = d.checkpoint
<1> DEFINE s == [d.shape EXCEPT !.valuations = "current", !.revisions = "current",
                                !.month_closes = "absent"]
           ms == [r \in Receivables |-> IF d.methods[r] = None THEN None ELSE "nominal"]
           cs == [m \in Months |-> IF d.closes[m] = None THEN None ELSE "hashed"]
           v == d.versions \union {6}
<1>1. /\ d.shape \in ShapesOfTables
      /\ v \in SUBSET Versions
      /\ ms \in MethodRows
      /\ cs \in CloseRows
  BY DEF IsDatabase, Versions, MethodRows, CloseRows
<1>2. /\ s \in ShapesOfTables
      /\ s.settlements = d.shape.settlements
      /\ s.candidates = d.shape.candidates
      /\ s.resolutions = d.shape.resolutions
      /\ s.valuations = "current"
      /\ s.revisions = "current"
      /\ s.month_closes = "absent"
  BY <1>1 DEF ShapesOfTables
<1>3. PhaseFive(d) = [d EXCEPT !.versions = v, !.shape = s, !.methods = ms, !.closes = cs]
  BY DEF PhaseFive
<1> HIDE DEF v, s, ms, cs
<1>4. /\ IsDatabase(PhaseFive(d))
      /\ PhaseFive(d).versions = v
      /\ PhaseFive(d).shape = s
      /\ PhaseFive(d).methods = ms
      /\ PhaseFive(d).closes = cs
      /\ PhaseFive(d).check = d.check
      /\ PhaseFive(d).states = d.states
      /\ PhaseFive(d).settlements = d.settlements
      /\ PhaseFive(d).candidates = d.candidates
      /\ PhaseFive(d).resolutions = d.resolutions
      /\ PhaseFive(d).checkpoint = d.checkpoint
  BY <1>1, <1>2, <1>3 DEF IsDatabase
<1> QED BY <1>2, <1>4 DEF v, ms, cs

LEMMA PhaseSixFields ==
  ASSUME NEW d, IsDatabase(d), Made(d)
  PROVE  /\ IsDatabase(PhaseSix(d))
         /\ PhaseSix(d).versions = d.versions \union {7}
         /\ PhaseSix(d).check = IF "cancelled" \in d.check THEN d.check ELSE CheckPhaseSix
         /\ PhaseSix(d).shape.settlements = d.shape.settlements
         /\ PhaseSix(d).shape.candidates =
              IF d.shape.candidates = "phase_five" THEN "phase_six" ELSE d.shape.candidates
         /\ PhaseSix(d).shape.resolutions = d.shape.resolutions
         /\ PhaseSix(d).shape.valuations = d.shape.valuations
         /\ PhaseSix(d).shape.revisions = d.shape.revisions
         /\ PhaseSix(d).shape.month_closes = d.shape.month_closes
         /\ SameRows(d, PhaseSix(d))
         /\ PhaseSix(d).checkpoint = d.checkpoint
<1> DEFINE s == PhaseSixShape(d.shape)
           v == d.versions \union {7}
           k == IF "cancelled" \in d.check THEN d.check ELSE CheckPhaseSix
<1>1. d.shape \in ShapesOfTables /\ v \in SUBSET Versions /\ k \in Checks
  BY DEF IsDatabase, Versions, Checks
<1>2. /\ s \in ShapesOfTables
      /\ s.settlements = d.shape.settlements
      /\ s.candidates = IF d.shape.candidates = "phase_five" THEN "phase_six"
                        ELSE d.shape.candidates
      /\ s.resolutions = d.shape.resolutions
      /\ s.valuations = d.shape.valuations
      /\ s.revisions = d.shape.revisions
      /\ s.month_closes = d.shape.month_closes
  BY <1>1 DEF ShapesOfTables, PhaseSixShape, Made
<1>3. PhaseSix(d) = [d EXCEPT !.versions = v, !.shape = s, !.check = k]
  BY DEF PhaseSix
<1> HIDE DEF v, s, k
<1>4. /\ IsDatabase(PhaseSix(d))
      /\ PhaseSix(d).versions = v
      /\ PhaseSix(d).shape = s
      /\ PhaseSix(d).check = k
      /\ SameRows(d, PhaseSix(d))
      /\ PhaseSix(d).checkpoint = d.checkpoint
  BY <1>1, <1>2, <1>3 DEF IsDatabase, SameRows
<1> QED BY <1>2, <1>4 DEF v, k

LEMMA RebuiltFields ==
  ASSUME NEW d, IsDatabase(d)
  PROVE  /\ IsDatabase(Rebuilt(d))
         /\ Rebuilt(d).versions = d.versions
         /\ Rebuilt(d).check = CheckCurrent
         /\ Rebuilt(d).shape.settlements = "current"
         /\ Rebuilt(d).shape.candidates = "current"
         /\ Rebuilt(d).shape.resolutions = "current"
         /\ Rebuilt(d).shape.valuations = d.shape.valuations
         /\ Rebuilt(d).shape.revisions = d.shape.revisions
         /\ Rebuilt(d).shape.month_closes = d.shape.month_closes
         /\ Rebuilt(d).states = d.states
         /\ Rebuilt(d).settlements = [r \in Receivables |->
              IF d.settlements[r] = None THEN None ELSE Exact(d.settlements[r].paid)]
         /\ Rebuilt(d).candidates = [r \in Receivables |->
              IF d.candidates[r] = None THEN None ELSE "unmeasured"]
         /\ Rebuilt(d).resolutions = [r \in Receivables |->
              IF d.resolutions[r] = None THEN None ELSE [d.resolutions[r] EXCEPT !.run = None]]
         /\ Rebuilt(d).methods = d.methods
         /\ Rebuilt(d).closes = d.closes
         /\ Rebuilt(d).checkpoint = d.checkpoint
<1> DEFINE s == [d.shape EXCEPT !.settlements = "current", !.candidates = "current",
                                !.resolutions = "current"]
           ss == [r \in Receivables |->
                    IF d.settlements[r] = None THEN None ELSE Exact(d.settlements[r].paid)]
           cs == [r \in Receivables |-> IF d.candidates[r] = None THEN None ELSE "unmeasured"]
           rs == [r \in Receivables |->
                    IF d.resolutions[r] = None THEN None ELSE [d.resolutions[r] EXCEPT !.run = None]]
<1>1. /\ d.shape \in ShapesOfTables
      /\ cs \in CandidateRows
      /\ CheckCurrent \in Checks
  BY DEF IsDatabase, Checks, CandidateRows
<1>2. ss \in SettlementRows
  <2>1. ASSUME NEW r \in Receivables, d.settlements[r] # None
        PROVE  Exact(d.settlements[r].paid) \in Rows
    <3>1. d.settlements[r] \in Rows
      BY <2>1 DEF IsDatabase, SettlementRows
    <3> QED BY <3>1 DEF Rows, Exact
  <2> QED BY <2>1 DEF SettlementRows
<1>3. rs \in ResolutionRows
  <2>1. ASSUME NEW r \in Receivables, d.resolutions[r] # None
        PROVE  [d.resolutions[r] EXCEPT !.run = None] \in [run : {None, "run"}]
    <3>1. d.resolutions[r] \in [run : {None, "run"}]
      BY <2>1 DEF IsDatabase, ResolutionRows
    <3> QED BY <3>1
  <2> QED BY <2>1 DEF ResolutionRows
<1>4. /\ s \in ShapesOfTables
      /\ s.settlements = "current"
      /\ s.candidates = "current"
      /\ s.resolutions = "current"
      /\ s.valuations = d.shape.valuations
      /\ s.revisions = d.shape.revisions
      /\ s.month_closes = d.shape.month_closes
  BY <1>1 DEF ShapesOfTables
<1>5. Rebuilt(d) = [d EXCEPT !.check = CheckCurrent, !.shape = s, !.settlements = ss,
                             !.candidates = cs, !.resolutions = rs]
  BY DEF Rebuilt
<1> HIDE DEF s, ss, cs, rs, CheckCurrent
<1>6. Rebuilt(d) = [versions |-> d.versions, check |-> CheckCurrent, shape |-> s,
                    states |-> d.states, settlements |-> ss, candidates |-> cs,
                    resolutions |-> rs, methods |-> d.methods, closes |-> d.closes,
                    checkpoint |-> d.checkpoint]
  BY <1>5 DEF IsDatabase
<1>7. /\ d.versions \in SUBSET Versions
      /\ d.states \in StateRows
      /\ d.methods \in MethodRows
      /\ d.closes \in CloseRows
  BY DEF IsDatabase
<1>8. IsDatabase(Rebuilt(d))
  BY <1>1, <1>2, <1>3, <1>4, <1>6, <1>7 DEF IsDatabase
<1>9. /\ Rebuilt(d).check = CheckCurrent
      /\ Rebuilt(d).shape = s
      /\ Rebuilt(d).settlements = ss
      /\ Rebuilt(d).candidates = cs
      /\ Rebuilt(d).resolutions = rs
      /\ Rebuilt(d).versions = d.versions
      /\ Rebuilt(d).states = d.states
      /\ Rebuilt(d).methods = d.methods
      /\ Rebuilt(d).closes = d.closes
      /\ Rebuilt(d).checkpoint = d.checkpoint
  BY <1>6
<1> QED BY <1>4, <1>8, <1>9 DEF ss, cs, rs

LEMMA CheckpointedFields ==
  ASSUME NEW d, IsDatabase(d)
  PROVE  /\ IsDatabase(Checkpointed(d))
         /\ Checkpointed(d).versions = d.versions
         /\ Checkpointed(d).check = d.check
         /\ Checkpointed(d).shape = d.shape
         /\ SameRows(d, Checkpointed(d))
         /\ Checkpointed(d).checkpoint = Root(d)
BY DEF Checkpointed, IsDatabase, SameRows

Versioned(d, n) == [d EXCEPT !.versions = @ \union {n}]

LEMMA VersionedFields ==
  ASSUME NEW d, IsDatabase(d), NEW n \in Versions
  PROVE  /\ IsDatabase(Versioned(d, n))
         /\ Versioned(d, n).versions = d.versions \union {n}
         /\ Versioned(d, n).check = d.check
         /\ Versioned(d, n).shape = d.shape
         /\ SameRows(d, Versioned(d, n))
         /\ Versioned(d, n).checkpoint = d.checkpoint
BY DEF Versioned, IsDatabase, SameRows

-----------------------------------------------------------------------------
(* What each transaction preserves.                                        *)

Preserves(d, e) ==
  /\ Sound(e)
  /\ Grows(d, e)
  /\ Wide(d) => Wide(e)

LEMMA CreatedPreserves ==
  ASSUME NEW d, Sound(d)
  PROVE  Preserves(d, Created(d)) /\ Made(Created(d))
<1> DEFINE e == Created(d)
<1>1. IsDatabase(d)
  BY DEF Sound
<1>2. /\ IsDatabase(e)
      /\ e.versions = d.versions \union 1..4
      /\ e.check = IF d.check = {} THEN CheckCurrent ELSE d.check
      /\ e.shape.settlements = Create(d.shape.settlements)
      /\ e.shape.candidates = Create(d.shape.candidates)
      /\ e.shape.resolutions = Create(d.shape.resolutions)
      /\ e.shape.valuations = Create(d.shape.valuations)
      /\ e.shape.revisions = Create(d.shape.revisions)
      /\ e.shape.month_closes = d.shape.month_closes
      /\ SameRows(d, e)
      /\ e.checkpoint = d.checkpoint
  BY <1>1, CreatedFields
<1> HIDE DEF e
<1>3. NeedsRebuild(e) <=> NeedsRebuild(d)
  BY <1>2 DEF NeedsRebuild, Create
<1>4. Made(e)
  <2>1. e.check # {}
    BY <1>2 DEF CheckCurrent, States
  <2> QED BY <2>1, <1>2 DEF Made, Create
<1>5. Sound(e)
  <2>1. \A r \in Receivables : e.states[r] \in e.check \union {None}
    BY <1>2 DEF Sound, SameRows
  <2>2. 6 \in e.versions => /\ e.shape.valuations = "current"
                            /\ e.shape.revisions = "current"
                            /\ e.shape.month_closes = "absent"
    BY <1>2 DEF Sound, Create
  <2>3. 8 \in e.versions => Made(e) /\ {6, 7} \subseteq e.versions /\ ~NeedsRebuild(e)
    BY <1>2, <1>3, <1>4 DEF Sound
  <2>4. Root(e) = Root(d)
    BY <1>2, RootOfSameRows
  <2>5. ~NeedsRebuild(e) =>
          \/ e.checkpoint = Root(e) /\ 8 \in e.versions
          \/ e.checkpoint = NoCheckpoint /\ 5 \notin e.versions
    BY <1>2, <1>3, <2>4 DEF Sound
  <2>6. NeedsRebuild(e) => Plain(e)
    BY <1>2, <1>3, PlainRows DEF Sound, SameRows
  <2> QED BY <1>2, <2>1, <2>2, <2>3, <2>5, <2>6 DEF Sound
<1>6. Grows(d, e)
  BY <1>2, <1>3, <1>4 DEF Grows
<1>7. Wide(d) => Wide(e)
  <2>1. CheckCurrent # CheckOpen
    BY DEF CheckCurrent, CheckOpen, States
  <2> QED BY <1>2, <1>3, <2>1 DEF Wide
<1> QED BY <1>4, <1>5, <1>6, <1>7 DEF Preserves, e

LEMMA WidenedPreserves ==
  ASSUME NEW d, Sound(d), Made(d),
         \A r \in Receivables : d.states[r] \in CheckPhaseSix \union {None}
  PROVE  Sound(Widened(d)) /\ Grows(d, Widened(d))
<1> DEFINE e == Widened(d)
<1>1. /\ IsDatabase(e)
      /\ e.versions = d.versions
      /\ e.check = CheckPhaseSix
      /\ e.shape = d.shape
      /\ SameRows(d, e)
      /\ e.checkpoint = d.checkpoint
  BY WidenedFields DEF Sound
<1> HIDE DEF e
<1>2. NeedsRebuild(e) <=> NeedsRebuild(d)
  BY <1>1 DEF NeedsRebuild
<1>3. CheckPhaseSix # {}
  BY DEF CheckPhaseSix
<1>4. Made(e)
  BY <1>1, <1>3 DEF Made
<1>5. Root(e) = Root(d)
  BY <1>1, RootOfSameRows
<1>6. NeedsRebuild(e) => Plain(e)
  BY <1>1, <1>2, PlainRows DEF Sound, SameRows
<1>7. \A r \in Receivables : e.states[r] \in e.check \union {None}
  BY <1>1 DEF SameRows
<1>8. Sound(e)
  BY <1>1, <1>2, <1>4, <1>5, <1>6, <1>7 DEF Sound
<1> QED BY <1>1, <1>2, <1>4, <1>8 DEF Grows, e

LEMMA PhaseFivePreserves ==
  ASSUME NEW d, Sound(d), Made(d), 6 \notin d.versions
  PROVE  Preserves(d, PhaseFive(d)) /\ 6 \in PhaseFive(d).versions
<1> DEFINE e == PhaseFive(d)
<1>1. /\ IsDatabase(e)
      /\ e.versions = d.versions \union {6}
      /\ e.check = d.check
      /\ e.shape.settlements = d.shape.settlements
      /\ e.shape.candidates = d.shape.candidates
      /\ e.shape.resolutions = d.shape.resolutions
      /\ e.shape.valuations = "current"
      /\ e.shape.revisions = "current"
      /\ e.shape.month_closes = "absent"
      /\ e.states = d.states
      /\ e.settlements = d.settlements
      /\ e.candidates = d.candidates
      /\ e.resolutions = d.resolutions
      /\ e.checkpoint = d.checkpoint
  BY PhaseFiveFields DEF Sound
<1> HIDE DEF e
<1>2. NeedsRebuild(e) <=> NeedsRebuild(d)
  BY <1>1 DEF NeedsRebuild
<1>3. Made(e)
  BY <1>1 DEF Made
<1>4. 8 \notin d.versions
  BY DEF Sound
<1>5. NeedsRebuild(e) => Plain(e)
  BY <1>1, <1>2, PlainRows DEF Sound
<1>6. Sound(e)
  BY <1>1, <1>2, <1>3, <1>4, <1>5 DEF Sound
<1>7. Grows(d, e) /\ (Wide(d) => Wide(e))
  BY <1>1, <1>2, <1>3 DEF Grows, Wide
<1> QED BY <1>1, <1>6, <1>7 DEF Preserves, e

LEMMA PhaseSixPreserves ==
  ASSUME NEW d, Sound(d), Made(d), 7 \notin d.versions
  PROVE  Preserves(d, PhaseSix(d)) /\ 7 \in PhaseSix(d).versions
<1> DEFINE e == PhaseSix(d)
<1>1. /\ IsDatabase(e)
      /\ e.versions = d.versions \union {7}
      /\ e.check = IF "cancelled" \in d.check THEN d.check ELSE CheckPhaseSix
      /\ e.shape.settlements = d.shape.settlements
      /\ e.shape.candidates =
           IF d.shape.candidates = "phase_five" THEN "phase_six" ELSE d.shape.candidates
      /\ e.shape.resolutions = d.shape.resolutions
      /\ e.shape.valuations = d.shape.valuations
      /\ e.shape.revisions = d.shape.revisions
      /\ e.shape.month_closes = d.shape.month_closes
      /\ SameRows(d, e)
      /\ e.checkpoint = d.checkpoint
  BY PhaseSixFields DEF Sound
<1> HIDE DEF e
<1>2. NeedsRebuild(e) <=> NeedsRebuild(d)
  BY <1>1 DEF NeedsRebuild
<1>3. CheckPhaseSix # {} /\ CheckPhaseSix # CheckOpen /\ "cancelled" \in CheckCurrent
  BY DEF CheckPhaseSix, CheckCurrent, CheckOpen, States
<1>4. d.check \subseteq e.check
  <2>1. d.check \in Checks
    BY DEF Sound, IsDatabase
  <2>2. "cancelled" \notin d.check => d.check \subseteq CheckPhaseSix
    BY <2>1 DEF Checks, CheckPhaseSix, CheckPhaseFive, CheckOpen, CheckCurrent, States
  <2> QED BY <1>1, <2>2
<1>5. Made(e)
  BY <1>1, <1>3 DEF Made
<1>6. 8 \notin d.versions
  BY DEF Sound
<1>7. NeedsRebuild(e) => Plain(e)
  BY <1>1, <1>2, PlainRows DEF Sound, SameRows
<1>8. \A r \in Receivables : e.states[r] \in e.check \union {None}
  BY <1>1, <1>4 DEF Sound, SameRows
<1>9. Sound(e)
  BY <1>1, <1>2, <1>5, <1>6, <1>7, <1>8 DEF Sound
<1>10. Grows(d, e) /\ (Wide(d) => Wide(e))
  BY <1>1, <1>2, <1>3, <1>5 DEF Grows, Wide, Made
<1> QED BY <1>1, <1>9, <1>10 DEF Preserves, e

LEMMA RebuiltPreserves ==
  ASSUME NEW d, Sound(d), Made(d), {6, 7} \subseteq d.versions
  PROVE  LET e == Versioned(Checkpointed(Rebuilt(d)), 8)
         IN  Preserves(d, e) /\ 8 \in e.versions
<1> DEFINE a == Rebuilt(d)
           b == Checkpointed(a)
           e == Versioned(b, 8)
<1>1. /\ IsDatabase(a)
      /\ a.versions = d.versions
      /\ a.check = CheckCurrent
      /\ a.shape.settlements = "current"
      /\ a.shape.candidates = "current"
      /\ a.shape.resolutions = "current"
      /\ a.shape.valuations = d.shape.valuations
      /\ a.shape.revisions = d.shape.revisions
      /\ a.shape.month_closes = d.shape.month_closes
      /\ a.states = d.states
  BY RebuiltFields DEF Sound
<1> HIDE DEF a
<1>2. /\ IsDatabase(b)
      /\ b.versions = a.versions
      /\ b.check = a.check
      /\ b.shape = a.shape
      /\ SameRows(a, b)
      /\ b.checkpoint = Root(a)
  BY <1>1, CheckpointedFields
<1> HIDE DEF b
<1>3. /\ IsDatabase(e)
      /\ e.versions = b.versions \union {8}
      /\ e.check = b.check
      /\ e.shape = b.shape
      /\ SameRows(b, e)
      /\ e.checkpoint = b.checkpoint
  BY <1>2, VersionedFields DEF Versions
<1> HIDE DEF e
<1>4. e.checkpoint = Root(e)
  BY <1>2, <1>3, RootOfSameRows
<1>5. ~NeedsRebuild(e)
  BY <1>1, <1>2, <1>3 DEF NeedsRebuild
<1>6. CheckCurrent # {} /\ CheckCurrent # CheckOpen
  BY DEF CheckCurrent, CheckOpen, States
<1>7. Made(e)
  BY <1>1, <1>2, <1>3, <1>6 DEF Made
<1>8. \A r \in Receivables : e.states[r] \in e.check \union {None}
  BY <1>1, <1>2, <1>3 DEF Sound, IsDatabase, StateRows, SameRows, CheckCurrent
<1>9. Sound(e)
  BY <1>1, <1>2, <1>3, <1>4, <1>5, <1>7, <1>8 DEF Sound
<1>10. Grows(d, e) /\ Wide(e)
  BY <1>1, <1>2, <1>3, <1>5, <1>6, <1>7 DEF Grows, Wide
<1> QED BY <1>3, <1>9, <1>10 DEF Preserves, e, b, a

LEMMA VersionEightPreserves ==
  ASSUME NEW d, Sound(d), Made(d), {6, 7} \subseteq d.versions, ~NeedsRebuild(d)
  PROVE  Preserves(d, Versioned(d, 8)) /\ 8 \in Versioned(d, 8).versions
<1> DEFINE e == Versioned(d, 8)
<1>1. /\ IsDatabase(e)
      /\ e.versions = d.versions \union {8}
      /\ e.check = d.check
      /\ e.shape = d.shape
      /\ SameRows(d, e)
      /\ e.checkpoint = d.checkpoint
  BY VersionedFields DEF Sound, Versions
<1> HIDE DEF e
<1>2. Made(e) /\ ~NeedsRebuild(e)
  BY <1>1 DEF Made, NeedsRebuild
<1>3. Root(e) = Root(d)
  BY <1>1, RootOfSameRows
<1>4. Sound(e)
  BY <1>1, <1>2, <1>3 DEF Sound, SameRows
<1>5. Grows(d, e) /\ (Wide(d) => Wide(e))
  BY <1>1, <1>2 DEF Grows, Wide
<1> QED BY <1>1, <1>4, <1>5 DEF Preserves, e

LEMMA VariancePreserves ==
  ASSUME NEW d, Sound(d), NEW needs \in BOOLEAN, Knows("variance", needs, d)
  PROVE  Preserves(d, Variance(d, needs)) /\ 8 \in Variance(d, needs).versions
<1>1. Made(d) /\ {6, 7} \subseteq d.versions
  BY DEF Knows, AfterFive, AfterSix
<1>2. CASE needs
  <2>1. Variance(d, needs) = Versioned(Checkpointed(Rebuilt(d)), 8)
    BY <1>2 DEF Variance, Versioned
  <2> QED BY <1>1, <2>1, RebuiltPreserves
<1>3. CASE ~needs
  <2>1. Variance(d, needs) = Versioned(d, 8)
    BY <1>3 DEF Variance, Versioned
  <2>2. ~NeedsRebuild(d)
    BY <1>3 DEF Knows
  <2> QED BY <1>1, <2>1, <2>2, VersionEightPreserves
<1> QED BY <1>2, <1>3

\* A checkpoint of any database whose schema is current, and whose rows may
\* differ from those of the one before.
LEMMA CheckpointPreserves ==
  ASSUME NEW d, Sound(d), 8 \in d.versions,
         NEW a, IsDatabase(a), a.versions = d.versions, a.check = d.check, a.shape = d.shape,
         \A r \in Receivables : a.states[r] \in a.check \union {None}
  PROVE  Preserves(d, Checkpointed(a))
<1> DEFINE e == Checkpointed(a)
<1>1. /\ IsDatabase(e)
      /\ e.versions = d.versions
      /\ e.check = d.check
      /\ e.shape = d.shape
      /\ SameRows(a, e)
      /\ e.checkpoint = Root(a)
  BY CheckpointedFields
<1> HIDE DEF e
<1>2. Made(d) /\ ~NeedsRebuild(d)
  BY DEF Sound
<1>3. Made(e) /\ ~NeedsRebuild(e)
  BY <1>1, <1>2 DEF Made, NeedsRebuild
<1>4. e.checkpoint = Root(e)
  BY <1>1, RootOfSameRows
<1>5. Sound(e)
  BY <1>1, <1>3, <1>4 DEF Sound, SameRows
<1>6. Grows(d, e) /\ (Wide(d) => Wide(e))
  BY <1>1, <1>3 DEF Grows, Wide, NeedsRebuild
<1> QED BY <1>5, <1>6 DEF Preserves, e

LEMMA GenesisPreserves ==
  ASSUME NEW d, Sound(d), 8 \in d.versions
  PROVE  Preserves(d, Genesis(d)) /\ 5 \in Genesis(d).versions
<1> DEFINE a == Checkpointed(d)
           e == Versioned(a, 5)
<1>1. Preserves(d, a)
  BY CheckpointPreserves DEF Sound
<1>2. Genesis(d) = e
  BY DEF Genesis, Versioned
<1>3. IsDatabase(d) /\ IsDatabase(a)
  BY <1>1 DEF Preserves, Sound
<1>4. a.versions = d.versions /\ a.shape = d.shape /\ a.check = d.check /\ a.checkpoint = Root(d)
  BY <1>3, CheckpointedFields
<1>5. SameRows(d, a)
  BY <1>3, CheckpointedFields
<1> HIDE DEF a
<1>6. /\ IsDatabase(e)
      /\ e.versions = a.versions \union {5}
      /\ e.check = a.check
      /\ e.shape = a.shape
      /\ SameRows(a, e)
      /\ e.checkpoint = a.checkpoint
  BY <1>3, VersionedFields DEF Versions
<1> HIDE DEF e
<1>7. e.checkpoint = Root(e)
  BY <1>4, <1>5, <1>6, RootOfSameRows
<1>8. Made(e) /\ ~NeedsRebuild(e)
  BY <1>4, <1>6 DEF Sound, Made, NeedsRebuild
<1>9. Sound(e)
  BY <1>1, <1>4, <1>6, <1>7, <1>8 DEF Preserves, Sound, SameRows
<1>10. Grows(d, e) /\ (Wide(d) => Wide(e))
  BY <1>4, <1>6, <1>8 DEF Grows, Wide, NeedsRebuild
<1> QED BY <1>2, <1>6, <1>9, <1>10 DEF Preserves

\* Creating a receivable, finding it underpaid and accepting what was paid.
LEMMA WritesPreserve ==
  ASSUME NEW d, Sound(d), 8 \in d.versions, NEW r \in Receivables
  PROVE  /\ Preserves(d, Checkpointed([d EXCEPT !.states[r] = "open"]))
         /\ "needs_review" \in d.check =>
              Preserves(d, Checkpointed([d EXCEPT !.states[r] = "needs_review",
                                                  !.candidates[r] = "short"]))
         /\ "settled_with_variance" \in d.check =>
              Preserves(d, Checkpointed([d EXCEPT !.states[r] = "settled_with_variance",
                                                  !.settlements[r] = Accepted,
                                                  !.resolutions[r] = [run |-> "run"]]))
<1> DEFINE Put(s) == [d.states EXCEPT ![r] = s]
           cs == [d.candidates EXCEPT ![r] = "short"]
           ss == [d.settlements EXCEPT ![r] = Accepted]
           rs == [d.resolutions EXCEPT ![r] = [run |-> "run"]]
<1>1. IsDatabase(d)
  BY DEF Sound
<1>2. d.check \in Checks /\ d.check # {}
  BY <1>1 DEF Sound, Made, IsDatabase
<1>3. "open" \in d.check
  BY <1>2 DEF Checks, CheckOpen, CheckPhaseFive, CheckPhaseSix, CheckCurrent, States
<1>4. ASSUME NEW s \in States, s \in d.check
      PROVE  Put(s) \in StateRows /\ \A q \in Receivables : Put(s)[q] \in d.check \union {None}
  <2>1. d.states \in [Receivables -> States \union {None}]
    BY <1>1 DEF IsDatabase, StateRows
  <2> QED BY <2>1, <1>4 DEF StateRows, Sound
<1>5. cs \in CandidateRows
  BY <1>1 DEF IsDatabase, CandidateRows
<1>6. ss \in SettlementRows
  <2>1. Accepted \in Rows
    BY DEF Accepted, Rows, Paid
  <2>2. d.settlements \in SettlementRows
    BY <1>1 DEF IsDatabase
  <2> HIDE DEF Accepted
  <2> QED BY <2>1, <2>2 DEF SettlementRows
<1>7. rs \in ResolutionRows
  <2>1. [run |-> "run"] \in [run : {None, "run"}]
    OBVIOUS
  <2>2. d.resolutions \in ResolutionRows
    BY <1>1 DEF IsDatabase
  <2> QED BY <2>1, <2>2 DEF ResolutionRows
<1> HIDE DEF Put, cs, ss, rs
<1>8. Preserves(d, Checkpointed([d EXCEPT !.states = Put("open")]))
  <2> DEFINE a == [d EXCEPT !.states = Put("open")]
  <2>1. /\ IsDatabase(a)
        /\ a.versions = d.versions /\ a.check = d.check /\ a.shape = d.shape
        /\ a.states = Put("open")
    BY <1>1, <1>3, <1>4 DEF IsDatabase, States
  <2> HIDE DEF a
  <2>2. \A q \in Receivables : a.states[q] \in a.check \union {None}
    BY <2>1, <1>3, <1>4 DEF States
  <2>3. Preserves(d, Checkpointed(a))
    BY <2>1, <2>2, CheckpointPreserves
  <2> QED BY <2>3 DEF a
<1>9. ASSUME "needs_review" \in d.check
      PROVE  Preserves(d, Checkpointed([d EXCEPT !.states = Put("needs_review"),
                                                 !.candidates = cs]))
  <2> DEFINE a == [d EXCEPT !.states = Put("needs_review"), !.candidates = cs]
  <2>1. /\ IsDatabase(a)
        /\ a.versions = d.versions /\ a.check = d.check /\ a.shape = d.shape
        /\ a.states = Put("needs_review")
    BY <1>1, <1>4, <1>5, <1>9 DEF IsDatabase, States
  <2> HIDE DEF a
  <2>2. \A q \in Receivables : a.states[q] \in a.check \union {None}
    BY <2>1, <1>4, <1>9 DEF States
  <2>3. Preserves(d, Checkpointed(a))
    BY <2>1, <2>2, CheckpointPreserves
  <2> QED BY <2>3 DEF a
<1>10. ASSUME "settled_with_variance" \in d.check
       PROVE  Preserves(d, Checkpointed([d EXCEPT !.states = Put("settled_with_variance"),
                                                  !.settlements = ss, !.resolutions = rs]))
  <2> DEFINE a == [d EXCEPT !.states = Put("settled_with_variance"),
                            !.settlements = ss, !.resolutions = rs]
  <2>1. /\ IsDatabase(a)
        /\ a.versions = d.versions /\ a.check = d.check /\ a.shape = d.shape
        /\ a.states = Put("settled_with_variance")
    BY <1>1, <1>4, <1>6, <1>7, <1>10 DEF IsDatabase, States
  <2> HIDE DEF a
  <2>2. \A q \in Receivables : a.states[q] \in a.check \union {None}
    BY <2>1, <1>4, <1>10 DEF States
  <2>3. Preserves(d, Checkpointed(a))
    BY <2>1, <2>2, CheckpointPreserves
  <2> QED BY <2>3 DEF a
<1> QED BY <1>8, <1>9, <1>10 DEF Put, cs, ss, rs

-----------------------------------------------------------------------------
(* The files that earlier releases left behind.                            *)

LEMMA HistoryFields ==
  ASSUME NEW settlement \in {Unkinded("full"), Exact("full")},
         NEW method \in {"json", "nominal"},
         NEW close \in {"month_closes", "unhashed", "hashed"},
         NEW h \in Histories(settlement, method, close)
  PROVE  /\ IsDatabase(h)
         /\ h.states \in [Receivables -> CheckPhaseFive \union {None}]
         /\ Plain(h)
<1>1. PICK s \in [Receivables -> {None, "open", "payment_verified", "needs_review"}] :
        h = [Empty EXCEPT !.states = s,
               !.settlements = [r \in Receivables |->
                  IF s[r] = "payment_verified" THEN settlement ELSE None],
               !.methods = [r \in Receivables |->
                  IF s[r] = "payment_verified" THEN method ELSE None],
               !.candidates = [r \in Receivables |->
                  IF s[r] = "needs_review" THEN "unmeasured" ELSE None],
               !.closes = [m \in Months |->
                  IF \E r \in Receivables : s[r] = "payment_verified" THEN close ELSE None]]
  BY DEF Histories
<1> DEFINE ss == [r \in Receivables |-> IF s[r] = "payment_verified" THEN settlement ELSE None]
           ms == [r \in Receivables |-> IF s[r] = "payment_verified" THEN method ELSE None]
           cs == [r \in Receivables |-> IF s[r] = "needs_review" THEN "unmeasured" ELSE None]
           ls == [m \in Months |->
                    IF \E r \in Receivables : s[r] = "payment_verified" THEN close ELSE None]
<1>2. h = [Empty EXCEPT !.states = s, !.settlements = ss, !.methods = ms,
                        !.candidates = cs, !.closes = ls]
  BY <1>1
<1>3. settlement \in Rows /\ settlement \in {Exact(settlement.paid), Unkinded(settlement.paid)}
  BY DEF Rows, Paid, Exact, Unkinded
<1>4. /\ s \in StateRows
      /\ s \in [Receivables -> CheckPhaseFive \union {None}]
      /\ ss \in SettlementRows
      /\ ms \in MethodRows
      /\ cs \in CandidateRows
      /\ ls \in CloseRows
  BY <1>3 DEF StateRows, SettlementRows, MethodRows, CandidateRows, CloseRows, States,
              CheckPhaseFive
<1>5. NoRows \in ResolutionRows /\ Absent \in ShapesOfTables /\ {} \in Checks /\ {} \subseteq Versions
  BY DEF NoRows, ResolutionRows, Absent, Shapes, ShapesOfTables, Checks
<1>6. \A r \in Receivables :
        /\ ss[r] # None => ss[r] \in {Exact(ss[r].paid), Unkinded(ss[r].paid)}
        /\ cs[r] # "short"
        /\ NoRows[r] = None
  BY <1>3, StoreOpenAssumption DEF NoRows
<1> HIDE DEF ss, ms, cs, ls
<1>7. h = [versions |-> {}, check |-> {}, shape |-> Absent, states |-> s, settlements |-> ss,
           candidates |-> cs, resolutions |-> NoRows, methods |-> ms, closes |-> ls,
           checkpoint |-> NoCheckpoint]
  BY <1>2 DEF Empty
<1>8. IsDatabase(h)
  BY <1>4, <1>5, <1>7 DEF IsDatabase
<1>9. h.states = s /\ h.settlements = ss /\ h.candidates = cs /\ h.resolutions = NoRows
  BY <1>7
<1> QED BY <1>4, <1>6, <1>8, <1>9 DEF Plain

FileOf(h, v, k, c, s) ==
  [h EXCEPT !.versions = v, !.check = k, !.checkpoint = c, !.shape = s]

LEMMA FileFields ==
  ASSUME NEW h, IsDatabase(h), NEW v \in SUBSET Versions, NEW k \in Checks, NEW c,
         NEW s \in ShapesOfTables
  PROVE  /\ IsDatabase(FileOf(h, v, k, c, s))
         /\ FileOf(h, v, k, c, s).versions = v
         /\ FileOf(h, v, k, c, s).check = k
         /\ FileOf(h, v, k, c, s).checkpoint = c
         /\ FileOf(h, v, k, c, s).shape = s
         /\ SameRows(h, FileOf(h, v, k, c, s))
BY DEF FileOf, IsDatabase, SameRows

\* A file with settlements that have no kind yet.
LEMMA OldFilesAreSound ==
  ASSUME NEW h, IsDatabase(h), Plain(h),
         h.states \in [Receivables -> CheckPhaseFive \union {None}],
         NEW v \in SUBSET Versions, 8 \notin v,
         NEW k \in {CheckPhaseFive, CheckPhaseSix}, NEW c,
         NEW s \in ShapesOfTables, s.settlements = "old",
         6 \in v => s.valuations = "current" /\ s.revisions = "current"
                    /\ s.month_closes = "absent"
  PROVE  Sound(FileOf(h, v, k, c, s)) /\ Wide(FileOf(h, v, k, c, s))
<1> DEFINE e == FileOf(h, v, k, c, s)
<1>1. k \in Checks /\ CheckPhaseFive \subseteq k /\ k # CheckOpen
  BY DEF Checks, CheckPhaseFive, CheckPhaseSix, CheckOpen
<1>2. /\ IsDatabase(e)
      /\ e.versions = v /\ e.check = k /\ e.checkpoint = c /\ e.shape = s
      /\ SameRows(h, e)
  BY <1>1, FileFields
<1> HIDE DEF e
<1>3. NeedsRebuild(e)
  BY <1>2 DEF NeedsRebuild
<1>4. Plain(e)
  BY <1>2, PlainRows DEF SameRows
<1>5. \A r \in Receivables : e.states[r] \in e.check \union {None}
  BY <1>1, <1>2 DEF SameRows
<1> QED BY <1>1, <1>2, <1>3, <1>4, <1>5 DEF Sound, Wide, e

EmptyFile(k, s) == [Empty EXCEPT !.check = k, !.states = s]

LEMMA EmptyFields ==
  ASSUME NEW k \in Checks, NEW s \in [Receivables -> States \union {None}]
  PROVE  /\ IsDatabase(EmptyFile(k, s))
         /\ EmptyFile(k, s).versions = {}
         /\ EmptyFile(k, s).check = k
         /\ EmptyFile(k, s).shape = Absent
         /\ EmptyFile(k, s).states = s
         /\ EmptyFile(k, s).checkpoint = NoCheckpoint
<1> DEFINE cs == [m \in Months |-> None]
<1>1. /\ NoRows \in SettlementRows
      /\ NoRows \in CandidateRows
      /\ NoRows \in ResolutionRows
      /\ NoRows \in MethodRows
      /\ cs \in CloseRows
      /\ s \in StateRows
      /\ Absent \in ShapesOfTables
      /\ {} \in SUBSET Versions
  BY DEF NoRows, SettlementRows, CandidateRows, ResolutionRows, MethodRows, CloseRows,
         StateRows, Absent, Shapes, ShapesOfTables
<1> HIDE DEF cs
<1>2. Empty = [versions |-> {}, check |-> {}, shape |-> Absent, states |-> NoRows,
               settlements |-> NoRows, candidates |-> NoRows, resolutions |-> NoRows,
               methods |-> NoRows, closes |-> cs, checkpoint |-> NoCheckpoint]
  BY DEF Empty, cs
<1>3. {} \in Checks /\ NoRows \in StateRows
  BY DEF Checks, NoRows, StateRows
<1>4. /\ IsDatabase(Empty)
      /\ Empty.versions = {} /\ Empty.shape = Absent /\ Empty.checkpoint = NoCheckpoint
  BY <1>1, <1>2, <1>3 DEF IsDatabase
<1> QED BY <1>1, <1>4 DEF EmptyFile, IsDatabase

LEMMA EmptyFilesAreSound ==
  ASSUME NEW k \in Checks, NEW s \in [Receivables -> States \union {None}],
         \A r \in Receivables : s[r] \in k \union {None}
  PROVE  Sound(EmptyFile(k, s))
<1> DEFINE e == EmptyFile(k, s)
<1>1. /\ IsDatabase(e)
      /\ e.versions = {} /\ e.check = k /\ e.shape = Absent /\ e.states = s
      /\ e.checkpoint = NoCheckpoint
  BY EmptyFields
<1> HIDE DEF e
<1>2. ~NeedsRebuild(e)
  BY <1>1 DEF NeedsRebuild, Absent, Shapes
<1> QED BY <1>1, <1>2 DEF Sound, e

LEMMA FilesAreSound ==
  ASSUME NEW rel \in Releases, NEW d \in Files(rel)
  PROVE  Sound(d) /\ (rel # "phase_two" => Wide(d))
<1>1. CASE rel = "new"
  <2>1. d = Empty
    BY <1>1 DEF Files
  <2>2. Empty.check = {} /\ Empty.states = NoRows
    BY DEF Empty
  <2>3. NoRows \in [Receivables -> States \union {None}] /\ {} \in Checks
        /\ \A r \in Receivables : NoRows[r] \in {None}
    BY DEF NoRows, Checks
  <2>4. Sound(EmptyFile({}, NoRows))
    BY <2>3, EmptyFilesAreSound
  <2>5. EmptyFile({}, NoRows).check = {}
    BY <2>3, EmptyFields
  <2>6. EmptyFile({}, NoRows) = Empty
    BY <2>2 DEF EmptyFile, Empty
  <2>7. {} # CheckOpen
    BY DEF CheckOpen
  <2> QED BY <2>1, <2>4, <2>5, <2>6, <2>7 DEF Wide
<1>2. CASE rel = "phase_two"
  <2>1. PICK s \in [Receivables -> {None, "open"}] : d = EmptyFile(CheckOpen, s)
    BY <1>2 DEF Files, EmptyFile
  <2>2. s \in [Receivables -> States \union {None}] /\ CheckOpen \in Checks
        /\ \A r \in Receivables : s[r] \in CheckOpen \union {None}
    BY DEF States, Checks, CheckOpen
  <2> QED BY <1>2, <2>1, <2>2, EmptyFilesAreSound
<1>3. CASE rel = "phase_three"
  <2>1. PICK h \in Histories(Unkinded("full"), "json", "month_closes") :
          d = [h EXCEPT !.versions = 1..4, !.check = CheckPhaseFive,
                 !.shape = Shapes("old", "phase_five", "absent", "json", "old", "present")]
    BY <1>3 DEF Files
  <2> DEFINE s == Shapes("old", "phase_five", "absent", "json", "old", "present")
  <2>2. IsDatabase(h) /\ h.states \in [Receivables -> CheckPhaseFive \union {None}] /\ Plain(h)
    BY HistoryFields
  <2>3. s \in ShapesOfTables /\ s.settlements = "old" /\ 1..4 \in SUBSET Versions
        /\ 8 \notin 1..4 /\ 6 \notin 1..4
    BY DEF Shapes, ShapesOfTables, Versions
  <2>4. d = FileOf(h, 1..4, CheckPhaseFive, h.checkpoint, s)
    <3> HIDE DEF s
    <3>1. d = [h EXCEPT !.versions = 1..4, !.check = CheckPhaseFive, !.shape = s]
      BY <2>1 DEF s
    <3> QED BY <2>2, <3>1 DEF FileOf, IsDatabase
  <2> QED BY <2>2, <2>3, <2>4, OldFilesAreSound
<1>4. CASE rel = "phase_four"
  <2> DEFINE s == Shapes("old", "phase_five", "absent", "json", "old", "absent")
  <2>1. PICK h \in Histories(Unkinded("full"), "json", "unhashed") :
          d = FileOf(h, 1..5, CheckPhaseFive, Legacy, s)
    BY <1>4 DEF Files, FileOf
  <2>2. IsDatabase(h) /\ h.states \in [Receivables -> CheckPhaseFive \union {None}] /\ Plain(h)
    BY HistoryFields
  <2>3. s \in ShapesOfTables /\ s.settlements = "old" /\ 1..5 \in SUBSET Versions
        /\ 8 \notin 1..5 /\ 6 \notin 1..5
    BY DEF Shapes, ShapesOfTables, Versions
  <2> HIDE DEF s
  <2> QED BY <2>1, <2>2, <2>3, OldFilesAreSound
<1>5. CASE rel = "phase_five"
  <2> DEFINE s == Shapes("old", "phase_five", "absent", "current", "current", "absent")
  <2>1. PICK h \in Histories(Unkinded("full"), "nominal", "hashed") :
          d = FileOf(h, 1..6, CheckPhaseFive, Legacy, s)
    BY <1>5 DEF Files, FileOf
  <2>2. IsDatabase(h) /\ h.states \in [Receivables -> CheckPhaseFive \union {None}] /\ Plain(h)
    BY HistoryFields
  <2>3. s \in ShapesOfTables /\ s.settlements = "old" /\ 1..6 \in SUBSET Versions /\ 8 \notin 1..6
        /\ s.valuations = "current" /\ s.revisions = "current" /\ s.month_closes = "absent"
    BY DEF Shapes, ShapesOfTables, Versions
  <2> HIDE DEF s
  <2> QED BY <2>1, <2>2, <2>3, OldFilesAreSound
<1>6. CASE rel = "phase_six"
  <2> DEFINE s == Shapes("old", "phase_six", "old", "current", "current", "absent")
  <2>1. PICK h \in Histories(Unkinded("full"), "nominal", "hashed") :
          d = FileOf(h, 1..7, CheckPhaseSix, Legacy, s)
    BY <1>6 DEF Files, FileOf
  <2>2. IsDatabase(h) /\ h.states \in [Receivables -> CheckPhaseFive \union {None}] /\ Plain(h)
    BY HistoryFields
  <2>3. s \in ShapesOfTables /\ s.settlements = "old" /\ 1..7 \in SUBSET Versions /\ 8 \notin 1..7
        /\ s.valuations = "current" /\ s.revisions = "current" /\ s.month_closes = "absent"
    BY DEF Shapes, ShapesOfTables, Versions
  <2> HIDE DEF s
  <2> QED BY <2>1, <2>2, <2>3, OldFilesAreSound
<1>7. CASE rel = "current"
  <2>1. PICK h \in Histories(Exact("full"), "nominal", "hashed") :
          d = FileOf(h, Versions, CheckCurrent, Root(h), Current)
    BY <1>7 DEF Files, FileOf
  <2>2. IsDatabase(h) /\ h.states \in [Receivables -> CheckPhaseFive \union {None}]
    BY HistoryFields
  <2>3. Current \in ShapesOfTables /\ Versions \in SUBSET Versions /\ CheckCurrent \in Checks
    BY DEF Current, Shapes, ShapesOfTables, Checks
  <2>4. /\ IsDatabase(d) /\ d.versions = Versions /\ d.check = CheckCurrent
        /\ d.checkpoint = Root(h) /\ d.shape = Current /\ SameRows(h, d)
    BY <2>1, <2>2, <2>3, FileFields
  <2>5. Root(d) = Root(h)
    BY <2>4, RootOfSameRows
  <2>6. ~NeedsRebuild(d) /\ Made(d) /\ d.check # CheckOpen
    BY <2>4 DEF NeedsRebuild, Made, Current, Shapes, Versions, CheckCurrent, CheckOpen, States
  <2>7. \A r \in Receivables : d.states[r] \in d.check \union {None}
    BY <2>2, <2>4 DEF SameRows, CheckCurrent, CheckPhaseFive, States
  <2>8. d.shape.valuations = "current" /\ d.shape.revisions = "current"
        /\ d.shape.month_closes = "absent" /\ {6, 7, 8} \subseteq d.versions
    BY <2>4 DEF Current, Shapes, Versions
  <2> QED BY <2>4, <2>5, <2>6, <2>7, <2>8 DEF Sound, Wide
<1> QED BY <1>1, <1>2, <1>3, <1>4, <1>5, <1>6, <1>7, StoreOpenAssumption

-----------------------------------------------------------------------------
(* Types.                                                                  *)

Inv == TypeInv /\ SoundInv /\ AloneInv

Step(p) == Opening(p) \/ Crash(p) \/ Close(p) \/ Writing(p)

LEMMA TypeInvStep ==
  ASSUME TypeInv, NEW p \in Processes, Step(p)
  PROVE  TypeInv'
<1> USE StoreOpenAssumption DEF TypeInv, Labels, Transactions, Goto
<1>1. CASE Begin(p)
  BY <1>1 DEF Begin, Disturb, procVars
<1>2. CASE Start(p)
  BY <1>2 DEF Start
<1>3. ASSUME NEW d, NEW l \in Labels, Commit(p, d, l)
      PROVE  TypeInv'
  BY <1>3 DEF Commit
<1>4. ASSUME Abort(p)
      PROVE  TypeInv'
  BY <1>4 DEF Abort, Fail, Leave, Material
<1>5. ASSUME NEW n \in BOOLEAN, NEW l \in Labels \ Transactions, NEW t \in Labels, NEW o \in Labels,
             Read(p, l, n, t, o)
      PROVE  TypeInv'
  BY <1>5 DEF Read
<1>6. CASE CreateSchema(p)
  BY <1>3, <1>6 DEF CreateSchema
<1>7. CASE ReadCheck(p)
  BY <1>5, <1>7 DEF ReadCheck
<1>8. CASE MigrateStateConstraint(p)
  BY <1>3, <1>4, <1>8 DEF MigrateStateConstraint
<1>9. CASE ReadPhaseFive(p)
  BY <1>5, <1>9 DEF ReadPhaseFive
<1>10. CASE MigratePhaseFive(p)
  BY <1>3, <1>4, <1>10 DEF MigratePhaseFive
<1>11. CASE ReadPhaseSix(p)
  BY <1>5, <1>11 DEF ReadPhaseSix
<1>12. CASE MigratePhaseSix(p)
  BY <1>3, <1>4, <1>12 DEF MigratePhaseSix
<1>13. CASE ReadVariance(p)
  <2>1. NeedsRebuild(db) \in BOOLEAN
    BY DEF NeedsRebuild
  <2> QED BY <1>13, <2>1 DEF ReadVariance
<1>14. CASE MigrateVariance(p)
  BY <1>3, <1>14 DEF MigrateVariance
<1>15. CASE ReadChain(p)
  BY <1>5, <1>15 DEF ReadChain
<1>16. CASE ReadGenesis(p)
  BY <1>16 DEF ReadGenesis
<1>17. CASE AppendGenesis(p)
  BY <1>17 DEF AppendGenesis, Leave, Disturb, Material
<1>18. CASE RefuseGenesis(p)
  BY <1>18 DEF RefuseGenesis, Fail, Leave, Material
<1>19. CASE ReadCheckpoints(p)
  <2>1. CASE db.checkpoint = NoCheckpoint
    <3>1. pc[p] = "verify" /\ Fail(p, "integrity")
          /\ UNCHANGED <<release, db, writer, disturbed, crashes>>
      BY <1>19, <2>1 DEF ReadCheckpoints
    <3> QED BY <3>1 DEF Fail, Leave, Material
  <2>2. CASE db.checkpoint # NoCheckpoint
    BY <1>19, <2>2 DEF ReadCheckpoints
  <2> QED BY <2>1, <2>2
<1>20. CASE ReadTable(p)
  BY <1>20 DEF ReadTable, Differs, Material
<1>21. CASE CompareRoot(p)
  <2>1. CASE torn[p] \/ Differs(p)
    <3>1. pc[p] = "root" /\ Fail(p, "integrity")
          /\ UNCHANGED <<release, db, writer, disturbed, crashes>>
      BY <1>21, <2>1 DEF CompareRoot
    <3> QED BY <3>1 DEF Fail, Leave, Material
  <2>2. CASE ~(torn[p] \/ Differs(p))
    <3>1. pc[p] = "root" /\ Leave(p, "open")
          /\ UNCHANGED <<release, db, writer, result, disturbed, crashes>>
      BY <1>21, <2>2 DEF CompareRoot
    <3> QED BY <3>1 DEF Leave, Material
  <2> QED BY <2>1, <2>2
<1>22. CASE Crash(p)
  BY <1>22 DEF Crash, Leave, Material
<1>23. CASE Close(p)
  BY <1>23 DEF Close
<1>24. CASE Writing(p)
  <2>1. \E d, k : Write(p, d, k)
    BY <1>24 DEF Writing, CreateOther, CreateOrGet, MarkUnderpaymentReview, AcceptUnderpayment
  <2> QED BY <2>1 DEF Write, Torn, Disturb
<1> QED BY <1>1, <1>2, <1>6, <1>7, <1>8, <1>9, <1>10, <1>11, <1>12, <1>13, <1>14, <1>15, <1>16,
           <1>17, <1>18, <1>19, <1>20, <1>21, <1>22, <1>23, <1>24 DEF Step, Opening

-----------------------------------------------------------------------------
(* Sound databases, and what the processes know of them.                   *)

LEMMA KnowsGrows ==
  ASSUME NEW label, NEW needs, NEW d, NEW e, Knows(label, needs, d), Grows(d, e)
  PROVE  Knows(label, needs, e)
BY DEF Knows, Grows

\* A step of p after which the database has grown, or is the same.
LEMMA SoundStep ==
  ASSUME TypeInv, SoundInv, NEW p \in Processes,
         Preserves(db, db') \/ (release = "phase_two" /\ Sound(db') /\ Grows(db, db')),
         NEW label, pc' = [pc EXCEPT ![p] = label], NEW needs, rebuild' = [rebuild EXCEPT ![p] = needs],
         release' = release, Knows(label, needs, db'), label = "widen" => release = "phase_two"
  PROVE  SoundInv'
<1>1. Sound(db') /\ Grows(db, db') /\ (release # "phase_two" => Wide(db'))
  BY DEF Preserves, SoundInv
<1>2. pc'[p] = label /\ rebuild'[p] = needs
  BY DEF TypeInv
<1>3. \A q \in Processes : q # p => pc'[q] = pc[q] /\ rebuild'[q] = rebuild[q]
  BY DEF TypeInv
<1>4. \A q \in Processes : Knows(pc'[q], rebuild'[q], db')
  BY <1>1, <1>2, <1>3, KnowsGrows DEF SoundInv
<1>5. \A q \in Processes : pc'[q] = "widen" => release' = "phase_two"
  BY <1>2, <1>3 DEF SoundInv
<1> QED BY <1>1, <1>4, <1>5 DEF SoundInv

LEMMA SamePreserves ==
  ASSUME NEW d, Sound(d)
  PROVE  Preserves(d, d)
BY DEF Preserves, Grows

\* The process has left: it knows what it knew where it stands now.
LEMMA KnowsNothing ==
  ASSUME NEW needs, NEW d
  PROVE  Knows("closed", needs, d) /\ Knows("create", needs, d)
BY DEF Knows, AfterFive, AfterSix, AfterVariance, AfterChain

LEMMA SoundInvStep ==
  ASSUME TypeInv, SoundInv, NEW p \in Processes, Step(p)
  PROVE  SoundInv'
<1> USE DEF Goto
<1> DEFINE Same == rebuild' = [rebuild EXCEPT ![p] = rebuild[p]]
<1>a. Knows(pc[p], rebuild[p], db) /\ Sound(db) /\ Preserves(db, db)
  BY SamePreserves DEF SoundInv
<1>b. rebuild' = rebuild => Same
  BY DEF TypeInv
<1>c. \A l : pc[p] = l => pc = [pc EXCEPT ![p] = l]
  BY DEF TypeInv
<1> HIDE DEF Same
<1>d. ASSUME NEW l, Leave(p, l), UNCHANGED <<release, db>>, Knows(l, FALSE, db), l # "widen"
      PROVE  SoundInv'
  BY <1>a, <1>d, SoundStep DEF Leave
<1>e. ASSUME NEW d, NEW l, Commit(p, d, l), Preserves(db, d), Knows(l, rebuild[p], d), l # "widen"
      PROVE  SoundInv'
  BY <1>b, <1>e, SoundStep DEF Commit, Same
<1>f. ASSUME Abort(p)
      PROVE  SoundInv'
  BY <1>d, <1>f, KnowsNothing DEF Abort, Fail
<1>g. ASSUME NEW l, pc' = [pc EXCEPT ![p] = l], UNCHANGED <<release, db, rebuild>>,
             Knows(l, rebuild[p], db), l = "widen" => release = "phase_two"
      PROVE  SoundInv'
  BY <1>a, <1>b, <1>g, SoundStep DEF Same
<1>1. CASE Begin(p)
  BY <1>1 DEF Begin, procVars, SoundInv
<1>2. CASE Start(p)
  BY <1>2, <1>g, KnowsNothing DEF Start
<1>3. CASE CreateSchema(p)
  <2>1. Preserves(db, Created(db)) /\ Made(Created(db))
    BY <1>a, CreatedPreserves
  <2>2. Knows("read_check", rebuild[p], Created(db))
    BY <2>1 DEF Knows, AfterFive, AfterSix, AfterVariance, AfterChain
  <2> QED BY <1>3, <1>e, <2>1, <2>2 DEF CreateSchema
<1>4. CASE ReadCheck(p)
  <2>1. pc[p] = "read_check"
    BY <1>4 DEF ReadCheck, Read
  <2>2. Knows("widen", rebuild[p], db) /\ Knows("read_five", rebuild[p], db)
    BY <1>a, <2>1 DEF Knows, AfterFive, AfterSix, AfterVariance, AfterChain
  <2>3. db.check = CheckOpen => release = "phase_two"
    BY DEF SoundInv, Wide
  <2> DEFINE l == IF db.check = CheckOpen THEN "widen" ELSE "read_five"
  <2>4. pc' = [pc EXCEPT ![p] = l] /\ UNCHANGED <<release, db, rebuild>>
    BY <1>4 DEF ReadCheck, Read
  <2>5. Knows(l, rebuild[p], db) /\ (l = "widen" => release = "phase_two")
    BY <2>2, <2>3
  <2> QED BY <1>g, <2>4, <2>5
<1>5. CASE MigrateStateConstraint(p)
  <2>1. pc[p] = "widen"
    BY <1>5 DEF MigrateStateConstraint
  <2>2. Made(db) /\ release = "phase_two"
    BY <1>a, <2>1 DEF Knows, SoundInv
  <2>3. CASE \A r \in Receivables : db.states[r] \in CheckPhaseSix \union {None}
    <3>1. Commit(p, Widened(db), "read_five")
      BY <1>5, <2>3 DEF MigrateStateConstraint
    <3>2. Sound(Widened(db)) /\ Grows(db, Widened(db))
      BY <1>a, <2>2, <2>3, WidenedPreserves
    <3>3. Knows("read_five", rebuild[p], Widened(db))
      BY <2>2, <3>2 DEF Knows, Grows, AfterFive, AfterSix, AfterVariance, AfterChain
    <3> QED BY <1>b, <2>2, <3>1, <3>2, <3>3, SoundStep DEF Commit, Same
  <2>4. CASE ~(\A r \in Receivables : db.states[r] \in CheckPhaseSix \union {None})
    BY <1>5, <1>f, <2>4 DEF MigrateStateConstraint
  <2> QED BY <2>3, <2>4
<1>6. CASE ReadPhaseFive(p)
  <2> DEFINE l == IF 6 \notin db.versions THEN "five" ELSE "read_six"
  <2>1. pc[p] = "read_five" /\ pc' = [pc EXCEPT ![p] = l] /\ UNCHANGED <<release, db, rebuild>>
    BY <1>6 DEF ReadPhaseFive, Read
  <2>2. Knows(l, rebuild[p], db) /\ l # "widen"
    BY <1>a, <2>1 DEF Knows, AfterFive, AfterSix, AfterVariance, AfterChain
  <2> QED BY <1>g, <2>1, <2>2
<1>7. CASE MigratePhaseFive(p)
  <2>1. pc[p] = "five"
    BY <1>7 DEF MigratePhaseFive
  <2>2. Made(db)
    BY <1>a, <2>1 DEF Knows
  <2>3. CASE 6 \notin db.versions
    <3>1. Commit(p, PhaseFive(db), "read_six")
      BY <1>7, <2>3 DEF MigratePhaseFive
    <3>2. Preserves(db, PhaseFive(db)) /\ 6 \in PhaseFive(db).versions
      BY <1>a, <2>2, <2>3, PhaseFivePreserves
    <3>3. Knows("read_six", rebuild[p], PhaseFive(db))
      BY <2>2, <3>2 DEF Preserves, Knows, Grows, AfterFive, AfterSix, AfterVariance, AfterChain
    <3> QED BY <1>e, <3>1, <3>2, <3>3
  <2>4. CASE 6 \in db.versions
    BY <1>7, <1>f, <2>4 DEF MigratePhaseFive
  <2> QED BY <2>3, <2>4
<1>8. CASE ReadPhaseSix(p)
  <2> DEFINE l == IF 7 \notin db.versions THEN "six" ELSE "read_variance"
  <2>1. pc[p] = "read_six" /\ pc' = [pc EXCEPT ![p] = l] /\ UNCHANGED <<release, db, rebuild>>
    BY <1>8 DEF ReadPhaseSix, Read
  <2>2. Knows(l, rebuild[p], db) /\ l # "widen"
    BY <1>a, <2>1 DEF Knows, AfterFive, AfterSix, AfterVariance, AfterChain
  <2> QED BY <1>g, <2>1, <2>2
<1>9. CASE MigratePhaseSix(p)
  <2>1. pc[p] = "six"
    BY <1>9 DEF MigratePhaseSix
  <2>2. Made(db) /\ 6 \in db.versions
    BY <1>a, <2>1 DEF Knows, AfterFive
  <2>3. CASE 7 \notin db.versions
    <3>1. Commit(p, PhaseSix(db), "read_variance")
      BY <1>9, <2>3 DEF MigratePhaseSix
    <3>2. Preserves(db, PhaseSix(db)) /\ 7 \in PhaseSix(db).versions
      BY <1>a, <2>2, <2>3, PhaseSixPreserves
    <3>3. Knows("read_variance", rebuild[p], PhaseSix(db))
      BY <2>2, <3>2 DEF Preserves, Knows, Grows, AfterFive, AfterSix, AfterVariance, AfterChain
    <3> QED BY <1>e, <3>1, <3>2, <3>3
  <2>4. CASE 7 \in db.versions
    BY <1>9, <1>f, <2>4 DEF MigratePhaseSix
  <2> QED BY <2>3, <2>4
<1>10. CASE ReadVariance(p)
  <2> DEFINE l == IF 8 \in db.versions /\ ~NeedsRebuild(db) THEN "read_chain" ELSE "variance"
  <2>1. pc[p] = "read_variance" /\ pc' = [pc EXCEPT ![p] = l] /\ UNCHANGED <<release, db>>
        /\ rebuild' = [rebuild EXCEPT ![p] = NeedsRebuild(db)]
    BY <1>10 DEF ReadVariance
  <2>2. Knows(l, NeedsRebuild(db), db) /\ l # "widen"
    BY <1>a, <2>1 DEF Knows, AfterFive, AfterSix, AfterVariance, AfterChain
  <2> HIDE DEF l
  <2>3. Preserves(db, db') /\ Knows(l, NeedsRebuild(db), db') /\ release' = release
    BY <1>a, <2>1, <2>2
  <2> QED BY <2>1, <2>2, <2>3, SoundStep
<1>11. CASE MigrateVariance(p)
  <2>1. Commit(p, Variance(db, rebuild[p]), "read_chain") /\ pc[p] = "variance"
    BY <1>11 DEF MigrateVariance
  <2>2. Knows("variance", rebuild[p], db) /\ rebuild[p] \in BOOLEAN
    BY <1>a, <2>1 DEF TypeInv
  <2>3. Preserves(db, Variance(db, rebuild[p])) /\ 8 \in Variance(db, rebuild[p]).versions
    BY <1>a, <2>2, VariancePreserves
  <2>4. Knows("read_chain", rebuild[p], Variance(db, rebuild[p]))
    BY <2>2, <2>3 DEF Preserves, Knows, Grows, AfterFive, AfterSix, AfterVariance, AfterChain
  <2> QED BY <1>e, <2>1, <2>3, <2>4
<1>12. CASE ReadChain(p)
  <2> DEFINE l == IF 5 \notin db.versions THEN "genesis" ELSE "verify"
  <2>1. pc[p] = "read_chain" /\ pc' = [pc EXCEPT ![p] = l] /\ UNCHANGED <<release, db, rebuild>>
    BY <1>12 DEF ReadChain, Read
  <2>2. Knows(l, rebuild[p], db) /\ l # "widen"
    BY <1>a, <2>1 DEF Knows, AfterFive, AfterSix, AfterVariance, AfterChain
  <2> QED BY <1>g, <2>1, <2>2
<1>13. CASE ReadGenesis(p)
  <2>1. pc[p] = "genesis" /\ pc' = [pc EXCEPT ![p] = "append"] /\ UNCHANGED <<release, db, rebuild>>
    BY <1>13 DEF ReadGenesis
  <2>2. Knows("append", rebuild[p], db)
    BY <1>a, <2>1 DEF Knows, AfterFive, AfterSix, AfterVariance, AfterChain
  <2> QED BY <1>g, <2>1, <2>2
<1>14. CASE AppendGenesis(p)
  <2>1. /\ pc[p] = "append" /\ db' = Genesis(db) /\ release' = release
        /\ pc' = [pc EXCEPT ![p] = "open"] /\ rebuild' = [rebuild EXCEPT ![p] = FALSE]
    BY <1>14 DEF AppendGenesis, Leave
  <2>2. Made(db) /\ {6, 7, 8} \subseteq db.versions
    BY <1>a, <2>1 DEF Knows, AfterFive, AfterSix, AfterVariance
  <2>3. Preserves(db, Genesis(db)) /\ 5 \in Genesis(db).versions
    BY <1>a, <2>2, GenesisPreserves
  <2>4. Knows("open", FALSE, Genesis(db))
    BY <2>2, <2>3 DEF Preserves, Knows, Grows, AfterFive, AfterSix, AfterVariance, AfterChain
  <2> QED BY <2>1, <2>3, <2>4, SoundStep
<1>15. CASE RefuseGenesis(p)
  BY <1>15, <1>d, KnowsNothing DEF RefuseGenesis, Fail
<1>16. CASE ReadCheckpoints(p)
  <2>1. CASE db.checkpoint = NoCheckpoint
    BY <1>16, <1>d, <2>1, KnowsNothing DEF ReadCheckpoints, Fail
  <2>2. CASE db.checkpoint # NoCheckpoint
    <3>1. pc[p] = "verify" /\ pc' = [pc EXCEPT ![p] = "root"] /\ UNCHANGED <<release, db, rebuild>>
      BY <1>16, <2>2 DEF ReadCheckpoints
    <3>2. Knows("root", rebuild[p], db)
      BY <1>a, <3>1 DEF Knows, AfterFive, AfterSix, AfterVariance, AfterChain
    <3> QED BY <1>g, <3>1, <3>2
  <2> QED BY <2>1, <2>2
<1>17. CASE ReadTable(p)
  BY <1>17 DEF ReadTable, SoundInv
<1>18. CASE CompareRoot(p)
  <2>1. pc[p] = "root" /\ UNCHANGED <<release, db>>
    BY <1>18 DEF CompareRoot
  <2>2. Leave(p, "closed") \/ Leave(p, "open")
    BY <1>18 DEF CompareRoot, Fail
  <2>3. Knows("open", FALSE, db)
    BY <1>a, <2>1 DEF Knows, AfterFive, AfterSix, AfterVariance, AfterChain
  <2> QED BY <1>d, <2>1, <2>2, <2>3, KnowsNothing
<1>19. CASE Crash(p)
  BY <1>19, <1>d, KnowsNothing DEF Crash
<1>20. CASE Close(p)
  BY <1>20, <1>g, KnowsNothing DEF Close
<1>21. CASE Writing(p)
  <2>1. \/ CreateOther(p)
        \/ \E r \in Receivables :
             CreateOrGet(p, r) \/ MarkUnderpaymentReview(p, r) \/ AcceptUnderpayment(p, r)
    BY <1>21 DEF Writing
  <2>2. pc[p] = "open" /\ UNCHANGED <<release, pc, rebuild>>
    BY <2>1 DEF CreateOther, CreateOrGet, MarkUnderpaymentReview, AcceptUnderpayment, Write
  <2>3. 8 \in db.versions
    BY <1>a, <2>2 DEF Knows, AfterVariance, AfterChain
  <2>4. Preserves(db, db')
    <3>1. ASSUME NEW r \in Receivables, CreateOrGet(p, r)
          PROVE  Preserves(db, db')
      BY <1>a, <2>3, <3>1, WritesPreserve DEF CreateOrGet, Write
    <3>2. ASSUME NEW r \in Receivables, MarkUnderpaymentReview(p, r)
          PROVE  Preserves(db, db')
      BY <1>a, <2>3, <3>2, WritesPreserve DEF MarkUnderpaymentReview, Write
    <3>3. ASSUME NEW r \in Receivables, AcceptUnderpayment(p, r)
          PROVE  Preserves(db, db')
      BY <1>a, <2>3, <3>3, WritesPreserve DEF AcceptUnderpayment, Write
    <3>4. CASE CreateOther(p)
      BY <1>a, <2>3, <3>4, CheckpointPreserves DEF CreateOther, Write, Sound
    <3> QED BY <2>1, <3>1, <3>2, <3>3, <3>4
  <2>5. Knows("open", rebuild[p], db')
    BY <1>a, <2>2, <2>4, KnowsGrows DEF Preserves
  <2>6. pc' = [pc EXCEPT ![p] = "open"] /\ rebuild' = [rebuild EXCEPT ![p] = rebuild[p]]
    BY <1>b, <1>c, <2>2 DEF Same
  <2> QED BY <2>2, <2>4, <2>5, <2>6, SoundStep
<1> QED BY <1>1, <1>2, <1>3, <1>4, <1>5, <1>6, <1>7, <1>8, <1>9, <1>10, <1>11, <1>12, <1>13, <1>14,
           <1>15, <1>16, <1>17, <1>18, <1>19, <1>20, <1>21 DEF Step, Opening

-----------------------------------------------------------------------------
(* What a process knows while nobody disturbs it.                          *)

\* AloneInv, for one process.
AloneAt(q) ==
  /\ Opens(q) /\ ~disturbed[q] => Alone(q)
  /\ pc[q] # "root" => ~torn[q]
  /\ result[q] # None => disturbed[q]

\* What a step of p leaves of the locals of q.
Untouched(q) ==
  /\ pc'[q] = pc[q]
  /\ snapshot'[q] = snapshot[q]
  /\ torn'[q] = torn[q]
  /\ result'[q] = result[q]

\* Three ways in which a step of p spares q: it writes nothing, it commits
\* what it had the lock for, or it disturbs q.
LEMMA OthersAlone ==
  ASSUME NEW p \in Processes, NEW q \in Processes, q # p, AloneAt(q), Untouched(q),
         \/ db' = db /\ writer' \in {writer, None} /\ disturbed'[q] = disturbed[q]
         \/ writer = p /\ disturbed'[q] = disturbed[q]
         \/ disturbed'[q] = (disturbed[q] \/ Opens(q))
  PROVE  AloneAt(q)'
<1>1. Opens(q)' = Opens(q)
  BY DEF Opens, Untouched
<1>2. CASE db' = db /\ writer' \in {writer, None} /\ disturbed'[q] = disturbed[q]
  <2>1. Root(db)' = Root(db)
    BY <1>2
  <2>2. Alone(q) => Alone(q)'
    BY <1>2, <2>1 DEF Alone, Untouched
  <2> QED BY <1>1, <1>2, <2>2 DEF AloneAt, Untouched
<1>3. CASE writer = p /\ disturbed'[q] = disturbed[q]
  <2>1. ~Alone(q)
    BY <1>3, StoreOpenAssumption DEF Alone
  <2> QED BY <1>1, <1>3, <2>1 DEF AloneAt, Untouched
<1>4. CASE disturbed'[q] = (disturbed[q] \/ Opens(q))
  BY <1>1, <1>4 DEF AloneAt, Untouched
<1> QED BY <1>2, <1>3, <1>4

LEMMA AloneStep ==
  ASSUME AloneInv, NEW p \in Processes, AloneAt(p)',
         \A q \in Processes : q # p =>
           /\ Untouched(q)
           /\ \/ db' = db /\ writer' \in {writer, None} /\ disturbed'[q] = disturbed[q]
              \/ writer = p /\ disturbed'[q] = disturbed[q]
              \/ disturbed'[q] = (disturbed[q] \/ Opens(q))
  PROVE  AloneInv'
<1>1. \A q \in Processes : AloneAt(q)
  BY DEF AloneInv, AloneAt
<1>2. \A q \in Processes : AloneAt(q)'
  BY <1>1, OthersAlone
<1> QED BY <1>2 DEF AloneInv, AloneAt

\* A step that leaves nothing behind but a quiet process.
LEMMA LeavingAlone ==
  ASSUME TypeInv, AloneInv, NEW p \in Processes, NEW l \in {"closed", "open"}, Leave(p, l),
         UNCHANGED <<db, disturbed>>, writer' = writer \/ (writer = p /\ writer' = None),
         \A q \in Processes : q # p => result'[q] = result[q], result'[p] # None => disturbed[p]
  PROVE  AloneInv'
<1>1. AloneAt(p)'
  BY DEF AloneAt, Leave, Goto, Opens, TypeInv
<1>2. \A q \in Processes : q # p => Untouched(q)
  BY DEF Leave, Goto, Untouched, TypeInv
<1> QED BY <1>1, <1>2, AloneStep

\* A step that only moves p to another label, where it is still alone.
LEMMA MovingAlone ==
  ASSUME TypeInv, AloneInv, NEW p \in Processes, NEW l, l \notin {"closed", "open", "root"},
         pc' = [pc EXCEPT ![p] = l], pc[p] \notin {"closed", "open", "root"},
         UNCHANGED <<db, writer, snapshot, torn, result, disturbed>>,
         Alone(p) => /\ l = "widen" => db.check = CheckOpen
                     /\ l = "five" => 6 \notin db.versions
                     /\ l = "six" => 7 \notin db.versions
                     /\ l = "genesis" => 5 \notin db.versions
                     /\ l # "append"
  PROVE  AloneInv'
<1>1. pc'[p] = l /\ Opens(p) /\ AloneAt(p)
  BY DEF TypeInv, Opens, AloneInv, AloneAt
<1>2. AloneAt(p)'
  BY <1>1 DEF AloneAt, Alone, Opens
<1>3. \A q \in Processes : q # p => Untouched(q)
  BY DEF Untouched, TypeInv
<1> QED BY <1>2, <1>3, AloneStep

\* A commit, after which p is on its way to a check.
LEMMA CommittingAlone ==
  ASSUME TypeInv, AloneInv, NEW p \in Processes, NEW d, NEW l, Commit(p, d, l),
         l \in {"read_check", "read_five", "read_six", "read_variance", "read_chain"}
  PROVE  AloneInv'
<1>1. pc'[p] = l /\ pc[p] \in Transactions /\ AloneAt(p)
  BY StoreOpenAssumption DEF Commit, Goto, TypeInv, AloneInv, AloneAt
<1>2. AloneAt(p)'
  BY <1>1 DEF AloneAt, Alone, Opens, Commit, Transactions
<1>3. \A q \in Processes : q # p => Untouched(q)
  BY DEF Untouched, TypeInv, Commit, Goto
<1> QED BY <1>2, <1>3, AloneStep DEF Commit

LEMMA DisturbingOthers ==
  ASSUME NEW p \in Processes, Disturb(p)
  PROVE  /\ \A q \in Processes : q # p => disturbed'[q] = (disturbed[q] \/ Opens(q))
         /\ disturbed[p] \in BOOLEAN => disturbed'[p] = disturbed[p]
BY DEF Disturb

\* Nobody has read a root that differs from the last checkpoint, unless the
\* checkpoint is another by now.
LEMMA RootReads ==
  ASSUME TypeInv, NEW p \in Processes, snapshot[p] = Root(db)
  PROVE  ~Differs(p)
BY RootIsNoOther DEF Differs

LEMMA AloneInvStep ==
  ASSUME Inv, NEW p \in Processes, Step(p)
  PROVE  AloneInv'
<1> USE DEF Goto
<1>a. TypeInv /\ SoundInv /\ AloneInv /\ AloneAt(p) /\ Knows(pc[p], rebuild[p], db) /\ Sound(db)
  BY DEF Inv, SoundInv, AloneInv, AloneAt
<1>b. /\ disturbed[p] \in BOOLEAN /\ result[p] \in {None, "unavailable", "integrity"}
      /\ torn[p] \in BOOLEAN
      /\ writer = p => pc[p] \in Transactions
  BY <1>a, StoreOpenAssumption DEF TypeInv
<1>c. ASSUME Abort(p), pc[p] \notin {"closed", "open"}, ~Alone(p)
      PROVE  AloneInv'
  BY <1>a, <1>c, LeavingAlone DEF Abort, Fail, AloneAt, Opens, TypeInv
<1>1. CASE Begin(p)
  <2>1. AloneAt(p)'
    BY <1>1, <1>a, <1>b, DisturbingOthers
    DEF Begin, procVars, AloneAt, Alone, Opens, Transactions
  <2>2. \A q \in Processes : q # p => Untouched(q)
    BY <1>1 DEF Begin, procVars, Untouched
  <2> QED BY <1>1, <1>a, <2>1, <2>2, DisturbingOthers, AloneStep DEF Begin
<1>2. CASE Start(p)
  <2>1. /\ pc'[p] = "create" /\ pc[p] = "closed" /\ result'[p] = None
        /\ disturbed'[p] = (writer # None) /\ torn' = torn /\ writer' = writer
    BY <1>2, <1>a DEF Start, TypeInv
  <2>2. AloneAt(p)'
    BY <1>a, <2>1 DEF AloneAt, Alone, Opens
  <2>3. \A q \in Processes : q # p => Untouched(q) /\ disturbed'[q] = disturbed[q]
    BY <1>2, <1>a DEF Start, Untouched, TypeInv
  <2> QED BY <1>2, <1>a, <2>2, <2>3, AloneStep DEF Start
<1>3. CASE CreateSchema(p)
  BY <1>3, <1>a, CommittingAlone DEF CreateSchema
<1>4. CASE ReadCheck(p)
  <2> DEFINE l == IF db.check = CheckOpen THEN "widen" ELSE "read_five"
  <2>1. pc[p] = "read_check" /\ pc' = [pc EXCEPT ![p] = l]
        /\ UNCHANGED <<db, writer, snapshot, torn, result, disturbed>>
    BY <1>4 DEF ReadCheck, Read
  <2> QED BY <1>a, <2>1, MovingAlone
<1>5. CASE MigrateStateConstraint(p)
  <2>1. pc[p] = "widen"
    BY <1>5 DEF MigrateStateConstraint
  <2>2. CASE Abort(p) /\ ~(\A r \in Receivables : db.states[r] \in CheckPhaseSix \union {None})
    <3>1. ~Alone(p)
      BY <1>a, <2>1, <2>2 DEF Alone, Sound, CheckOpen, CheckPhaseSix, CheckPhaseFive
    <3> QED BY <1>c, <2>1, <2>2, <3>1
  <2>3. CASE Commit(p, Widened(db), "read_five")
    BY <1>a, <2>3, CommittingAlone
  <2> QED BY <1>5, <2>2, <2>3 DEF MigrateStateConstraint
<1>6. CASE ReadPhaseFive(p)
  <2> DEFINE l == IF 6 \notin db.versions THEN "five" ELSE "read_six"
  <2>1. pc[p] = "read_five" /\ pc' = [pc EXCEPT ![p] = l]
        /\ UNCHANGED <<db, writer, snapshot, torn, result, disturbed>>
    BY <1>6 DEF ReadPhaseFive, Read
  <2> QED BY <1>a, <2>1, MovingAlone
<1>7. CASE MigratePhaseFive(p)
  <2>1. pc[p] = "five"
    BY <1>7 DEF MigratePhaseFive
  <2>2. CASE Abort(p) /\ 6 \in db.versions
    BY <1>a, <1>c, <2>1, <2>2 DEF Alone
  <2>3. CASE Commit(p, PhaseFive(db), "read_six")
    BY <1>a, <2>3, CommittingAlone
  <2> QED BY <1>7, <2>2, <2>3 DEF MigratePhaseFive
<1>8. CASE ReadPhaseSix(p)
  <2> DEFINE l == IF 7 \notin db.versions THEN "six" ELSE "read_variance"
  <2>1. pc[p] = "read_six" /\ pc' = [pc EXCEPT ![p] = l]
        /\ UNCHANGED <<db, writer, snapshot, torn, result, disturbed>>
    BY <1>8 DEF ReadPhaseSix, Read
  <2> QED BY <1>a, <2>1, MovingAlone
<1>9. CASE MigratePhaseSix(p)
  <2>1. pc[p] = "six"
    BY <1>9 DEF MigratePhaseSix
  <2>2. CASE Abort(p) /\ 7 \in db.versions
    BY <1>a, <1>c, <2>1, <2>2 DEF Alone
  <2>3. CASE Commit(p, PhaseSix(db), "read_variance")
    BY <1>a, <2>3, CommittingAlone
  <2> QED BY <1>9, <2>2, <2>3 DEF MigratePhaseSix
<1>10. CASE ReadVariance(p)
  <2> DEFINE l == IF 8 \in db.versions /\ ~NeedsRebuild(db) THEN "read_chain" ELSE "variance"
  <2>1. pc[p] = "read_variance" /\ pc' = [pc EXCEPT ![p] = l]
        /\ UNCHANGED <<db, writer, snapshot, torn, result, disturbed>>
    BY <1>10 DEF ReadVariance
  <2> QED BY <1>a, <2>1, MovingAlone
<1>11. CASE MigrateVariance(p)
  BY <1>11, <1>a, CommittingAlone DEF MigrateVariance
<1>12. CASE ReadChain(p)
  <2> DEFINE l == IF 5 \notin db.versions THEN "genesis" ELSE "verify"
  <2>1. pc[p] = "read_chain" /\ pc' = [pc EXCEPT ![p] = l]
        /\ UNCHANGED <<db, writer, snapshot, torn, result, disturbed>>
    BY <1>12 DEF ReadChain, Read
  <2> QED BY <1>a, <2>1, MovingAlone
<1>13. CASE ReadGenesis(p)
  <2>1. /\ pc[p] = "genesis" /\ pc'[p] = "append" /\ snapshot'[p] = db
        /\ UNCHANGED <<db, writer, torn, result, disturbed>>
    BY <1>13, <1>a DEF ReadGenesis, TypeInv
  <2>2. AloneAt(p)'
    BY <1>a, <2>1 DEF AloneAt, Alone, Opens
  <2>3. \A q \in Processes : q # p => Untouched(q)
    BY <1>13, <1>a DEF ReadGenesis, Untouched, TypeInv
  <2> QED BY <1>a, <2>1, <2>2, <2>3, AloneStep
<1>14. CASE AppendGenesis(p)
  <2>1. /\ pc'[p] = "open" /\ torn'[p] = FALSE /\ result' = result /\ Disturb(p)
        /\ disturbed'[p] = disturbed[p]
    BY <1>14, <1>a, <1>b, DisturbingOthers DEF AppendGenesis, Leave, TypeInv
  <2>2. AloneAt(p)'
    BY <1>a, <2>1 DEF AloneAt, Opens
  <2>3. \A q \in Processes : q # p => Untouched(q)
    BY <1>14, <1>a DEF AppendGenesis, Leave, Untouched, TypeInv
  <2> QED BY <1>a, <2>1, <2>2, <2>3, DisturbingOthers, AloneStep
<1>15. CASE RefuseGenesis(p)
  <2>1. ~Alone(p) /\ Opens(p)
    BY <1>15, <1>b, StoreOpenAssumption DEF RefuseGenesis, Alone, Transactions, Opens
  <2>2. disturbed[p]
    BY <1>a, <2>1 DEF AloneAt
  <2>3. Leave(p, "closed") /\ \A q \in Processes : q # p => result'[q] = result[q]
    BY <1>15, <1>a DEF RefuseGenesis, Fail, TypeInv
  <2>4. writer' = writer /\ UNCHANGED <<db, disturbed>>
    BY <1>15 DEF RefuseGenesis
  <2> HIDE DEF Goto
  <2> QED BY <1>a, <2>2, <2>3, <2>4, LeavingAlone
<1>16. CASE ReadCheckpoints(p)
  <2>1. pc[p] = "verify"
    BY <1>16 DEF ReadCheckpoints
  <2>2. db.checkpoint = Root(db) /\ db.checkpoint # NoCheckpoint
    <3>1. {5, 8} \subseteq db.versions
      BY <1>a, <2>1 DEF Knows, AfterVariance, AfterChain
    <3>2. db.checkpoint = Root(db)
      BY <1>a, <3>1 DEF Sound
    <3> QED BY <3>2, RootIsNoOther
  <2>3. /\ pc'[p] = "root" /\ snapshot'[p] = db.checkpoint
        /\ UNCHANGED <<db, writer, torn, result, disturbed>>
        /\ \A q \in Processes : q # p => Untouched(q)
    <3>1. /\ snapshot' = [snapshot EXCEPT ![p] = db.checkpoint]
          /\ pc' = [pc EXCEPT ![p] = "root"]
          /\ UNCHANGED <<db, writer, torn, result, disturbed>>
      BY <1>16, <2>2 DEF ReadCheckpoints
    <3> QED BY <1>a, <3>1 DEF Untouched, TypeInv
  <2>4. Root(db)' = Root(db)
    BY <2>3
  <2>5. AloneAt(p)'
    BY <1>a, <2>1, <2>2, <2>3, <2>4 DEF AloneAt, Alone, Opens
  <2> QED BY <1>a, <2>3, <2>5, AloneStep
<1>17. CASE ReadTable(p)
  <2>1. /\ pc[p] = "root" /\ torn'[p] = (torn[p] \/ Differs(p))
        /\ UNCHANGED <<db, writer, pc, snapshot, result, disturbed>>
    BY <1>17, <1>a DEF ReadTable, TypeInv
  <2>2. Alone(p) => ~torn'[p]
    BY <1>a, <2>1, RootReads DEF Alone
  <2>3. Root(db)' = Root(db)
    BY <2>1
  <2>4. AloneAt(p)'
    BY <1>a, <2>1, <2>2, <2>3 DEF AloneAt, Alone, Opens
  <2>5. \A q \in Processes : q # p => Untouched(q)
    BY <1>17, <1>a DEF ReadTable, Untouched, TypeInv
  <2> QED BY <1>a, <2>1, <2>4, <2>5, AloneStep
<1>18. CASE CompareRoot(p)
  <2>1. pc[p] = "root" /\ UNCHANGED <<db, writer, disturbed>>
    BY <1>18 DEF CompareRoot
  <2>2. CASE torn[p] \/ Differs(p)
    <3>1. Fail(p, "integrity")
      BY <1>18, <2>2 DEF CompareRoot
    <3>2. ~Alone(p)
      BY <1>a, <2>1, <2>2, RootReads DEF Alone
    <3>3. disturbed[p]
      BY <1>a, <2>1, <3>2 DEF AloneAt, Opens
    <3>4. Leave(p, "closed") /\ \A q \in Processes : q # p => result'[q] = result[q]
      BY <1>a, <3>1 DEF Fail, TypeInv
    <3>5. writer' = writer /\ UNCHANGED <<db, disturbed>>
      BY <2>1
    <3> HIDE DEF Goto
    <3> QED BY <1>a, <3>3, <3>4, <3>5, LeavingAlone
  <2>3. CASE ~(torn[p] \/ Differs(p))
    <3>1. Leave(p, "open") /\ result' = result
      BY <1>18, <2>3 DEF CompareRoot
    <3>2. /\ \A q \in Processes : q # p => result'[q] = result[q]
          /\ result'[p] # None => disturbed[p]
      BY <1>a, <3>1 DEF AloneAt
    <3>3. writer' = writer /\ UNCHANGED <<db, disturbed>>
      BY <2>1
    <3> HIDE DEF Goto
    <3> QED BY <1>a, <3>1, <3>2, <3>3, LeavingAlone
  <2> QED BY <2>2, <2>3
<1>19. CASE Crash(p)
  <2>1. Leave(p, "closed") /\ UNCHANGED <<db, result, disturbed>>
    BY <1>19 DEF Crash
  <2>2. writer' = writer \/ (writer = p /\ writer' = None)
    <3>1. writer' = IF writer = p THEN None ELSE writer
      BY <1>19 DEF Crash
    <3> QED BY <3>1
  <2>3. /\ \A q \in Processes : q # p => result'[q] = result[q]
        /\ result'[p] # None => disturbed[p]
    BY <1>a, <2>1 DEF AloneAt
  <2> HIDE DEF Goto
  <2> QED BY <1>a, <2>1, <2>2, <2>3, LeavingAlone
<1>20. CASE Close(p)
  <2>1. pc'[p] = "closed" /\ pc[p] = "open" /\ UNCHANGED <<db, writer, snapshot, torn, result, disturbed>>
        /\ \A q \in Processes : q # p => Untouched(q)
    BY <1>20, <1>a DEF Close, Untouched, TypeInv
  <2>2. AloneAt(p)'
    BY <1>a, <2>1 DEF AloneAt, Opens
  <2> QED BY <1>a, <2>1, <2>2, AloneStep
<1>21. CASE Writing(p)
  <2>1. PICK k : /\ pc[p] = "open" /\ Disturb(p) /\ UNCHANGED <<pc, result>>
                 /\ torn' = [q \in Processes |-> Torn(q, k)]
    BY <1>21 DEF Writing, CreateOther, CreateOrGet, MarkUnderpaymentReview, AcceptUnderpayment, Write
  <2>2. disturbed'[p] = disturbed[p]
    BY <1>b, <2>1, DisturbingOthers
  <2>3. AloneAt(p)'
    BY <1>a, <2>1, <2>2 DEF AloneAt, Opens, Torn
  <2>4. ASSUME NEW q \in Processes, q # p
        PROVE  AloneAt(q)'
    <3>1. AloneAt(q) /\ disturbed'[q] = (disturbed[q] \/ Opens(q))
      BY <1>a, <2>1, <2>4, DisturbingOthers DEF AloneInv, AloneAt
    <3>2. Opens(q)' = Opens(q)
      BY <2>1 DEF Opens
    <3>3. pc'[q] # "root" => ~torn'[q]
      BY <2>1, <3>1 DEF AloneAt, Torn
    <3> QED BY <2>1, <3>1, <3>2, <3>3 DEF AloneAt
  <2> QED BY <2>3, <2>4 DEF AloneInv, AloneAt
<1> QED BY <1>1, <1>2, <1>3, <1>4, <1>5, <1>6, <1>7, <1>8, <1>9, <1>10, <1>11, <1>12, <1>13, <1>14,
           <1>15, <1>16, <1>17, <1>18, <1>19, <1>20, <1>21 DEF Step, Opening

-----------------------------------------------------------------------------
(* The invariant and what follows from it.                                 *)

LEMMA InitInv == Init => Inv
<1> SUFFICES ASSUME Init PROVE Inv
  OBVIOUS
<1>1. Sound(db) /\ (release # "phase_two" => Wide(db))
  BY FilesAreSound DEF Init
<1>2. TypeInv
  BY StoreOpenAssumption DEF Init, TypeInv, Labels, Material
<1>3. \A p \in Processes : pc[p] = "closed"
  BY DEF Init
<1>4. SoundInv
  BY <1>1, <1>3, KnowsNothing DEF SoundInv
<1>5. AloneInv
  BY <1>3 DEF Init, AloneInv, Opens
<1> QED BY <1>2, <1>4, <1>5 DEF Inv

LEMMA NextInv == Inv /\ [Next]_vars => Inv'
<1> SUFFICES ASSUME Inv, [Next]_vars PROVE Inv'
  OBVIOUS
<1>1. ASSUME NEW p \in Processes, Step(p)
      PROVE  Inv'
  <2>1. TypeInv /\ SoundInv
    BY DEF Inv
  <2> QED BY <1>1, <2>1, TypeInvStep, SoundInvStep, AloneInvStep DEF Inv
<1>2. CASE Next
  BY <1>1, <1>2 DEF Next, Step
<1>3. CASE UNCHANGED vars
  <2>1. UNCHANGED <<release, db, writer, pc, rebuild, snapshot, next, torn, result, disturbed, crashes>>
    BY <1>3 DEF vars
  <2>2. TypeInv'
    BY <2>1 DEF Inv, TypeInv
  <2>3. SoundInv'
    BY <2>1 DEF Inv, SoundInv
  <2>4. AloneInv'
    BY <2>1 DEF Inv, AloneInv, Opens, Alone
  <2> QED BY <2>2, <2>3, <2>4 DEF Inv
<1> QED BY <1>2, <1>3

THEOREM Invariance == Spec => []Inv
BY InitInv, NextInv, PTL DEF Spec

\* The types of the variables, and the fields of the database that the code
\* compares with constants.
THEOREM TypeCorrect == Spec => []TypeOK
<1>1. Inv => TypeOK
  <2> SUFFICES ASSUME Inv PROVE TypeOK
    OBVIOUS
  <2>1. /\ db.versions \subseteq Versions
        /\ db.check \in Checks
        /\ db.states \in [Receivables -> States \union {None}]
    BY DEF Inv, SoundInv, Sound, IsDatabase, StateRows
  <2>2. db.check \subseteq States
    BY <2>1 DEF Checks, CheckOpen, CheckPhaseFive, CheckPhaseSix, CheckCurrent, States
  <2> QED BY <2>1, <2>2 DEF Inv, TypeInv, TypeOK
<1> QED BY <1>1, Invariance, PTL

\* Whoever has the store open finds all versions, no old table and a last
\* checkpoint over the current rows, however many processes opened it at once
\* and whatever release left the file.
THEOREM Current_WhileOpen == Spec => []OpenedStoresAreCurrent
<1>1. Inv => OpenedStoresAreCurrent
  <2> SUFFICES ASSUME Inv, NEW p \in Processes, pc[p] = "open"
               PROVE  /\ db.versions = Versions
                      /\ db.shape = Current
                      /\ db.checkpoint = Root(db)
                      /\ release # "phase_two" => db.check = States
    BY DEF OpenedStoresAreCurrent
  <2>1. Sound(db) /\ Made(db) /\ {5, 6, 7, 8} \subseteq db.versions
    BY DEF Inv, SoundInv, Knows, AfterFive, AfterSix, AfterVariance, AfterChain
  <2>2. ~NeedsRebuild(db)
    BY <2>1 DEF Sound
  <2>3. db.versions = Versions
    <3>1. db.versions \subseteq Versions
      BY <2>1 DEF Sound, IsDatabase
    <3>2. 1..4 \union {5, 6, 7, 8} \subseteq db.versions
      BY <2>1 DEF Made
    <3>3. Versions = 1..4 \union {5, 6, 7, 8}
      BY DEF Versions
    <3> QED BY <3>1, <3>2, <3>3
  <2>4. db.shape = Current
    <3>1. db.shape \in ShapesOfTables
      BY <2>1 DEF Sound, IsDatabase
    <3>2. /\ db.shape.settlements = "current"
          /\ db.shape.candidates = "current"
          /\ db.shape.resolutions = "current"
      BY <2>1, <2>2, <3>1 DEF NeedsRebuild, Made, ShapesOfTables
    <3>3. /\ db.shape.valuations = "current"
          /\ db.shape.revisions = "current"
          /\ db.shape.month_closes = "absent"
      BY <2>1 DEF Sound
    <3> QED BY <3>1, <3>2, <3>3 DEF ShapesOfTables, Current, Shapes
  <2>5. db.checkpoint = Root(db)
    BY <2>1, <2>2 DEF Sound
  <2>6. release # "phase_two" => db.check = States
    BY <2>1, <2>2 DEF Inv, SoundInv, Wide, Made, CheckCurrent
  <2> QED BY <2>3, <2>4, <2>5, <2>6
<1> QED BY <1>1, Invariance, PTL

\* An open that failed was disturbed: alone it gets through every file.
THEOREM LoneSuccess == Spec => []LoneOpensSucceed
<1>1. Inv => LoneOpensSucceed
  BY DEF Inv, AloneInv, LoneOpensSucceed
<1> QED BY <1>1, Invariance, PTL

LEMMA SameEvidence ==
  ASSUME NEW d, NEW e, SameRows(d, e)
  PROVE  Evidence(e) = Evidence(d)
BY DEF SameRows, Evidence

LEMMA PhaseFiveKeepsEvidence ==
  ASSUME NEW d, IsDatabase(d)
  PROVE  Evidence(PhaseFive(d)) = Evidence(d)
<1> DEFINE e == PhaseFive(d)
<1>1. /\ e.states = d.states
      /\ e.settlements = d.settlements
      /\ e.candidates = d.candidates
      /\ e.resolutions = d.resolutions
      /\ e.methods = [r \in Receivables |-> IF d.methods[r] = None THEN None ELSE "nominal"]
      /\ e.closes = [m \in Months |-> IF d.closes[m] = None THEN None ELSE "hashed"]
  BY PhaseFiveFields
<1> HIDE DEF e
<1>2. {r \in Receivables : e.methods[r] # None} = {r \in Receivables : d.methods[r] # None}
  BY <1>1, StoreOpenAssumption
<1>3. {m \in Months : e.closes[m] # None} = {m \in Months : d.closes[m] # None}
  BY <1>1, StoreOpenAssumption
<1>4. e.states = d.states /\ e.settlements = d.settlements /\ e.candidates = d.candidates
      /\ e.resolutions = d.resolutions
  BY <1>1
<1>5. Evidence(e) = Evidence(d)
  BY <1>2, <1>3, <1>4, Zenon DEF Evidence
<1> QED BY <1>5 DEF e

\* A rebuild says nothing new of rows that no accepted underpayment left.
LEMMA RebuiltKeepsEvidence ==
  ASSUME NEW d, IsDatabase(d), Plain(d)
  PROVE  Evidence(Rebuilt(d)) = Evidence(d)
<1> DEFINE e == Rebuilt(d)
           Said(s) == [r \in Receivables |->
             IF s[r] = None THEN None
             ELSE IF s[r].kind = None THEN Exact(s[r].paid)
             ELSE s[r]]
<1>1. /\ e.states = d.states
      /\ e.settlements = [r \in Receivables |->
           IF d.settlements[r] = None THEN None ELSE Exact(d.settlements[r].paid)]
      /\ e.candidates = [r \in Receivables |-> IF d.candidates[r] = None THEN None ELSE "unmeasured"]
      /\ e.resolutions = [r \in Receivables |->
           IF d.resolutions[r] = None THEN None ELSE [d.resolutions[r] EXCEPT !.run = None]]
      /\ e.methods = d.methods
      /\ e.closes = d.closes
  BY RebuiltFields
<1> HIDE DEF e
<1>2. ASSUME NEW r \in Receivables
      PROVE  Said(e.settlements)[r] = Said(d.settlements)[r]
  <2>1. CASE d.settlements[r] = None
    BY <1>1, <2>1
  <2>2. CASE d.settlements[r] # None
    <3> DEFINE paid == d.settlements[r].paid
    <3>1. paid \in Paid
      BY <2>2 DEF IsDatabase, SettlementRows, Rows
    <3>2. Exact(paid) # None /\ Exact(paid).kind # None /\ Exact(paid).paid = paid
          /\ Unkinded(paid).kind = None
      BY <3>1, StoreOpenAssumption DEF Exact, Unkinded, Paid
    <3>3. e.settlements[r] = Exact(paid)
      BY <1>1, <2>2
    <3>4. Said(e.settlements)[r] = Exact(paid)
      BY <3>2, <3>3
    <3>5. d.settlements[r] \in {Exact(paid), Unkinded(paid)}
      BY <2>2 DEF Plain
    <3> HIDE DEF paid
    <3>6. Said(d.settlements)[r] = Exact(paid)
      BY <2>2, <3>2, <3>5 DEF paid
    <3> QED BY <3>4, <3>6
  <2> QED BY <2>1, <2>2
<1>3. Said(e.settlements) = Said(d.settlements)
  BY <1>2
<1>4. e.candidates = d.candidates
  <2>1. d.candidates \in [Receivables -> {None, "unmeasured", "short"}]
    BY DEF IsDatabase, CandidateRows
  <2>2. \A r \in Receivables : d.candidates[r] \in {None, "unmeasured"}
    BY <2>1 DEF Plain
  <2> QED BY <1>1, <2>1, <2>2
<1>5. e.resolutions = d.resolutions
  <2>1. d.resolutions \in [Receivables -> [run : {None, "run"}] \union {None}]
    BY DEF IsDatabase, ResolutionRows
  <2>2. ASSUME NEW r \in Receivables, d.resolutions[r] # None
        PROVE  [d.resolutions[r] EXCEPT !.run = None] = d.resolutions[r]
    <3>1. d.resolutions[r] \in [run : {None, "run"}] /\ d.resolutions[r].run = None
      BY <2>1, <2>2 DEF Plain
    <3> QED BY <3>1
  <2> QED BY <1>1, <2>1, <2>2
<1>6. e.states = d.states /\ e.methods = d.methods /\ e.closes = d.closes
  BY <1>1
<1>7. Evidence(e) = Evidence(d)
  BY <1>3, <1>4, <1>5, <1>6, Zenon DEF Evidence
<1> QED BY <1>7 DEF e

\* Whatever a rebuild forgets, it keeps what was paid and who has been paid.
LEMMA RebuiltKeepsStanding ==
  ASSUME NEW d, IsDatabase(d)
  PROVE  Standing(Rebuilt(d)) = Standing(d)
<1> DEFINE e == Rebuilt(d)
           Said(s) == [r \in Receivables |->
             IF s[r] = None THEN None
             ELSE IF s[r].kind = None THEN Exact(s[r].paid)
             ELSE s[r]]
           PaidWith(s) == [r \in Receivables |-> IF s[r] = None THEN None ELSE s[r].paid]
           Having(s) == {r \in Receivables : s[r] # None}
<1>1. /\ e.states = d.states
      /\ e.settlements = [r \in Receivables |->
           IF d.settlements[r] = None THEN None ELSE Exact(d.settlements[r].paid)]
      /\ e.candidates = [r \in Receivables |-> IF d.candidates[r] = None THEN None ELSE "unmeasured"]
      /\ e.resolutions = [r \in Receivables |->
           IF d.resolutions[r] = None THEN None ELSE [d.resolutions[r] EXCEPT !.run = None]]
      /\ e.methods = d.methods
      /\ e.closes = d.closes
  BY RebuiltFields
<1> HIDE DEF e
<1>2. ASSUME NEW r \in Receivables
      PROVE  PaidWith(Said(e.settlements))[r] = PaidWith(Said(d.settlements))[r]
  <2>1. CASE d.settlements[r] = None
    BY <1>1, <2>1
  <2>2. CASE d.settlements[r] # None
    <3> DEFINE paid == d.settlements[r].paid
    <3>1. paid \in Paid
      BY <2>2 DEF IsDatabase, SettlementRows, Rows
    <3>2. Exact(paid) # None /\ Exact(paid).kind # None /\ Exact(paid).paid = paid
      BY <3>1, StoreOpenAssumption DEF Exact, Paid
    <3>3. e.settlements[r] = Exact(paid)
      BY <1>1, <2>2
    <3>4. Said(e.settlements)[r] = Exact(paid)
      BY <3>2, <3>3
    <3>5. Said(d.settlements)[r] \in {Exact(paid), d.settlements[r]}
      BY <2>2
    <3>6. Said(d.settlements)[r] # None /\ Said(d.settlements)[r].paid = paid
      BY <2>2, <3>2, <3>5
    <3> HIDE DEF Said
    <3> QED BY <3>2, <3>4, <3>6
  <2> QED BY <2>1, <2>2
<1>3. PaidWith(Said(e.settlements)) = PaidWith(Said(d.settlements))
  BY <1>2
<1>4. Having(e.candidates) = Having(d.candidates)
  BY <1>1, StoreOpenAssumption
<1>5. Having(e.resolutions) = Having(d.resolutions)
  <2>1. d.resolutions \in [Receivables -> [run : {None, "run"}] \union {None}]
    BY DEF IsDatabase, ResolutionRows
  <2>2. ASSUME NEW r \in Receivables, d.resolutions[r] # None
        PROVE  [d.resolutions[r] EXCEPT !.run = None] # None
    <3>1. [d.resolutions[r] EXCEPT !.run = None] \in [run : {None, "run"}]
      BY <2>1, <2>2
    <3> QED BY <3>1, StoreOpenAssumption
  <2> QED BY <1>1, <2>1, <2>2
<1>6. e.states = d.states /\ e.methods = d.methods /\ e.closes = d.closes
  BY <1>1
<1>7. ASSUME NEW f
      PROVE  Standing(f) =
               [states |-> f.states, settlements |-> PaidWith(Said(f.settlements)),
                candidates |-> Having(f.candidates), resolutions |-> Having(f.resolutions),
                valued |-> {r \in Receivables : f.methods[r] # None},
                closed |-> {m \in Months : f.closes[m] # None}]
  <2> DEFINE valued == {r \in Receivables : f.methods[r] # None}
             closed == {m \in Months : f.closes[m] # None}
             said == Said(f.settlements)
             paid == PaidWith(said)
             cs == Having(f.candidates)
             rs == Having(f.resolutions)
             all == [states |-> f.states, settlements |-> said, candidates |-> f.candidates,
                     resolutions |-> f.resolutions, valued |-> valued, closed |-> closed]
  <2>1. Evidence(f) = all
    BY DEF Evidence
  <2>2. /\ all.settlements = said
        /\ all.candidates = f.candidates
        /\ all.resolutions = f.resolutions
    OBVIOUS
  <2>3. Standing(f) = [all EXCEPT !.settlements = PaidWith(all.settlements),
                                  !.candidates = Having(all.candidates),
                                  !.resolutions = Having(all.resolutions)]
    BY <2>1 DEF Standing
  <2>4. Standing(f) = [all EXCEPT !.settlements = paid, !.candidates = cs, !.resolutions = rs]
    BY <2>2, <2>3
  <2> HIDE DEF valued, closed, paid, said, cs, rs
  <2>5. Standing(f) = [states |-> f.states, settlements |-> paid, candidates |-> cs,
                       resolutions |-> rs, valued |-> valued, closed |-> closed]
    BY <2>4
  <2> QED BY <2>5 DEF valued, closed, paid, said, cs, rs
<1> HIDE DEF PaidWith, Said, Having
<1>8. Standing(e) = Standing(d)
  BY <1>3, <1>4, <1>5, <1>6, <1>7
<1> QED BY <1>8 DEF e

\* Only the writes change what the rows say, and the rebuild that is decided
\* on before another process makes it: needs_rebuild is read in autocommit.
\* That rebuild leaves the states, what was paid, and which rows there are.
THEOREM EvidenceIsKept == Spec => OnlyStaleRebuildsLoseEvidence
<1> DEFINE Quiet == \A p \in Processes :
             /\ (Opening(p) /\ ~StaleRebuild(p)) \/ Crash(p) => Evidence(db') = Evidence(db)
             /\ Opening(p) => Standing(db') = Standing(db)
<1>1. ASSUME Inv, NEW p \in Processes, Opening(p), ~StaleRebuild(p)
      PROVE  Evidence(db') = Evidence(db)
  <2>1. Sound(db) /\ IsDatabase(db)
    BY <1>1 DEF Inv, SoundInv, Sound
  <2>2. Abort(p) => db' = db
    BY DEF Abort
  <2>3. \A l, n, t, o : Read(p, l, n, t, o) => db' = db
    BY DEF Read
  <2>4. CASE Begin(p) \/ Start(p) \/ ReadVariance(p) \/ ReadGenesis(p) \/ RefuseGenesis(p)
             \/ ReadCheckpoints(p) \/ ReadTable(p) \/ CompareRoot(p)
    <3>1. db' = db
      BY <2>4 DEF Begin, Start, ReadVariance, ReadGenesis, RefuseGenesis, ReadCheckpoints,
                  ReadTable, CompareRoot
    <3> QED BY <3>1
  <2>5. CASE ReadCheck(p) \/ ReadPhaseFive(p) \/ ReadPhaseSix(p) \/ ReadChain(p)
    <3>1. db' = db
      BY <2>3, <2>5 DEF ReadCheck, ReadPhaseFive, ReadPhaseSix, ReadChain
    <3> QED BY <3>1
  <2>6. CASE CreateSchema(p)
    <3>1. db' = Created(db)
      BY <2>6 DEF CreateSchema, Commit
    <3> QED BY <2>1, <3>1, CreatedFields, SameEvidence
  <2>7. CASE MigrateStateConstraint(p)
    <3>1. db' = Widened(db) \/ db' = db
      BY <2>2, <2>7 DEF MigrateStateConstraint, Commit
    <3> QED BY <2>1, <3>1, WidenedFields, SameEvidence
  <2>8. CASE MigratePhaseFive(p)
    <3>1. db' = PhaseFive(db) \/ db' = db
      BY <2>2, <2>8 DEF MigratePhaseFive, Commit
    <3> QED BY <2>1, <3>1, PhaseFiveKeepsEvidence
  <2>9. CASE MigratePhaseSix(p)
    <3>1. (db' = PhaseSix(db) /\ pc[p] = "six") \/ db' = db
      BY <2>2, <2>9 DEF MigratePhaseSix, Commit
    <3>2. pc[p] = "six" => Made(db)
      BY <1>1 DEF Inv, SoundInv, Knows
    <3> QED BY <2>1, <3>1, <3>2, PhaseSixFields, SameEvidence
  <2>10. CASE MigrateVariance(p)
    <3>1. db' = Variance(db, rebuild[p]) /\ pc[p] = "variance"
      BY <2>10 DEF MigrateVariance, Commit
    <3>2. CASE rebuild[p]
      <4>1. Plain(db)
        BY <1>1, <2>1, <3>1, <3>2 DEF StaleRebuild, Sound
      <4>2. Evidence(Rebuilt(db)) = Evidence(db) /\ IsDatabase(Rebuilt(db))
        BY <2>1, <4>1, RebuiltKeepsEvidence, RebuiltFields
      <4>3. Evidence(Checkpointed(Rebuilt(db))) = Evidence(db) /\ IsDatabase(Checkpointed(Rebuilt(db)))
        BY <4>2, CheckpointedFields, SameEvidence
      <4>4. Evidence(Versioned(Checkpointed(Rebuilt(db)), 8)) = Evidence(db)
        BY <4>3, VersionedFields, SameEvidence DEF Versions
      <4> QED BY <3>1, <3>2, <4>4 DEF Variance, Versioned
    <3>3. CASE ~rebuild[p]
      <4>1. Evidence(Versioned(db, 8)) = Evidence(db)
        BY <2>1, VersionedFields, SameEvidence DEF Versions
      <4> QED BY <3>1, <3>3, <4>1 DEF Variance, Versioned
    <3> QED BY <3>2, <3>3
  <2>11. CASE AppendGenesis(p)
    <3>1. db' = Versioned(Checkpointed(db), 5)
      BY <2>11 DEF AppendGenesis, Genesis, Versioned
    <3>2. Evidence(Checkpointed(db)) = Evidence(db) /\ IsDatabase(Checkpointed(db))
      BY <2>1, CheckpointedFields, SameEvidence
    <3>3. Evidence(Versioned(Checkpointed(db), 5)) = Evidence(db)
      BY <3>2, VersionedFields, SameEvidence DEF Versions
    <3> QED BY <3>1, <3>3
  <2> QED BY <1>1, <2>4, <2>5, <2>6, <2>7, <2>8, <2>9, <2>10, <2>11 DEF Opening
<1>2. ASSUME NEW p \in Processes, Crash(p)
      PROVE  Evidence(db') = Evidence(db)
  <2>1. db' = db
    BY <1>2 DEF Crash
  <2> QED BY <2>1
<1>3. ASSUME Inv, NEW p \in Processes, Opening(p), StaleRebuild(p)
      PROVE  Standing(db') = Standing(db)
  <2>1. IsDatabase(db) /\ pc[p] = "variance" /\ rebuild[p]
    BY <1>3 DEF Inv, SoundInv, Sound, StaleRebuild
  <2>2. Begin(p) \/ MigrateVariance(p)
    BY <1>3, <2>1
    DEF Opening, Start, CreateSchema, ReadCheck, MigrateStateConstraint, ReadPhaseFive,
        MigratePhaseFive, ReadPhaseSix, MigratePhaseSix, ReadVariance, ReadChain, ReadGenesis,
        AppendGenesis, RefuseGenesis, ReadCheckpoints, ReadTable, CompareRoot, Read
  <2>3. CASE Begin(p)
    <3>1. db' = db
      BY <2>3 DEF Begin
    <3> QED BY <3>1
  <2>4. CASE MigrateVariance(p)
    <3>1. db' = Versioned(Checkpointed(Rebuilt(db)), 8)
      BY <2>1, <2>4 DEF MigrateVariance, Commit, Variance, Versioned
    <3>2. IsDatabase(Rebuilt(db)) /\ IsDatabase(Checkpointed(Rebuilt(db)))
      BY <2>1, RebuiltFields, CheckpointedFields
    <3>3. Evidence(Checkpointed(Rebuilt(db))) = Evidence(Rebuilt(db))
      BY <3>2, CheckpointedFields, SameEvidence
    <3>4. Evidence(db') = Evidence(Rebuilt(db))
      BY <3>1, <3>2, <3>3, VersionedFields, SameEvidence DEF Versions
    <3>5. Standing(db') = Standing(Rebuilt(db))
      BY <3>4 DEF Standing
    <3> QED BY <2>1, <3>5, RebuiltKeepsStanding
  <2> QED BY <2>2, <2>3, <2>4
<1>4. ASSUME Inv, NEW p \in Processes, Opening(p), ~StaleRebuild(p)
      PROVE  Standing(db') = Standing(db)
  <2>1. Evidence(db') = Evidence(db)
    BY <1>1, <1>4
  <2> QED BY <2>1 DEF Standing
<1>5. Inv => [Quiet]_vars
  BY <1>1, <1>2, <1>3, <1>4
<1> QED BY <1>5, Invariance, PTL DEF OnlyStaleRebuildsLoseEvidence

=============================================================================
