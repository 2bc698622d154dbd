-------------------------- MODULE SettlementProofs --------------------------
(***************************************************************************)
(* Theorems of Settlement, for every set of transactions the chain admits, *)
(* every request and every limit: the decoder restores the transaction,    *)
(* and what is accepted was paid.                                          *)
(***************************************************************************)
EXTENDS Settlement, LeastNumber, SequenceTheorems

-----------------------------------------------------------------------------
(***************************************************************************)
(* The first check that fails.                                             *)
(***************************************************************************)

LEMMA LeastIsMember ==
  ASSUME NEW S, S \subseteq Nat, S # {}
  PROVE  Min(S) \in S
<1>1. \E n \in S : \A k \in S : n <= k
  BY LeastExists
<1> QED
  BY <1>1 DEF Min

\* Ruling answers the default exactly when no check fails, and otherwise the
\* verdict of a check that does.
LEMMA RulingOfChecks ==
  ASSUME NEW checks, DOMAIN checks \subseteq Nat, NEW default
  PROVE  \/ /\ Ruling(checks, default) = default
            /\ \A i \in DOMAIN checks : ~checks[i].fails
         \/ \E i \in DOMAIN checks :
              checks[i].fails /\ Ruling(checks, default) = checks[i].verdict
<1> DEFINE failed == {i \in DOMAIN checks : checks[i].fails}
<1>1. CASE failed = {}
  BY <1>1 DEF Ruling
<1>2. CASE failed # {}
  <2>1. Min(failed) \in failed
    <3>1. failed \subseteq Nat
      OBVIOUS
    <3> HIDE DEF failed
    <3> QED
      BY <1>2, <3>1, LeastIsMember
  <2>2. Ruling(checks, default) = checks[Min(failed)].verdict
    BY <1>2 DEF Ruling
  <2> QED
    BY <2>1, <2>2
<1> QED
  BY <1>1, <1>2

\* A candidate passed every check; what is skipped is not a transfer of the
\* classic program.
LEMMA RulingOfInstruction ==
  ASSUME NEW s, NEW ix
  PROVE  /\ InstructionRuling(s, ix) = "candidate" =>
              /\ KeyAt(s, ix.program) = ClassicToken
              /\ ix.op \notin {"malformed", "other"}
              /\ ~(Len(ix.accounts) < Required(ix))
              /\ AccountOf(s, ix, 1) # DestinationOf(s, ix)
              /\ None \notin {AccountOf(s, ix, 1), DestinationOf(s, ix)}
              /\ DestinationOf(s, ix) = MerchantAta
              /\ NamesReference(s, ix, TRUE)
         /\ InstructionRuling(s, ix) = "skipped" =>
              KeyAt(s, ix.program) # ClassicToken \/ ix.op = "other"
         /\ InstructionRuling(s, ix) # "malformed_evidence"
<1> DEFINE checks == Checks(s, ix)
<1>1. DOMAIN checks = 1..17
  BY DEF Checks
<1>2. \A i \in 1..17 : checks[i].verdict \notin {"candidate", "malformed_evidence"}
  BY SMTT(30) DEF Checks, Check
<1>3. \A i \in 1..17 : checks[i].verdict = "skipped" => i = 4 \/ i = 6
  BY DEF Checks, Check
<1>4. /\ checks[4].fails <=> KeyAt(s, ix.program) # ClassicToken
      /\ checks[5].fails <=> ix.op = "malformed"
      /\ checks[6].fails <=> ix.op = "other"
      /\ checks[8].fails <=>
           \/ Len(ix.accounts) < Required(ix)
           \/ None \in {AccountOf(s, ix, 1), DestinationOf(s, ix)}
      /\ checks[9].fails <=> AccountOf(s, ix, 1) = DestinationOf(s, ix)
      /\ checks[10].fails <=> DestinationOf(s, ix) # MerchantAta
      /\ checks[17].fails <=> ~NamesReference(s, ix, TRUE)
  BY DEF Checks, Check
<1> HIDE DEF checks
<1>5. \/ /\ Ruling(checks, "candidate") = "candidate"
         /\ \A i \in 1..17 : ~checks[i].fails
      \/ \E i \in 1..17 :
           checks[i].fails /\ Ruling(checks, "candidate") = checks[i].verdict
  BY <1>1, RulingOfChecks
<1>6. InstructionRuling(s, ix) = Ruling(checks, "candidate")
  BY DEF InstructionRuling, checks
<1>7. ASSUME InstructionRuling(s, ix) = "candidate"
      PROVE  \A i \in {4, 5, 6, 8, 9, 10, 17} : ~checks[i].fails
  BY <1>2, <1>5, <1>6, <1>7
<1>8. ASSUME InstructionRuling(s, ix) = "skipped"
      PROVE  checks[4].fails \/ checks[6].fails
  BY <1>3, <1>5, <1>6, <1>8
<1>9. InstructionRuling(s, ix) # "malformed_evidence"
  BY <1>2, <1>5, <1>6
<1> QED
  BY <1>4, <1>7, <1>8, <1>9

-----------------------------------------------------------------------------
(***************************************************************************)
(* The loop over the instructions.                                         *)
(***************************************************************************)

\* p is the only transfer the loop takes, and nothing stops it.
Sole(s, p) ==
  /\ p \in DOMAIN s.instructions
  /\ InstructionRuling(s, s.instructions[p]) = "candidate"
  /\ \A q \in DOMAIN s.instructions \ {p} :
       InstructionRuling(s, s.instructions[q]) = "skipped"

\* Once there is a sole candidate only its amount decides.
LEMMA SoleIsJudged ==
  ASSUME NEW s, DOMAIN s.instructions \subseteq Nat, NEW p, Sole(s, p), NEW n
  PROVE  LET m == s.instructions[p].amount IN
           Judge(s, n) = IF m > n \/ m = 0 THEN Rejected("wrong_amount")
                         ELSE IF m < n THEN Short(m, p) ELSE Exact(m, p)
<1> DEFINE ruling == [q \in DOMAIN s.instructions |->
                        InstructionRuling(s, s.instructions[q])]
           candidates == {q \in DOMAIN ruling : ruling[q] = "candidate"}
           errors == {q \in DOMAIN ruling : ruling[q] \notin {"candidate", "skipped"}}
<1>1. candidates = {p}
  BY DEF Sole
<1>2. errors = {}
  BY DEF Sole
<1>3. Repeats(candidates) = {}
  <2>1. p \in Nat
    BY DEF Sole
  <2>2. ~(p < p)
    BY <2>1
  <2> QED
    BY <1>1, <2>2 DEF Repeats
<1>4. (CHOOSE q \in candidates : TRUE) = p
  BY <1>1
<1>5. Repeats(candidates) \cup errors = {} /\ candidates # {}
  BY <1>1, <1>2, <1>3
<1>6. Judge(s, n) =
        LET c == CHOOSE q \in candidates : TRUE
            m == s.instructions[c].amount
        IN  IF m > n \/ m = 0 THEN Rejected("wrong_amount")
            ELSE IF m < n THEN Short(m, c) ELSE Exact(m, c)
  BY <1>5 DEF Judge
<1> HIDE DEF candidates
<1> QED
  BY <1>4, <1>6

\* Without a sole candidate nothing is accepted.
LEMMA AcceptedIsSole ==
  ASSUME NEW s, DOMAIN s.instructions \subseteq Nat, NEW n,
         Judge(s, n).kind # "rejected"
  PROVE  \E p : Sole(s, p)
<1> DEFINE ruling == [q \in DOMAIN s.instructions |->
                        InstructionRuling(s, s.instructions[q])]
           candidates == {q \in DOMAIN ruling : ruling[q] = "candidate"}
           errors == {q \in DOMAIN ruling : ruling[q] \notin {"candidate", "skipped"}}
           stops == Repeats(candidates) \cup errors
<1>1. \A verdict : Rejected(verdict).kind = "rejected"
  BY DEF Rejected
<1>2. stops = {}
  <2> DEFINE verdict == IF Min(stops) \in candidates
                        THEN "multiple_candidate_transfers"
                        ELSE ruling[Min(stops)]
  <2>1. stops # {} => Judge(s, n) = Rejected(verdict)
    BY DEF Judge
  <2> QED
    BY <1>1, <2>1, Zenon
<1>3. candidates # {}
  <2>1. candidates = {} => Judge(s, n) = Rejected("no_exact_transfer")
    BY <1>2 DEF Judge
  <2> QED
    BY <1>1, <2>1, Zenon
<1>4. PICK p \in candidates : TRUE
  BY <1>3
<1>5. ASSUME NEW q \in candidates
      PROVE  q = p
  <2>1. q \in Nat /\ p \in Nat
    OBVIOUS
  <2>2. ~(q < p) /\ ~(p < q)
    BY <1>2, <1>4, <1>5 DEF Repeats
  <2> QED
    BY <2>1, <2>2
<1>6. \A q \in DOMAIN s.instructions \ {p} : ruling[q] = "skipped"
  BY <1>2, <1>5
<1> QED
  BY <1>4, <1>6 DEF Sole

-----------------------------------------------------------------------------
(***************************************************************************)
(* The account list of a transaction and the decoded one.                  *)
(***************************************************************************)

\* xy is x, then y.
Joins(S, xy, x, y) ==
  /\ xy \in Seq(S)
  /\ Len(xy) = Len(x) + Len(y)
  /\ \A i \in 1..Len(x) : xy[i] = x[i]
  /\ \A i \in 1..Len(y) : xy[Len(x) + i] = y[i]

LEMMA TwoJoined ==
  ASSUME NEW S, NEW x \in Seq(S), NEW y \in Seq(S)
  PROVE  Joins(S, x \o y, x, y)
<1>1. x \o y \in Seq(S)
  OBVIOUS
<1>2. Len(x \o y) = Len(x) + Len(y)
  OBVIOUS
<1>3. \A i \in 1..Len(x) : (x \o y)[i] = x[i]
  OBVIOUS
<1>4. \A i \in 1..Len(y) : (x \o y)[Len(x) + i] = y[i]
  OBVIOUS
<1> QED
  BY <1>1, <1>2, <1>3, <1>4, Zenon DEF Joins

\* x stands in g after the first o elements.
StandsAt(g, x, o) == \A i \in 1..Len(x) : g[o + i] = x[i]

\* Where the parts of a sequence of six begin.
Sections(S, four, six, u, v, w, x, y, z) ==
  /\ four \in Seq(S)
  /\ Len(four) = Len(u) + Len(v) + Len(w) + Len(x)
  /\ six \in Seq(S)
  /\ Len(six) = Len(u) + Len(v) + Len(w) + Len(x) + Len(y) + Len(z)
  /\ \A i \in 1..Len(four) : six[i] = four[i]
  /\ StandsAt(six, u, 0)
  /\ StandsAt(six, v, Len(u))
  /\ StandsAt(six, w, Len(u) + Len(v))
  /\ StandsAt(six, x, Len(u) + Len(v) + Len(w))
  /\ StandsAt(six, y, Len(u) + Len(v) + Len(w) + Len(x))
  /\ StandsAt(six, z, Len(u) + Len(v) + Len(w) + Len(x) + Len(y))

LEMMA SixJoined ==
  ASSUME NEW S,
         NEW u \in Seq(S), NEW v \in Seq(S), NEW w \in Seq(S),
         NEW x \in Seq(S), NEW y \in Seq(S), NEW z \in Seq(S)
  PROVE  Sections(S, u \o v \o w \o x, u \o v \o w \o x \o y \o z,
                  u, v, w, x, y, z)
<1> DEFINE a == Len(u)
           b == Len(v)
           c == Len(w)
           d == Len(x)
           e == Len(y)
           f == Len(z)
<1>0. a \in Nat /\ b \in Nat /\ c \in Nat /\ d \in Nat /\ e \in Nat /\ f \in Nat
  OBVIOUS
<1> DEFINE two == u \o v
           three == two \o w
           four == three \o x
           five == four \o y
           six == five \o z
<1> HIDE DEF two, three, four, five, six, a, b, c, d, e, f
<1>1. /\ two \in Seq(S)
      /\ Len(two) = a + b
      /\ \A i \in 1..(a) : two[i] = u[i]
      /\ \A i \in 1..b : two[a + i] = v[i]
  <2>1. u \in Seq(S) /\ Len(u) = a /\ Len(v) = b
    BY DEF a, b
  <2>2. Joins(S, two, u, v)
    BY <2>1, TwoJoined DEF two
  <2> QED
    BY <2>1, <2>2, Zenon DEF Joins
<1>2. /\ three \in Seq(S)
      /\ Len(three) = a + b + c
      /\ \A i \in 1..(a + b) : three[i] = two[i]
      /\ \A i \in 1..c : three[a + b + i] = w[i]
  <2>1. two \in Seq(S) /\ Len(two) = a + b /\ Len(w) = c
    BY <1>1 DEF c
  <2>2. Joins(S, three, two, w)
    BY <2>1, TwoJoined DEF three
  <2> QED
    BY <2>1, <2>2, Zenon DEF Joins
<1>3. /\ four \in Seq(S)
      /\ Len(four) = a + b + c + d
      /\ \A i \in 1..(a + b + c) : four[i] = three[i]
      /\ \A i \in 1..d : four[a + b + c + i] = x[i]
  <2>1. three \in Seq(S) /\ Len(three) = a + b + c /\ Len(x) = d
    BY <1>2 DEF d
  <2>2. Joins(S, four, three, x)
    BY <2>1, TwoJoined DEF four
  <2> QED
    BY <2>1, <2>2, Zenon DEF Joins
<1>4. /\ five \in Seq(S)
      /\ Len(five) = a + b + c + d + e
      /\ \A i \in 1..(a + b + c + d) : five[i] = four[i]
      /\ \A i \in 1..e : five[a + b + c + d + i] = y[i]
  <2>1. four \in Seq(S) /\ Len(four) = a + b + c + d /\ Len(y) = e
    BY <1>3 DEF e
  <2>2. Joins(S, five, four, y)
    BY <2>1, TwoJoined DEF five
  <2> QED
    BY <2>1, <2>2, Zenon DEF Joins
<1>5. /\ six \in Seq(S)
      /\ Len(six) = a + b + c + d + e + f
      /\ \A i \in 1..(a + b + c + d + e) : six[i] = five[i]
      /\ \A i \in 1..f : six[a + b + c + d + e + i] = z[i]
  <2>1. five \in Seq(S) /\ Len(five) = a + b + c + d + e /\ Len(z) = f
    BY <1>4 DEF f
  <2>2. Joins(S, six, five, z)
    BY <2>1, TwoJoined DEF six
  <2> QED
    BY <2>1, <2>2, Zenon DEF Joins
<1>6. \A i \in 1..(a + b + c + d) : six[i] = four[i]
  BY <1>0, <1>4, <1>5
<1>7. \A i \in 1..(a + b + c) : six[i] = three[i]
  BY <1>0, <1>3, <1>6
<1>8. \A i \in 1..(a + b) : six[i] = two[i]
  BY <1>0, <1>2, <1>7
<1>9. \A i \in 1..a : six[i] = u[i]
  BY <1>0, <1>1, <1>8
<1>10. ASSUME NEW i \in 1..b
       PROVE  six[a + i] = v[i]
  <2>1. a + i \in 1..(a + b)
    BY <1>0
  <2> QED
    BY <1>1, <1>8, <2>1
<1>11. ASSUME NEW i \in 1..c
       PROVE  six[a + b + i] = w[i]
  <2>1. a + b + i \in 1..(a + b + c)
    BY <1>0
  <2> QED
    BY <1>2, <1>7, <2>1
<1>12. \A i \in 1..d : six[a + b + c + i] = x[i]
  BY <1>0, <1>3, <1>6
<1>13. \A i \in 1..e : six[a + b + c + d + i] = y[i]
  BY <1>0, <1>4, <1>5
<1>14. \A i \in 1..a : six[0 + i] = u[i]
  BY <1>0, <1>9
<1>15. /\ StandsAt(six, u, 0)
       /\ StandsAt(six, v, a)
       /\ StandsAt(six, w, a + b)
       /\ StandsAt(six, x, a + b + c)
       /\ StandsAt(six, y, a + b + c + d)
       /\ StandsAt(six, z, a + b + c + d + e)
  BY <1>5, <1>10, <1>11, <1>12, <1>13, <1>14, Zenon
  DEF StandsAt, a, b, c, d, e, f
<1>16. Sections(S, four, six, u, v, w, x, y, z)
  BY <1>3, <1>5, <1>6, <1>15, Zenon DEF Sections, a, b, c, d, e, f
<1> QED
  BY <1>16, Zenon DEF two, three, four, five, six

Distinct(g, n) == \A i, j \in 1..n : g[i] = g[j] => i = j

\* The keys of x are those at positions o + 1 to o + Len(x) of g.
Occupies(g, n, x, o) ==
  \A i \in 1..n : g[i] \in KeysIn(x) <=> o < i /\ i <= o + Len(x)

\* A section of a list without repetitions holds exactly the keys that stand
\* there.
LEMMA InSection ==
  ASSUME NEW n \in Nat, NEW g, Distinct(g, n),
         NEW S, NEW x \in Seq(S), NEW o \in Nat, o + Len(x) <= n,
         StandsAt(g, x, o)
  PROVE  Occupies(g, n, x, o)
<1> SUFFICES ASSUME NEW i \in 1..n
             PROVE  g[i] \in KeysIn(x) <=> o < i /\ i <= o + Len(x)
  BY DEF Occupies
<1> DEFINE m == Len(x)
<1>1. m \in Nat /\ DOMAIN x = 1..m
  OBVIOUS
<1>2. o + m <= n /\ \A j \in 1..m : g[o + j] = x[j]
  BY DEF StandsAt
<1> HIDE DEF m
<1>3. ASSUME g[i] \in KeysIn(x)
      PROVE  o < i /\ i <= o + m
  <2>1. PICK j \in 1..m : g[i] = x[j]
    BY <1>1, <1>3 DEF KeysIn
  <2>2. o + j \in 1..n /\ g[o + j] = x[j]
    BY <1>1, <1>2
  <2>3. i = o + j
    BY <2>1, <2>2 DEF Distinct
  <2> QED
    BY <1>1, <2>3
<1>4. ASSUME o < i, i <= o + m
      PROVE  g[i] \in KeysIn(x)
  <2>1. i - o \in 1..m /\ o + (i - o) = i
    BY <1>1, <1>4
  <2>2. g[i] = x[i - o]
    BY <1>2, <2>1
  <2> QED
    BY <1>1, <2>1, <2>2 DEF KeysIn
<1> QED
  BY <1>3, <1>4 DEF m

LEMMA KeysInJoined ==
  ASSUME NEW S, NEW x \in Seq(S), NEW y \in Seq(S)
  PROVE  KeysIn(x \o y) = KeysIn(x) \cup KeysIn(y)
<1> DEFINE m == Len(x)
           n == Len(y)
           xy == x \o y
<1>1. /\ m \in Nat /\ n \in Nat
      /\ DOMAIN x = 1..m /\ DOMAIN y = 1..n
  OBVIOUS
<1>2. Joins(S, xy, x, y)
  BY TwoJoined
<1>3. /\ DOMAIN xy = 1..(m + n)
      /\ \A i \in 1..m : xy[i] = x[i]
      /\ \A i \in 1..n : xy[m + i] = y[i]
  BY <1>2 DEF Joins
<1> HIDE DEF m, n, xy
<1>4. KeysIn(xy) \subseteq KeysIn(x) \cup KeysIn(y)
  <2> SUFFICES ASSUME NEW i \in 1..(m + n)
               PROVE  xy[i] \in KeysIn(x) \cup KeysIn(y)
    BY <1>3 DEF KeysIn
  <2>1. CASE i <= m
    BY <1>1, <1>3, <2>1 DEF KeysIn
  <2>2. CASE ~(i <= m)
    <3>1. i - m \in 1..n /\ m + (i - m) = i
      BY <1>1, <2>2
    <3>2. xy[i] = y[i - m]
      BY <1>3, <3>1
    <3> QED
      BY <1>1, <3>1, <3>2 DEF KeysIn
  <2> QED
    BY <2>1, <2>2
<1>5. KeysIn(x) \subseteq KeysIn(xy)
  BY <1>1, <1>3 DEF KeysIn
<1>6. KeysIn(y) \subseteq KeysIn(xy)
  <2> SUFFICES ASSUME NEW i \in 1..n
               PROVE  y[i] \in KeysIn(xy)
    BY <1>1 DEF KeysIn
  <2>1. m + i \in 1..(m + n)
    BY <1>1
  <2> QED
    BY <1>3, <2>1 DEF KeysIn
<1> QED
  BY <1>4, <1>5, <1>6 DEF xy

\* The end of each section of the account list of t.
End1(t) == Len(t.writableSigners)
End2(t) == End1(t) + Len(t.readonlySigners)
End3(t) == End2(t) + Len(t.writable)
End4(t) == End3(t) + Len(t.readonly)
End5(t) == End4(t) + Len(t.loadedWritable)
End6(t) == End5(t) + Len(t.loadedReadonly)

\* Where the keys of t stand.
Positioned(t) ==
  /\ AllKeys(t) \in Seq(Keys) /\ Len(AllKeys(t)) = End6(t)
  /\ StaticKeys(t) \in Seq(Keys) /\ Len(StaticKeys(t)) = End4(t)
  /\ \A i \in 1..End4(t) : StaticKeys(t)[i] = AllKeys(t)[i]
  /\ \A i \in 1..Len(t.loadedWritable) :
       AllKeys(t)[End4(t) + i] = t.loadedWritable[i]
  /\ \A i \in 1..Len(t.loadedReadonly) :
       AllKeys(t)[End5(t) + i] = t.loadedReadonly[i]

Signs(t, k) == k \in KeysIn(t.writableSigners \o t.readonlySigners)

Writes(t, k) ==
  k \in KeysIn(t.writableSigners \o t.writable \o t.loadedWritable)

LEMMA EndsAreNumbers ==
  ASSUME NEW t, IsTransaction(t)
  PROVE  /\ End1(t) \in Nat /\ End2(t) \in Nat /\ End3(t) \in Nat
         /\ End4(t) \in Nat /\ End5(t) \in Nat /\ End6(t) \in Nat
         /\ End1(t) <= End2(t) /\ End2(t) <= End3(t) /\ End3(t) <= End4(t)
         /\ End4(t) <= End5(t) /\ End5(t) <= End6(t)
         /\ End2(t) - End1(t) = Len(t.readonlySigners)
         /\ End4(t) - End3(t) = Len(t.readonly)
         /\ Len(t.writableSigners \o t.readonlySigners) = End2(t)
<1>1. /\ t.writableSigners \in Seq(Keys) /\ t.readonlySigners \in Seq(Keys)
      /\ t.writable \in Seq(Keys) /\ t.readonly \in Seq(Keys)
      /\ t.loadedWritable \in Seq(Keys) /\ t.loadedReadonly \in Seq(Keys)
  BY DEF IsTransaction
<1> DEFINE a == Len(t.writableSigners)
           b == Len(t.readonlySigners)
           c == Len(t.writable)
           d == Len(t.readonly)
           e == Len(t.loadedWritable)
           f == Len(t.loadedReadonly)
<1>2. a \in Nat /\ b \in Nat /\ c \in Nat /\ d \in Nat /\ e \in Nat /\ f \in Nat
  BY <1>1
<1>3. Len(t.writableSigners \o t.readonlySigners) = a + b
  BY <1>1
<1>4. /\ End1(t) = a /\ End2(t) = a + b /\ End3(t) = a + b + c
      /\ End4(t) = a + b + c + d /\ End5(t) = a + b + c + d + e
      /\ End6(t) = a + b + c + d + e + f
  BY DEF End1, End2, End3, End4, End5, End6
<1> HIDE DEF a, b, c, d, e, f
<1>5. /\ End1(t) \in Nat /\ End2(t) \in Nat /\ End3(t) \in Nat
      /\ End4(t) \in Nat /\ End5(t) \in Nat /\ End6(t) \in Nat
      /\ End1(t) <= End2(t) /\ End2(t) <= End3(t) /\ End3(t) <= End4(t)
      /\ End4(t) <= End5(t) /\ End5(t) <= End6(t)
      /\ End2(t) - End1(t) = b
      /\ End4(t) - End3(t) = d
  BY <1>2, <1>4
<1> QED
  BY <1>3, <1>4, <1>5 DEF b, d

\* The six sections tell who signs, who is writable and who is inert.
LEMMA RolesByPosition ==
  ASSUME NEW t, IsTransaction(t)
  PROVE  /\ Positioned(t)
         /\ \A i \in 1..End6(t) :
              LET k == AllKeys(t)[i] IN
                /\ Signs(t, k) <=> i <= End2(t)
                /\ Writes(t, k) <=> \/ i <= End1(t)
                                    \/ End2(t) < i /\ i <= End3(t)
                                    \/ End4(t) < i /\ i <= End5(t)
                /\ k \in Inert(t) <=> \/ End3(t) < i /\ i <= End4(t)
                                      \/ End5(t) < i
<1> DEFINE u == t.writableSigners
           v == t.readonlySigners
           w == t.writable
           x == t.readonly
           y == t.loadedWritable
           z == t.loadedReadonly
           g == AllKeys(t)
<1>1. /\ u \in Seq(Keys) /\ v \in Seq(Keys) /\ w \in Seq(Keys)
      /\ x \in Seq(Keys) /\ y \in Seq(Keys) /\ z \in Seq(Keys)
      /\ \A i, j \in DOMAIN g : g[i] = g[j] => i = j
  BY DEF IsTransaction
<1>2. g = u \o v \o w \o x \o y \o z /\ StaticKeys(t) = u \o v \o w \o x
  BY DEF AllKeys, StaticKeys
<1>3. /\ Len(u) \in Nat /\ Len(v) \in Nat /\ Len(w) \in Nat
      /\ Len(x) \in Nat /\ Len(y) \in Nat /\ Len(z) \in Nat
  BY <1>1
<1>4. /\ End1(t) = Len(u) /\ End2(t) = Len(u) + Len(v)
      /\ End3(t) = Len(u) + Len(v) + Len(w)
      /\ End4(t) = Len(u) + Len(v) + Len(w) + Len(x)
      /\ End5(t) = Len(u) + Len(v) + Len(w) + Len(x) + Len(y)
      /\ End6(t) = Len(u) + Len(v) + Len(w) + Len(x) + Len(y) + Len(z)
  BY DEF End1, End2, End3, End4, End5, End6
<1> HIDE DEF u, v, w, x, y, z, g
<1>5. Sections(Keys, u \o v \o w \o x, g, u, v, w, x, y, z)
  BY <1>1, <1>2, SixJoined
<1>6. /\ StaticKeys(t) \in Seq(Keys) /\ Len(StaticKeys(t)) = End4(t)
      /\ g \in Seq(Keys) /\ Len(g) = End6(t)
      /\ \A i \in 1..End4(t) : StaticKeys(t)[i] = g[i]
      /\ StandsAt(g, u, 0)
      /\ StandsAt(g, v, End1(t))
      /\ StandsAt(g, w, End2(t))
      /\ StandsAt(g, x, End3(t))
      /\ StandsAt(g, y, End4(t))
      /\ StandsAt(g, z, End5(t))
  BY <1>2, <1>4, <1>5, Zenon DEF Sections
<1>7. Positioned(t)
  BY <1>6, Zenon DEF Positioned, StandsAt, g, y, z
<1>8. Distinct(g, End6(t))
  <2>1. DOMAIN g = 1..End6(t)
    BY <1>6
  <2> QED
    BY <1>1, <2>1 DEF Distinct
<1>9. /\ End1(t) = 0 + Len(u)
      /\ End2(t) = End1(t) + Len(v)
      /\ End3(t) = End2(t) + Len(w)
      /\ End4(t) = End3(t) + Len(x)
      /\ End5(t) = End4(t) + Len(y)
      /\ End6(t) = End5(t) + Len(z)
  BY <1>3, <1>4
<1>10. /\ 0 \in Nat
       /\ End1(t) \in Nat /\ End1(t) <= End6(t)
       /\ End2(t) \in Nat /\ End2(t) <= End6(t)
       /\ End3(t) \in Nat /\ End3(t) <= End6(t)
       /\ End4(t) \in Nat /\ End4(t) <= End6(t)
       /\ End5(t) \in Nat /\ End5(t) <= End6(t)
       /\ End6(t) \in Nat /\ End6(t) <= End6(t)
  BY <1>3, <1>4
<1>11. /\ Occupies(g, End6(t), u, 0)
       /\ Occupies(g, End6(t), v, End1(t))
       /\ Occupies(g, End6(t), w, End2(t))
       /\ Occupies(g, End6(t), x, End3(t))
       /\ Occupies(g, End6(t), y, End4(t))
       /\ Occupies(g, End6(t), z, End5(t))
  BY <1>1, <1>6, <1>8, <1>9, <1>10, InSection
<1>12. ASSUME NEW i \in 1..End6(t)
       PROVE  /\ g[i] \in KeysIn(u) <=> i <= End1(t)
              /\ g[i] \in KeysIn(v) <=> End1(t) < i /\ i <= End2(t)
              /\ g[i] \in KeysIn(w) <=> End2(t) < i /\ i <= End3(t)
              /\ g[i] \in KeysIn(x) <=> End3(t) < i /\ i <= End4(t)
              /\ g[i] \in KeysIn(y) <=> End4(t) < i /\ i <= End5(t)
              /\ g[i] \in KeysIn(z) <=> End5(t) < i
  <2>1. /\ g[i] \in KeysIn(u) <=> 0 < i /\ i <= End1(t)
        /\ g[i] \in KeysIn(v) <=> End1(t) < i /\ i <= End2(t)
        /\ g[i] \in KeysIn(w) <=> End2(t) < i /\ i <= End3(t)
        /\ g[i] \in KeysIn(x) <=> End3(t) < i /\ i <= End4(t)
        /\ g[i] \in KeysIn(y) <=> End4(t) < i /\ i <= End5(t)
        /\ g[i] \in KeysIn(z) <=> End5(t) < i /\ i <= End6(t)
    BY <1>9, <1>11, Zenon DEF Occupies
  <2>2. 0 < i /\ i <= End6(t)
    BY <1>10
  <2> QED
    BY <2>1, <2>2
<1> DEFINE uw == u \o w
<1>13. uw \in Seq(Keys)
  BY <1>1
<1>14. KeysIn(u \o v) = KeysIn(u) \cup KeysIn(v)
  BY <1>1, KeysInJoined
<1>15. KeysIn(x \o z) = KeysIn(x) \cup KeysIn(z)
  BY <1>1, KeysInJoined
<1>16. KeysIn(uw) = KeysIn(u) \cup KeysIn(w)
  BY <1>1, KeysInJoined
<1> HIDE DEF uw
<1>17. KeysIn(uw \o y) = KeysIn(uw) \cup KeysIn(y)
  BY <1>1, <1>13, KeysInJoined
<1>19. \A k : Writes(t, k) <=> k \in KeysIn(uw \o y)
  BY Zenon DEF Writes, uw, u, w, y
<1>18. ASSUME NEW i \in 1..End6(t)
      PROVE  /\ Signs(t, g[i]) <=> i <= End2(t)
             /\ Writes(t, g[i]) <=> \/ i <= End1(t)
                                    \/ End2(t) < i /\ i <= End3(t)
                                    \/ End4(t) < i /\ i <= End5(t)
             /\ g[i] \in Inert(t) <=> \/ End3(t) < i /\ i <= End4(t)
                                      \/ End5(t) < i
  <2>1. End1(t) \in Nat /\ End2(t) \in Nat /\ End1(t) <= End2(t)
    BY <1>3, <1>9, <1>10
  <2>2. Signs(t, g[i]) <=> g[i] \in KeysIn(u) \/ g[i] \in KeysIn(v)
    BY <1>14 DEF Signs, u, v
  <2>3. Signs(t, g[i]) <=> i <= End2(t)
    BY <1>12, <2>1, <2>2
  <2>4. Writes(t, g[i]) <=> \/ g[i] \in KeysIn(u)
                            \/ g[i] \in KeysIn(w)
                            \/ g[i] \in KeysIn(y)
    BY <1>16, <1>17, <1>19
  <2>5. Writes(t, g[i]) <=> \/ i <= End1(t)
                            \/ End2(t) < i /\ i <= End3(t)
                            \/ End4(t) < i /\ i <= End5(t)
    BY <1>12, <2>4
  <2>6. g[i] \in Inert(t) <=> g[i] \in KeysIn(x) \/ g[i] \in KeysIn(z)
    BY <1>15 DEF Inert, x, z
  <2>7. g[i] \in Inert(t) <=> \/ End3(t) < i /\ i <= End4(t)
                              \/ End5(t) < i
    BY <1>12, <2>6
  <2> QED
    BY <2>3, <2>5, <2>7
<1> QED
  BY <1>7, <1>18 DEF g

-----------------------------------------------------------------------------
(***************************************************************************)
(* What the decoder makes of an answer.                                    *)
(***************************************************************************)

\* accounts lists the keys of t, each with the role the chain gave it.
Mirrors(accounts, t) ==
  /\ Len(accounts) = End6(t)
  /\ DOMAIN accounts = 1..End6(t)
  /\ \A i \in 1..End6(t) :
       /\ accounts[i].key = AllKeys(t)[i]
       /\ accounts[i].signer <=> Signs(t, AllKeys(t)[i])
       /\ accounts[i].writable <=> Writes(t, AllKeys(t)[i])

\* An answer whose tables are not those of the transaction is not decoded.
LEMMA TablesAreWhole ==
  ASSUME NEW t, IsTransaction(t), NEW fault, TablesResolved(Answer(t, fault))
  PROVE  /\ Answer(t, fault).loadedWritable = t.loadedWritable
         /\ Answer(t, fault).loadedReadonly = t.loadedReadonly
<1> DEFINE r == Answer(t, fault)
           y == t.loadedWritable
           z == t.loadedReadonly
<1>1. /\ y \in Seq(Keys) /\ z \in Seq(Keys)
      /\ t.version \in {"legacy", "v0"}
      /\ t.version = "legacy" => y \o z = <<>>
  BY DEF IsTransaction
<1>2. /\ r.version = t.version
      /\ r.lookups = <<Len(y), Len(z)>>
      /\ r.loadedWritable = IF fault = "tables_missing" THEN <<>>
                            ELSE IF fault = "tables_unasked" THEN y \o <<Reference>>
                            ELSE y
      /\ r.loadedReadonly = IF fault = "tables_missing" THEN <<>> ELSE z
  BY DEF Answer
<1>3. /\ t.version = "legacy" => r.loadedWritable = <<>> /\ r.loadedReadonly = <<>>
      /\ t.version = "v0" => /\ Len(r.loadedWritable) = Len(y)
                             /\ Len(r.loadedReadonly) = Len(z)
  BY <1>2 DEF TablesResolved
<1> HIDE DEF r, y, z
<1>4. Reference \in Keys
  BY SettlementAssumption
<1>5. Len(y \o <<Reference>>) # Len(y)
  BY <1>1, <1>4
<1>6. Len(y) = 0 => y = <<>>
  BY <1>1
<1>7. Len(z) = 0 => z = <<>>
  BY <1>1
<1>8. Len(<<>>) = 0
  OBVIOUS
<1>9. CASE t.version = "v0"
  BY <1>2, <1>3, <1>5, <1>6, <1>7, <1>8, <1>9 DEF r, y, z
<1>10. CASE t.version = "legacy"
  <2>1. y = <<>> /\ z = <<>>
    BY <1>1, <1>10
  <2> QED
    BY <1>3, <1>10, <2>1 DEF r, y, z
<1> QED
  BY <1>1, <1>9, <1>10

Role == [key : Keys, signer : BOOLEAN, writable : BOOLEAN]

\* The counts of the header give every key its role.
LEMMA AccountsMirror ==
  ASSUME NEW t, IsTransaction(t), NEW fault, TablesResolved(Answer(t, fault))
  PROVE  Mirrors(Accounts(Answer(t, fault)), t)
<1> DEFINE r == Answer(t, fault)
           static == [i \in 1..Len(r.keys) |-> StaticAccount(r, i - 1)]
           y == Loaded(r.loadedWritable, TRUE)
           z == Loaded(r.loadedReadonly, FALSE)
           g == AllKeys(t)
           n1 == End1(t)
           n2 == End2(t)
           n3 == End3(t)
           n4 == End4(t)
           n5 == End5(t)
           n6 == End6(t)
<1>1. /\ r.loadedWritable = t.loadedWritable
      /\ r.loadedReadonly = t.loadedReadonly
  BY TablesAreWhole
<1>2. /\ n1 \in Nat /\ n2 \in Nat /\ n3 \in Nat
      /\ n4 \in Nat /\ n5 \in Nat /\ n6 \in Nat
      /\ n1 <= n2 /\ n2 <= n3 /\ n3 <= n4 /\ n4 <= n5 /\ n5 <= n6
      /\ n2 - n1 = Len(t.readonlySigners)
      /\ n4 - n3 = Len(t.readonly)
      /\ Len(t.writableSigners \o t.readonlySigners) = n2
  BY EndsAreNumbers
<1>3. /\ r.keys = StaticKeys(t) /\ r.required = n2
      /\ r.readonlySigned = n2 - n1 /\ r.readonlyUnsigned = n4 - n3
  BY <1>2 DEF Answer
<1>4. /\ Positioned(t)
      /\ \A i \in 1..n6 :
           /\ Signs(t, g[i]) <=> i <= n2
           /\ Writes(t, g[i]) <=> \/ i <= n1
                                  \/ n2 < i /\ i <= n3
                                  \/ n4 < i /\ i <= n5
  BY RolesByPosition
<1>5. /\ Len(r.keys) = n4
      /\ \A i \in 1..n4 : r.keys[i] = g[i] /\ g[i] \in Keys
  BY <1>2, <1>3, <1>4 DEF Positioned
<1>6. /\ Len(t.loadedWritable) = n5 - n4 /\ Len(t.loadedReadonly) = n6 - n5
      /\ t.loadedWritable \in Seq(Keys) /\ t.loadedReadonly \in Seq(Keys)
  <2>1. t.loadedWritable \in Seq(Keys) /\ t.loadedReadonly \in Seq(Keys)
    BY DEF IsTransaction
  <2>2. Len(t.loadedWritable) \in Nat /\ Len(t.loadedReadonly) \in Nat
    BY <2>1
  <2>3. n5 = n4 + Len(t.loadedWritable) /\ n6 = n5 + Len(t.loadedReadonly)
    BY DEF End5, End6
  <2> HIDE DEF n4, n5, n6
  <2> QED
    BY <1>2, <2>1, <2>2, <2>3
<1>7. /\ DOMAIN t.loadedWritable = 1..(n5 - n4)
      /\ \A i \in 1..(n5 - n4) :
           t.loadedWritable[i] = g[n4 + i] /\ g[n4 + i] \in Keys
  <2> DEFINE a == t.loadedWritable
  <2>1. /\ g \in Seq(Keys) /\ Len(g) = n6
        /\ \A i \in 1..Len(a) : g[n4 + i] = a[i]
    BY <1>4 DEF Positioned
  <2>2. a \in Seq(Keys) /\ Len(a) = n5 - n4
    BY <1>6
  <2> HIDE DEF a, g, n1, n2, n3, n4, n5, n6
  <2>3. DOMAIN a = 1..(n5 - n4)
    BY <2>2
  <2>4. ASSUME NEW i \in 1..(n5 - n4)
        PROVE  a[i] = g[n4 + i] /\ g[n4 + i] \in Keys
    <3>1. n4 + i \in 1..n6
      BY <1>2
    <3>2. g[n4 + i] \in Keys
      BY <2>1, <3>1
    <3> QED
      BY <2>1, <2>2, <3>2
  <2> QED
    BY <2>3, <2>4 DEF a
<1>8. /\ DOMAIN t.loadedReadonly = 1..(n6 - n5)
      /\ \A i \in 1..(n6 - n5) :
           t.loadedReadonly[i] = g[n5 + i] /\ g[n5 + i] \in Keys
  <2> DEFINE a == t.loadedReadonly
  <2>1. /\ g \in Seq(Keys) /\ Len(g) = n6
        /\ \A i \in 1..Len(a) : g[n5 + i] = a[i]
    BY <1>4 DEF Positioned
  <2>2. a \in Seq(Keys) /\ Len(a) = n6 - n5
    BY <1>6
  <2> HIDE DEF a, g, n1, n2, n3, n4, n5, n6
  <2>3. DOMAIN a = 1..(n6 - n5)
    BY <2>2
  <2>4. ASSUME NEW i \in 1..(n6 - n5)
        PROVE  a[i] = g[n5 + i] /\ g[n5 + i] \in Keys
    <3>1. n5 + i \in 1..n6
      BY <1>2
    <3>2. g[n5 + i] \in Keys
      BY <2>1, <3>1
    <3> QED
      BY <2>1, <2>2, <3>2
  <2> QED
    BY <2>3, <2>4 DEF a
<1> HIDE DEF r, g, n1, n2, n3, n4, n5, n6
<1>9. ASSUME NEW i \in 1..n4
      PROVE  /\ static[i] \in Role
             /\ static[i].key = g[i]
             /\ static[i].signer <=> i <= n2
             /\ static[i].writable <=> i <= n1 \/ (n2 < i /\ i <= n3)
  <2>1. static[i] = StaticAccount(r, i - 1) /\ (i - 1) + 1 = i
    BY <1>2, <1>5
  <2>2. /\ i - 1 < r.required <=> i <= n2
        /\ i - 1 < r.required - r.readonlySigned <=> i <= n1
        /\ i - 1 >= r.required <=> n2 < i
        /\ i - 1 < Len(r.keys) - r.readonlyUnsigned <=> i <= n3
    BY <1>2, <1>3, <1>5
  <2>3. r.keys[(i - 1) + 1] = g[i] /\ g[i] \in Keys
    BY <1>5, <2>1
  <2> HIDE DEF static
  <2>4. /\ static[i].key = g[i]
        /\ static[i].signer <=> i <= n2
        /\ static[i].writable <=> i <= n1 \/ (n2 < i /\ i <= n3)
    <3> DEFINE signer == i - 1 < r.required
               writable ==
                 \/ i - 1 < r.required - r.readonlySigned
                 \/ i - 1 >= r.required /\ i - 1 < Len(r.keys) - r.readonlyUnsigned
    <3>1. static[i] = [key |-> r.keys[(i - 1) + 1], signer |-> signer,
                       writable |-> writable]
      BY <2>1, Zenon DEF StaticAccount
    <3> HIDE DEF signer, writable
    <3>2. /\ static[i].key = r.keys[(i - 1) + 1]
          /\ static[i].signer = signer
          /\ static[i].writable = writable
      BY <3>1
    <3> QED
      BY <2>2, <2>3, <3>2, Zenon DEF signer, writable
  <2>5. static[i] \in Role
    BY <2>1, <2>3 DEF StaticAccount, Role
  <2> QED
    BY <2>4, <2>5
<1>10. static \in Seq(Role) /\ Len(static) = n4
  <2>1. static \in [1..n4 -> Role]
    BY <1>5, <1>9
  <2> HIDE DEF static
  <2> QED
    BY <1>2, <2>1
<1>11. ASSUME NEW i \in 1..(n5 - n4)
       PROVE  y[i] = [key |-> g[n4 + i], signer |-> FALSE, writable |-> TRUE]
  BY <1>1, <1>7 DEF Loaded
<1>12. y \in Seq(Role) /\ Len(y) = n5 - n4
  BY <1>1, <1>2, <1>6, <1>7 DEF Loaded, Role
<1>13. ASSUME NEW i \in 1..(n6 - n5)
       PROVE  z[i] = [key |-> g[n5 + i], signer |-> FALSE, writable |-> FALSE]
  BY <1>1, <1>8 DEF Loaded
<1>14. z \in Seq(Role) /\ Len(z) = n6 - n5
  BY <1>1, <1>2, <1>6, <1>8 DEF Loaded, Role
<1> HIDE DEF static, y, z
<1> DEFINE both == static \o y
           all == both \o z
<1>15. Joins(Role, both, static, y)
  BY <1>10, <1>12, TwoJoined
<1>16. both \in Seq(Role) /\ Len(both) = n5
  BY <1>2, <1>10, <1>12, <1>15 DEF Joins
<1> HIDE DEF both
<1>17. Joins(Role, all, both, z)
  BY <1>14, <1>16, TwoJoined
<1>18. Accounts(r) = all
  BY DEF Accounts, all, both, static, y, z
<1> HIDE DEF all
<1>19. Len(all) = n6 /\ DOMAIN all = 1..n6
  BY <1>2, <1>14, <1>16, <1>17 DEF Joins
<1>20. ASSUME NEW i \in 1..n6
       PROVE  /\ all[i].key = g[i]
              /\ all[i].signer <=> i <= n2
              /\ all[i].writable <=> \/ i <= n1
                                     \/ n2 < i /\ i <= n3
                                     \/ n4 < i /\ i <= n5
  <2>1. CASE i <= n4
    <3>1. i \in 1..n4 /\ i \in 1..n5 /\ ~(n4 < i)
      BY <1>2, <2>1
    <3>2. all[i] = both[i]
      BY <1>16, <1>17, <3>1 DEF Joins
    <3>3. both[i] = static[i]
      BY <1>10, <1>15, <3>1 DEF Joins
    <3> QED
      BY <1>9, <3>1, <3>2, <3>3
  <2>2. CASE n4 < i /\ i <= n5
    <3>1. /\ i - n4 \in 1..(n5 - n4) /\ n4 + (i - n4) = i /\ i \in 1..n5
          /\ ~(i <= n2)
      BY <1>2, <2>2
    <3>2. all[i] = both[i]
      BY <1>16, <1>17, <3>1 DEF Joins
    <3>3. both[i] = y[i - n4]
      BY <1>10, <1>12, <1>15, <3>1 DEF Joins
    <3>4. all[i] = [key |-> g[i], signer |-> FALSE, writable |-> TRUE]
      BY <1>11, <3>1, <3>2, <3>3
    <3>5. all[i].key = g[i] /\ all[i].signer = FALSE /\ all[i].writable = TRUE
      BY <3>4
    <3> QED
      BY <2>2, <3>1, <3>5, Zenon
  <2>3. CASE n5 < i
    <3>1. /\ i - n5 \in 1..(n6 - n5) /\ n5 + (i - n5) = i
          /\ ~(i <= n1) /\ ~(i <= n2) /\ ~(i <= n3) /\ ~(i <= n5)
      BY <1>2, <2>3
    <3>2. all[i] = z[i - n5]
      BY <1>14, <1>16, <1>17, <3>1 DEF Joins
    <3>3. all[i] = [key |-> g[i], signer |-> FALSE, writable |-> FALSE]
      BY <1>13, <3>1, <3>2
    <3> QED
      BY <3>1, <3>3
  <2> QED
    BY <1>2, <2>1, <2>2, <2>3
<1>21. Mirrors(all, t)
  BY <1>4, <1>19, <1>20 DEF Mirrors, g, n1, n2, n3, n4, n5, n6
<1> QED
  BY <1>18, <1>21 DEF r

\* An index leads back to the key it was made from, and to its role.
LEMMA KeyOfIndex ==
  ASSUME NEW t, IsTransaction(t), NEW k \in KeysIn(AllKeys(t))
  PROVE  /\ Index(t, k) \in Nat
         /\ Index(t, k) < End6(t)
         /\ AllKeys(t)[Index(t, k) + 1] = k
<1> DEFINE g == AllKeys(t)
           i == CHOOSE j \in DOMAIN g : g[j] = k
<1>1. End6(t) \in Nat
  BY EndsAreNumbers
<1>2. DOMAIN g = 1..End6(t)
  BY <1>1, RolesByPosition DEF Positioned
<1>3. i \in DOMAIN g /\ g[i] = k
  BY DEF KeysIn
<1>4. Index(t, k) = i - 1
  BY DEF Index
<1> HIDE DEF i, g
<1>5. i - 1 \in Nat /\ i - 1 < End6(t) /\ (i - 1) + 1 = i
  BY <1>1, <1>2, <1>3
<1> QED
  BY <1>3, <1>4, <1>5 DEF g

LEMMA KeyInSnapshot ==
  ASSUME NEW t, IsTransaction(t), NEW k \in KeysIn(AllKeys(t)),
         NEW s, Mirrors(s.accounts, t)
  PROVE  /\ KeyAt(s, Index(t, k)) = k
         /\ s.accounts[Index(t, k) + 1].signer <=> Signs(t, k)
         /\ s.accounts[Index(t, k) + 1].writable <=> Writes(t, k)
<1> DEFINE i == Index(t, k)
<1>1. /\ i \in Nat /\ i < End6(t) /\ AllKeys(t)[i + 1] = k
      /\ End6(t) \in Nat
  BY KeyOfIndex, EndsAreNumbers
<1> HIDE DEF i
<1>2. i + 1 \in 1..End6(t)
  BY <1>1
<1>3. /\ Len(s.accounts) = End6(t)
      /\ s.accounts[i + 1].key = k
      /\ s.accounts[i + 1].signer <=> Signs(t, k)
      /\ s.accounts[i + 1].writable <=> Writes(t, k)
  BY <1>1, <1>2 DEF Mirrors
<1>4. KeyAt(s, i) = k
  BY <1>1, <1>3 DEF KeyAt
<1> QED
  BY <1>3, <1>4 DEF i

\* What the chain executed and the node reports in full is decoded.
LEMMA FullAnswersDecode ==
  ASSUME NEW t, IsTransaction(t)
  PROVE  Decodable(Answer(t, "none")) /\ Answer(t, "none").agrees
<1> DEFINE r == Answer(t, "none")
           balance(k) == [index |-> Index(t, k), mint |-> t.mints[k]]
<1>1. /\ r.version = t.version /\ r.valid /\ r.agrees
      /\ r.loadedWritable = t.loadedWritable
      /\ r.loadedReadonly = t.loadedReadonly
      /\ r.lookups = <<Len(t.loadedWritable), Len(t.loadedReadonly)>>
      /\ r.keys = StaticKeys(t)
      /\ r.required = Len(t.writableSigners \o t.readonlySigners)
      /\ r.readonlySigned = Len(t.readonlySigners)
      /\ r.readonlyUnsigned = Len(t.readonly)
      /\ r.balances = {balance(k) : k \in DOMAIN t.mints} \cup {}
  BY DEF Answer
<1>2. TablesResolved(r)
  <2>1. /\ t.loadedWritable \in Seq(Keys) /\ t.loadedReadonly \in Seq(Keys)
        /\ t.version = "legacy" => t.loadedWritable \o t.loadedReadonly = <<>>
    BY DEF IsTransaction
  <2>2. t.version = "legacy" => t.loadedWritable = <<>> /\ t.loadedReadonly = <<>>
    BY <2>1
  <2> QED
    BY <1>1, <2>2 DEF TablesResolved
<1>3. Mirrors(Accounts(r), t)
  BY <1>2, AccountsMirror
<1>4. HeaderFits(r)
  <2>1. Len(r.keys) = End4(t)
    BY <1>1, RolesByPosition DEF Positioned
  <2>2. /\ End1(t) \in Nat /\ End2(t) \in Nat /\ End3(t) \in Nat /\ End4(t) \in Nat
        /\ End1(t) <= End2(t) /\ End2(t) <= End3(t) /\ End3(t) <= End4(t)
        /\ End2(t) - End1(t) = Len(t.readonlySigners)
        /\ End4(t) - End3(t) = Len(t.readonly)
        /\ Len(t.writableSigners \o t.readonlySigners) = End2(t)
    BY EndsAreNumbers
  <2>3. /\ r.required = End2(t) /\ r.readonlySigned = End2(t) - End1(t)
        /\ r.readonlyUnsigned = End4(t) - End3(t)
    BY <1>1, <2>2
  <2> HIDE DEF r
  <2> QED
    BY <2>1, <2>2, <2>3 DEF HeaderFits
<1>5. \A k \in DOMAIN t.mints : /\ Index(t, k) \in Nat
                                /\ Index(t, k) < End6(t)
                                /\ AllKeys(t)[Index(t, k) + 1] = k
  <2>1. \A k \in DOMAIN t.mints : k \in KeysIn(AllKeys(t))
    BY DEF IsTransaction
  <2> QED
    BY <2>1, KeyOfIndex
<1>6. \A b \in r.balances : b.index < Len(Accounts(r))
  BY <1>1, <1>3, <1>5 DEF Mirrors
<1>7. BalancesAgree(r)
  <2> SUFFICES ASSUME NEW b \in r.balances, NEW c \in r.balances,
                      b.index = c.index
               PROVE  b.mint = c.mint
    BY DEF BalancesAgree
  <2>1. PICK k \in DOMAIN t.mints : b = balance(k)
    BY <1>1
  <2>2. PICK l \in DOMAIN t.mints : c = balance(l)
    BY <1>1
  <2>3. Index(t, k) = Index(t, l)
    BY <2>1, <2>2
  <2>4. k = l
    BY <1>5, <2>3
  <2> QED
    BY <2>1, <2>2, <2>4
<1> QED
  BY <1>1, <1>2, <1>4, <1>6, <1>7 DEF Decodable

-----------------------------------------------------------------------------
(***************************************************************************)
(* The inductive invariant: what each stage holds is a function of what    *)
(* the stage before it holds.                                              *)
(***************************************************************************)
Accepts(r) == Decodable(r) /\ r.agrees

Answered ==
  /\ response = None => snapshot = None /\ outcome = None
  /\ response # None => \E fault \in Faults : response = Answer(tx, fault)

Decoded ==
  snapshot # None => Accepts(response) /\ snapshot = Snapshot(response)

Assessed ==
  outcome # None =>
    \/ ~Accepts(response) /\ outcome = Rejected("malformed_evidence")
    \/ /\ Accepts(response) /\ snapshot # None
       /\ \E signatureUsed, referenceUsed \in BOOLEAN :
            outcome = AssessOnce(snapshot, signatureUsed, referenceUsed)

StageInv ==
  /\ tx \in Transactions
  /\ Answered
  /\ Decoded
  /\ Assessed

\* Fetch, Decode and Assess keep the stages in agreement.
THEOREM StageInvariance == Spec => []StageInv
<1>1. Init => StageInv
  BY DEF Init, StageInv, Answered, Decoded, Assessed
<1>2. StageInv /\ [Next]_vars => StageInv'
  <2> SUFFICES ASSUME StageInv, [Next]_vars
               PROVE  StageInv'
    OBVIOUS
  <2>1. CASE Fetch
    <3>1. /\ snapshot = None /\ outcome = None
          /\ snapshot' = None /\ outcome' = None
          /\ tx' = tx
      BY <2>1 DEF Fetch, StageInv, Answered, Decoded, Assessed
    <3>2. Answered'
      BY <2>1, <3>1 DEF Fetch, Answered
    <3> QED
      BY <3>1, <3>2 DEF StageInv, Decoded, Assessed
  <2>2. CASE Decode
    <3>1. response # None /\ snapshot = None /\ outcome = None
          /\ tx' = tx /\ response' = response
      BY <2>2 DEF Decode
    <3>2. Answered'
      BY <3>1 DEF StageInv, Answered
    <3>3. CASE Accepts(response)
      <4>1. snapshot' = Snapshot(response) /\ outcome' = None
        BY <2>2, <3>1, <3>3 DEF Decode, Accepts
      <4> QED
        BY <3>1, <3>2, <3>3, <4>1 DEF StageInv, Decoded, Assessed
    <3>4. CASE ~Accepts(response)
      <4>1. snapshot' = None /\ outcome' = Rejected("malformed_evidence")
        BY <2>2, <3>1, <3>4 DEF Decode, Accepts
      <4> QED
        BY <3>1, <3>2, <3>4, <4>1 DEF StageInv, Decoded, Assessed
    <3> QED
      BY <3>3, <3>4
  <2>3. CASE Assess
    <3>1. /\ snapshot # None
          /\ tx' = tx /\ response' = response /\ snapshot' = snapshot
          /\ \E signatureUsed, referenceUsed \in BOOLEAN :
               outcome' = AssessOnce(snapshot, signatureUsed, referenceUsed)
      BY <2>3 DEF Assess
    <3>2. response # None
      BY <3>1 DEF StageInv, Answered
    <3>3. Answered'
      BY <3>1, <3>2 DEF StageInv, Answered
    <3> QED
      BY <3>1, <3>3 DEF StageInv, Decoded, Assessed
  <2>4. CASE UNCHANGED vars
    BY <2>4 DEF vars, StageInv, Answered, Decoded, Assessed
  <2> QED
    BY <2>1, <2>2, <2>3, <2>4 DEF Next
<1> QED
  BY <1>1, <1>2, PTL DEF Spec

\* No verdict on a snapshot says that the evidence is malformed.
LEMMA JudgedIsNotMalformed ==
  ASSUME NEW s, DOMAIN s.instructions \subseteq Nat, NEW n
  PROVE  Judge(s, n) # Rejected("malformed_evidence")
<1> DEFINE ruling == [q \in DOMAIN s.instructions |->
                        InstructionRuling(s, s.instructions[q])]
           candidates == {q \in DOMAIN ruling : ruling[q] = "candidate"}
           errors == {q \in DOMAIN ruling : ruling[q] \notin {"candidate", "skipped"}}
           stops == Repeats(candidates) \cup errors
           sole == CHOOSE q \in candidates : TRUE
           m == s.instructions[sole].amount
<1>1. \A v, w : Rejected(v) = Rejected(w) => v = w
  BY DEF Rejected
<1>2. \A k, p : /\ Short(k, p) # Rejected("malformed_evidence")
                /\ Exact(k, p) # Rejected("malformed_evidence")
  BY DEF Short, Exact, Rejected
<1>3. \A q \in DOMAIN ruling : ruling[q] # "malformed_evidence"
  BY RulingOfInstruction
<1>4. CASE stops # {}
  <2>1. stops \subseteq DOMAIN ruling /\ stops \subseteq Nat
    BY DEF Repeats
  <2>2. Min(stops) \in DOMAIN ruling
    <3> HIDE DEF stops
    <3> QED
      BY <1>4, <2>1, LeastIsMember
  <2>3. Judge(s, n) = Rejected(IF Min(stops) \in candidates
                               THEN "multiple_candidate_transfers"
                               ELSE ruling[Min(stops)])
    BY <1>4 DEF Judge
  <2> HIDE DEF ruling, stops
  <2> QED
    BY <1>1, <1>3, <2>2, <2>3
<1>5. CASE stops = {} /\ candidates = {}
  <2>1. Judge(s, n) = Rejected("no_exact_transfer")
    BY <1>5 DEF Judge
  <2> QED
    BY <1>1, <2>1
<1>6. CASE stops = {} /\ candidates # {}
  <2>1. Judge(s, n) = IF m > n \/ m = 0 THEN Rejected("wrong_amount")
                      ELSE IF m < n THEN Short(m, sole) ELSE Exact(m, sole)
    BY <1>6 DEF Judge
  <2> QED
    BY <1>1, <1>2, <2>1
<1> QED
  BY <1>4, <1>5, <1>6

LEMMA AssessedIsNotMalformed ==
  ASSUME NEW s, DOMAIN s.instructions \subseteq Nat, NEW a, NEW b
  PROVE  AssessOnce(s, a, b) # Rejected("malformed_evidence")
<1>1. \A v, w : Rejected(v) = Rejected(w) => v = w
  BY DEF Rejected
<1>2. AssessSettlement(s, Amount) # Rejected("malformed_evidence")
  BY <1>1, JudgedIsNotMalformed DEF AssessSettlement
<1> QED
  BY <1>1, <1>2 DEF AssessOnce

\* A snapshot mirrors the transaction, whatever else was wrong with the answer.
LEMMA SnapshotMirrors ==
  ASSUME NEW t, IsTransaction(t), NEW fault, Accepts(Answer(t, fault))
  PROVE  /\ Mirrors(Snapshot(Answer(t, fault)).accounts, t)
         /\ DOMAIN Snapshot(Answer(t, fault)).instructions = DOMAIN t.instructions
         /\ DOMAIN t.instructions \subseteq Nat
<1>1. TablesResolved(Answer(t, fault))
  BY DEF Accepts, Decodable
<1>2. Mirrors(Accounts(Answer(t, fault)), t)
  BY <1>1, AccountsMirror
<1>3. Snapshot(Answer(t, fault)).accounts = Accounts(Answer(t, fault))
  BY DEF Snapshot
<1>4. DOMAIN Snapshot(Answer(t, fault)).instructions = DOMAIN t.instructions
  BY DEF Snapshot, Answer
<1>5. DOMAIN t.instructions \subseteq Nat
  <2> DEFINE Ix ==
               [program : KeysIn(AllKeys(t)), accounts : Seq(KeysIn(AllKeys(t))),
                op : {"malformed", "transfer", "transfer_checked", "other"},
                amount : Nat, decimals : Nat, size : Nat]
  <2>1. t.instructions \in Seq(Ix)
    BY DEF IsTransaction
  <2> HIDE DEF Ix
  <2> QED
    BY <2>1
<1> QED
  BY <1>2, <1>3, <1>4, <1>5

\* Every key of a snapshot has the role the chain gave it, and an answer that
\* is complete is never malformed evidence.
THEOREM DecodingFaithful == Spec => []DecodingIsFaithful
<1>1. ASSUME StageInv
      PROVE  DecodingIsFaithful
  <2>1. IsTransaction(tx)
    BY <1>1, SettlementAssumption DEF StageInv
  <2>2. ASSUME snapshot # None
        PROVE  /\ Mirrors(snapshot.accounts, tx)
               /\ DOMAIN snapshot.instructions \subseteq Nat
    <3>1. PICK fault \in Faults : response = Answer(tx, fault)
      BY <1>1, <2>2 DEF StageInv, Answered
    <3>2. Accepts(response) /\ snapshot = Snapshot(response)
      BY <1>1, <2>2 DEF StageInv, Decoded
    <3> QED
      BY <2>1, <3>1, <3>2, SnapshotMirrors
  <2>3. Positioned(tx) /\ End6(tx) \in Nat
    BY <2>1, RolesByPosition, EndsAreNumbers
  <2>4. ASSUME snapshot # None
        PROVE  [i \in DOMAIN snapshot.accounts |-> snapshot.accounts[i].key]
                 = AllKeys(tx)
    <3>1. DOMAIN snapshot.accounts = 1..End6(tx)
      BY <2>2, <2>4 DEF Mirrors
    <3>2. \A i \in 1..End6(tx) : snapshot.accounts[i].key = AllKeys(tx)[i]
      BY <2>2, <2>4 DEF Mirrors
    <3>3. AllKeys(tx) = [i \in 1..End6(tx) |-> AllKeys(tx)[i]]
      BY <2>3 DEF Positioned
    <3> QED
      BY <3>1, <3>2, <3>3
  <2>5. ASSUME snapshot # None, NEW i \in DOMAIN snapshot.accounts
        PROVE  LET account == snapshot.accounts[i] IN
                 /\ account.signer <=> Signs(tx, account.key)
                 /\ account.writable <=> Writes(tx, account.key)
    BY <2>2, <2>5 DEF Mirrors
  <2>6. ASSUME response = Answer(tx, "none")
        PROVE  outcome = None \/ outcome # Rejected("malformed_evidence")
    <3>1. Accepts(response)
      BY <2>1, <2>6, FullAnswersDecode DEF Accepts
    <3>2. outcome # None =>
            /\ snapshot # None
            /\ \E a, b \in BOOLEAN : outcome = AssessOnce(snapshot, a, b)
      BY <1>1, <3>1 DEF StageInv, Assessed
    <3> QED
      BY <2>2, <3>2, AssessedIsNotMalformed
  <2> QED
    BY <2>4, <2>5, <2>6 DEF DecodingIsFaithful, Signs, Writes
<1> QED
  BY <1>1, StageInvariance, PTL

\* A key that neither signs nor is writable is inert.
LEMMA OthersAreInert ==
  ASSUME NEW t, IsTransaction(t), NEW k \in KeysIn(AllKeys(t)),
         ~Signs(t, k), ~Writes(t, k)
  PROVE  k \in Inert(t)
<1>1. /\ End1(t) \in Nat /\ End2(t) \in Nat /\ End3(t) \in Nat
      /\ End4(t) \in Nat /\ End5(t) \in Nat /\ End6(t) \in Nat
  BY EndsAreNumbers
<1>2. PICK i \in 1..End6(t) : k = AllKeys(t)[i]
  BY <1>1, RolesByPosition DEF Positioned, KeysIn
<1>3. /\ ~(i <= End2(t))
      /\ ~(End2(t) < i /\ i <= End3(t))
      /\ ~(End4(t) < i /\ i <= End5(t))
  BY <1>2, RolesByPosition
<1>4. (End3(t) < i /\ i <= End4(t)) \/ End5(t) < i
  BY <1>1, <1>3
<1> QED
  BY <1>2, <1>4, RolesByPosition

\* A candidate is a transfer that moves classic tokens to the merchant and
\* names the inert reference; what is skipped moves none.
LEMMA CandidatesPay ==
  ASSUME NEW t, IsTransaction(t), NEW fault, Accepts(Answer(t, fault)),
         NEW s, s = Snapshot(Answer(t, fault)), NEW p, Sole(s, p),
         s.instructions[p].amount # 0
  PROVE  /\ p \in DOMAIN t.instructions
         /\ s.instructions[p].amount = t.instructions[p].amount
         /\ Movements(t) = {p}
         /\ Destination(t.instructions[p]) = MerchantAta
         /\ Reference \in Named(t.instructions[p]) \cap Inert(t)
<1> DEFINE ix == t.instructions[p]
           jx == s.instructions[p]
           Listed == KeysIn(AllKeys(t))
<1>1. /\ Mirrors(s.accounts, t)
      /\ DOMAIN s.instructions = DOMAIN t.instructions
      /\ DOMAIN t.instructions \subseteq Nat
  BY SnapshotMirrors
<1>2. ASSUME NEW q \in DOMAIN t.instructions
      PROVE  /\ t.instructions[q].program \in Listed
             /\ t.instructions[q].accounts \in Seq(Listed)
             /\ t.instructions[q].op \in
                  {"malformed", "transfer", "transfer_checked", "other"}
             /\ t.instructions[q].amount \in Nat
             /\ s.instructions[q].program = Index(t, t.instructions[q].program)
             /\ s.instructions[q].accounts =
                  [i \in DOMAIN t.instructions[q].accounts |->
                     Index(t, t.instructions[q].accounts[i])]
             /\ s.instructions[q].op = t.instructions[q].op
             /\ s.instructions[q].amount = t.instructions[q].amount
  <2>1. t.instructions[q] \in
          [program : Listed, accounts : Seq(Listed),
           op : {"malformed", "transfer", "transfer_checked", "other"},
           amount : Nat, decimals : Nat, size : Nat]
    <3> DEFINE Ix ==
                 [program : Listed, accounts : Seq(Listed),
                  op : {"malformed", "transfer", "transfer_checked", "other"},
                  amount : Nat, decimals : Nat, size : Nat]
    <3>1. t.instructions \in Seq(Ix)
      BY DEF IsTransaction
    <3> HIDE DEF Ix
    <3>2. t.instructions[q] \in Ix
      BY <3>1
    <3> QED
      BY <3>2 DEF Ix
  <2>2. s.instructions[q] =
          [t.instructions[q] EXCEPT
             !.program = Index(t, @),
             !.accounts = [i \in DOMAIN @ |-> Index(t, @[i])]]
    BY DEF Snapshot, Answer
  <2> HIDE DEF Listed
  <2> QED
    BY <2>1, <2>2
<1>3. p \in DOMAIN t.instructions
  BY <1>1 DEF Sole
<1>4. \A q \in DOMAIN t.instructions :
        KeyAt(s, s.instructions[q].program) = t.instructions[q].program
  <2> SUFFICES ASSUME NEW q \in DOMAIN t.instructions
               PROVE  KeyAt(s, s.instructions[q].program) = t.instructions[q].program
    OBVIOUS
  <2>1. /\ t.instructions[q].program \in Listed
        /\ s.instructions[q].program = Index(t, t.instructions[q].program)
    BY <1>2
  <2> QED
    BY <1>1, <2>1, KeyInSnapshot
<1>5. /\ KeyAt(s, jx.program) = ClassicToken
      /\ jx.op \notin {"malformed", "other"}
      /\ ~(Len(jx.accounts) < Required(jx))
      /\ AccountOf(s, jx, 1) # DestinationOf(s, jx)
      /\ DestinationOf(s, jx) = MerchantAta
      /\ NamesReference(s, jx, TRUE)
  BY RulingOfInstruction DEF Sole
<1>6. /\ Len(ix.accounts) \in Nat /\ DOMAIN ix.accounts = 1..Len(ix.accounts)
      /\ Len(jx.accounts) = Len(ix.accounts)
  <2>1. ix.accounts \in Seq(Listed)
    BY <1>2, <1>3
  <2>2. jx.accounts = [i \in DOMAIN ix.accounts |-> Index(t, ix.accounts[i])]
    BY <1>2, <1>3
  <2> HIDE DEF ix, jx, Listed
  <2>3. Len(ix.accounts) \in Nat /\ DOMAIN ix.accounts = 1..Len(ix.accounts)
    BY <2>1
  <2>4. Len(jx.accounts) = Len(ix.accounts)
    BY <2>2, <2>3
  <2> QED
    BY <2>3, <2>4
<1>7. /\ ix.op \in Transfers
      /\ jx.op = ix.op
      /\ Required(jx) = Required(ix)
      /\ Required(ix) = IF ix.op = "transfer" THEN 3 ELSE 4
  BY <1>2, <1>3, <1>5 DEF Required, Transfers
<1>8. /\ Len(ix.accounts) >= Required(ix)
      /\ {1, Required(ix) - 1} \subseteq DOMAIN ix.accounts
      /\ Required(ix) \in {3, 4}
  BY <1>5, <1>6, <1>7
<1>9. ASSUME NEW i \in DOMAIN ix.accounts
      PROVE  /\ ix.accounts[i] \in Listed
             /\ KeyAt(s, jx.accounts[i]) = ix.accounts[i]
             /\ AccountOf(s, jx, i) = ix.accounts[i]
             /\ s.accounts[jx.accounts[i] + 1].signer <=> Signs(t, ix.accounts[i])
             /\ s.accounts[jx.accounts[i] + 1].writable <=> Writes(t, ix.accounts[i])
  <2>1. jx.accounts[i] = Index(t, ix.accounts[i])
    BY <1>2, <1>3
  <2>2. ix.accounts[i] \in Listed
    <3>1. ix.accounts \in Seq(Listed)
      BY <1>2, <1>3
    <3> HIDE DEF ix, Listed
    <3> QED
      BY <3>1
  <2>3. i <= Len(jx.accounts)
    BY <1>6
  <2>4. /\ KeyAt(s, jx.accounts[i]) = ix.accounts[i]
        /\ s.accounts[jx.accounts[i] + 1].signer <=> Signs(t, ix.accounts[i])
        /\ s.accounts[jx.accounts[i] + 1].writable <=> Writes(t, ix.accounts[i])
    BY <1>1, <2>1, <2>2, KeyInSnapshot
  <2>5. AccountOf(s, jx, i) = ix.accounts[i]
    BY <2>3, <2>4 DEF AccountOf
  <2> QED
    BY <2>2, <2>4, <2>5
<1>10. /\ AccountOf(s, jx, 1) = Source(ix)
       /\ DestinationOf(s, jx) = Destination(ix)
  <2>1. Destination(ix) = ix.accounts[Required(ix) - 1]
    BY <1>7 DEF Destination
  <2> QED
    BY <1>7, <1>8, <1>9, <2>1 DEF Source, DestinationOf
<1>11. p \in Movements(t)
  <2>1. ix.program = ClassicToken /\ ix.op \in Transfers
    BY <1>3, <1>4, <1>5, <1>7
  <2>2. Len(ix.accounts) >= 3
    BY <1>6, <1>8
  <2>3. Source(ix) # Destination(ix)
    BY <1>5, <1>10
  <2>4. ix.amount > 0
    <3>1. ix.amount \in Nat /\ ix.amount # 0
      BY <1>2, <1>3
    <3> HIDE DEF ix
    <3> QED
      BY <3>1
  <2> QED
    BY <1>3, <2>1, <2>2, <2>3, <2>4 DEF Movements
<1>12. ASSUME NEW q \in DOMAIN t.instructions \ {p}
       PROVE  q \notin Movements(t)
  <2>1. InstructionRuling(s, s.instructions[q]) = "skipped"
    BY <1>1 DEF Sole
  <2>2. \/ KeyAt(s, s.instructions[q].program) # ClassicToken
        \/ s.instructions[q].op = "other"
    BY <2>1, RulingOfInstruction, Zenon
  <2>3. \/ t.instructions[q].program # ClassicToken
        \/ t.instructions[q].op = "other"
    BY <1>2, <1>4, <2>2
  <2> QED
    BY <2>3 DEF Movements, Transfers
<1>13. Reference \in Named(ix) \cap Inert(t)
  <2>1. PICK i \in Extras(jx) :
          /\ KeyAt(s, jx.accounts[i]) = Reference
          /\ ~s.accounts[jx.accounts[i] + 1].signer
          /\ ~s.accounts[jx.accounts[i] + 1].writable
    BY <1>5 DEF NamesReference
  <2>2. i \in DOMAIN ix.accounts /\ i > Required(ix)
    BY <1>2, <1>3, <1>7 DEF Extras
  <2>3. ix.accounts[i] = Reference
    BY <1>9, <2>1, <2>2
  <2>4. /\ Reference \in KeysIn(AllKeys(t))
        /\ ~Signs(t, Reference)
        /\ ~Writes(t, Reference)
    BY <1>9, <2>1, <2>2, <2>3
  <2>5. Reference \in Inert(t)
    BY <2>4, OthersAreInert
  <2>6. i \in (IF ix.op = "transfer" THEN 4 ELSE 5)..Len(ix.accounts)
    BY <1>6, <1>7, <2>2
  <2>7. Reference \in Named(ix)
    BY <2>3, <2>6 DEF Named
  <2> QED
    BY <2>5, <2>7
<1>14. Movements(t) = {p}
  BY <1>11, <1>12 DEF Movements
<1> QED
  BY <1>2, <1>3, <1>5, <1>10, <1>13, <1>14

\* The amounts of a snapshot are those of the transaction.
LEMMA AmountsAreNumbers ==
  ASSUME NEW t, IsTransaction(t), NEW fault,
         NEW p \in DOMAIN t.instructions
  PROVE  /\ t.instructions[p].amount \in Nat
         /\ Snapshot(Answer(t, fault)).instructions[p].amount
              = t.instructions[p].amount
<1> DEFINE Ix ==
             [program : KeysIn(AllKeys(t)), accounts : Seq(KeysIn(AllKeys(t))),
              op : {"malformed", "transfer", "transfer_checked", "other"},
              amount : Nat, decimals : Nat, size : Nat]
<1>1. t.instructions \in Seq(Ix)
  BY DEF IsTransaction
<1> HIDE DEF Ix
<1>2. t.instructions[p] \in Ix
  BY <1>1
<1>3. t.instructions[p].amount \in Nat
  BY <1>2 DEF Ix
<1>4. Snapshot(Answer(t, fault)).instructions[p] =
        [t.instructions[p] EXCEPT
           !.program = Index(t, @),
           !.accounts = [i \in DOMAIN @ |-> Index(t, @[i])]]
  BY DEF Snapshot, Answer
<1> QED
  BY <1>2, <1>3, <1>4 DEF Ix

\* What is left of the invariant once there is a snapshot.
LEMMA AssessedSnapshot ==
  ASSUME StageInv, snapshot # None, outcome # None
  PROVE  /\ IsTransaction(tx)
         /\ \E fault \in Faults :
              /\ Accepts(Answer(tx, fault))
              /\ snapshot = Snapshot(Answer(tx, fault))
         /\ DOMAIN snapshot.instructions = DOMAIN tx.instructions
         /\ DOMAIN tx.instructions \subseteq Nat
         /\ \A p \in DOMAIN tx.instructions :
              /\ tx.instructions[p].amount \in Nat
              /\ snapshot.instructions[p].amount = tx.instructions[p].amount
         /\ snapshot.succeeded = tx.succeeded
         /\ \E a, b \in BOOLEAN : outcome = AssessOnce(snapshot, a, b)
<1>1. IsTransaction(tx)
  BY SettlementAssumption DEF StageInv
<1>2. PICK fault \in Faults : response = Answer(tx, fault)
  BY DEF StageInv, Answered
<1>3. Accepts(response) /\ snapshot = Snapshot(response)
  BY DEF StageInv, Decoded
<1>4. /\ DOMAIN snapshot.instructions = DOMAIN tx.instructions
      /\ DOMAIN tx.instructions \subseteq Nat
  BY <1>1, <1>2, <1>3, SnapshotMirrors
<1>5. \A p \in DOMAIN tx.instructions :
        /\ tx.instructions[p].amount \in Nat
        /\ snapshot.instructions[p].amount = tx.instructions[p].amount
  BY <1>1, <1>2, <1>3, AmountsAreNumbers
<1>6. snapshot.succeeded = tx.succeeded
  BY <1>2, <1>3 DEF Snapshot, Answer
<1>7. \E a, b \in BOOLEAN : outcome = AssessOnce(snapshot, a, b)
  BY <1>3 DEF StageInv, Assessed
<1> QED
  BY <1>1, <1>2, <1>3, <1>4, <1>5, <1>6, <1>7

\* Nothing but a payment is accepted, for every transaction and fault.
THEOREM AcceptedPaid == Spec => []AcceptedMeansPaid
<1>1. ASSUME StageInv
      PROVE  AcceptedMeansPaid
  <2> SUFFICES ASSUME outcome # None, outcome.kind # "rejected"
               PROVE  /\ tx.succeeded
                      /\ Movements(tx) = {outcome.position}
                      /\ LET ix == tx.instructions[outcome.position] IN
                           /\ Destination(ix) = MerchantAta
                           /\ ix.amount = outcome.received
                           /\ Reference \in Named(ix) \cap Inert(tx)
                      /\ outcome.received <= Amount
                      /\ outcome.kind = "exact" <=> outcome.received = Amount
    BY DEF AcceptedMeansPaid
  <2>1. \A verdict : Rejected(verdict).kind = "rejected"
    BY DEF Rejected
  <2>2. snapshot # None
    BY <1>1, <2>1 DEF StageInv, Assessed
  <2>3. /\ IsTransaction(tx)
        /\ DOMAIN snapshot.instructions = DOMAIN tx.instructions
        /\ DOMAIN tx.instructions \subseteq Nat
        /\ snapshot.succeeded = tx.succeeded
    BY <1>1, <2>2, AssessedSnapshot
  <2>4. PICK fault \in Faults : /\ Accepts(Answer(tx, fault))
                                /\ snapshot = Snapshot(Answer(tx, fault))
    BY <1>1, <2>2, AssessedSnapshot
  <2>5. PICK a \in BOOLEAN, b \in BOOLEAN : outcome = AssessOnce(snapshot, a, b)
    BY <1>1, <2>2, AssessedSnapshot
  <2>6. outcome = Judge(snapshot, Amount) /\ snapshot.succeeded
    BY <2>1, <2>5 DEF AssessOnce, AssessSettlement
  <2>7. PICK p : Sole(snapshot, p)
    BY <2>3, <2>6, AcceptedIsSole
  <2> DEFINE m == snapshot.instructions[p].amount
  <2>8. outcome = IF m > Amount \/ m = 0 THEN Rejected("wrong_amount")
                  ELSE IF m < Amount THEN Short(m, p) ELSE Exact(m, p)
    BY <2>3, <2>6, <2>7, SoleIsJudged
  <2>9. p \in DOMAIN tx.instructions
    BY <2>3, <2>7 DEF Sole
  <2>10. m \in Nat /\ m = tx.instructions[p].amount /\ Amount \in Nat
    BY <1>1, <2>2, <2>9, AssessedSnapshot, SettlementAssumption
  <2> HIDE DEF m
  <2>11. /\ ~(m > Amount) /\ m # 0
         /\ outcome = IF m < Amount THEN Short(m, p) ELSE Exact(m, p)
    BY <2>1, <2>8
  <2>12. /\ outcome.position = p /\ outcome.received = m
         /\ outcome.kind = "exact" <=> ~(m < Amount)
    BY <2>11 DEF Short, Exact
  <2>13. m <= Amount /\ (~(m < Amount) <=> m = Amount)
    BY <2>10, <2>11
  <2>14. /\ Movements(tx) = {p}
         /\ Destination(tx.instructions[p]) = MerchantAta
         /\ Reference \in Named(tx.instructions[p]) \cap Inert(tx)
    BY <2>3, <2>4, <2>7, <2>11, CandidatesPay DEF m
  <2> QED
    BY <2>3, <2>6, <2>10, <2>12, <2>13, <2>14
<1> QED
  BY <1>1, StageInvariance, PTL

\* An underpayment of n is exactly what would pay a request for n.
THEOREM UnderpaymentsAreExactForLess == Spec => []UnderpaymentsLackOnlyTheAmount
<1>1. ASSUME StageInv
      PROVE  UnderpaymentsLackOnlyTheAmount
  <2> SUFFICES ASSUME snapshot # None, outcome # None,
                      outcome.verdict \notin
                        {"duplicate_signature", "reference_reused"},
                      NEW n \in 1..(Amount - 1)
               PROVE  AssessSettlement(snapshot, n).kind = "exact"
                        <=> outcome.kind = "underpayment" /\ outcome.received = n
    BY DEF UnderpaymentsLackOnlyTheAmount
  <2>1. /\ DOMAIN snapshot.instructions \subseteq Nat
        /\ \A p \in DOMAIN snapshot.instructions : snapshot.instructions[p].amount \in Nat
    BY <1>1, AssessedSnapshot
  <2>2. PICK a \in BOOLEAN, b \in BOOLEAN : outcome = AssessOnce(snapshot, a, b)
    BY <1>1, AssessedSnapshot
  <2>3. /\ n \in Nat /\ Amount \in Nat /\ n < Amount /\ n # 0
    BY SettlementAssumption
  <2>4. \A verdict : /\ Rejected(verdict).verdict = verdict
                     /\ Rejected(verdict).kind = "rejected"
    BY DEF Rejected
  <2>5. outcome = AssessSettlement(snapshot, Amount)
    BY <2>2, <2>4 DEF AssessOnce
  <2>6. \A m, p : /\ Short(m, p).kind = "underpayment"
                  /\ Short(m, p).received = m
                  /\ Exact(m, p).kind = "exact"
    BY DEF Short, Exact
  <2>7. CASE \/ ~snapshot.succeeded
             \/ Len(snapshot.accounts) > MaxAccountKeys
             \/ Len(snapshot.instructions) > MaxInstructions
    BY <2>4, <2>5, <2>7 DEF AssessSettlement
  <2>8. CASE ~(\/ ~snapshot.succeeded
               \/ Len(snapshot.accounts) > MaxAccountKeys
               \/ Len(snapshot.instructions) > MaxInstructions)
    <3>1. /\ AssessSettlement(snapshot, n) = Judge(snapshot, n)
          /\ outcome = Judge(snapshot, Amount)
      BY <2>5, <2>8 DEF AssessSettlement
    <3>2. CASE \E p : Sole(snapshot, p)
      <4>1. PICK p : Sole(snapshot, p)
        BY <3>2
      <4> DEFINE m == snapshot.instructions[p].amount
      <4>2. Judge(snapshot, n) = IF m > n \/ m = 0 THEN Rejected("wrong_amount")
                          ELSE IF m < n THEN Short(m, p) ELSE Exact(m, p)
        BY <2>1, <4>1, SoleIsJudged
      <4>3. outcome = IF m > Amount \/ m = 0 THEN Rejected("wrong_amount")
                      ELSE IF m < Amount THEN Short(m, p) ELSE Exact(m, p)
        BY <2>1, <3>1, <4>1, SoleIsJudged
      <4>4. m \in Nat
        BY <2>1, <4>1 DEF Sole
      <4> HIDE DEF m
      <4>5. Judge(snapshot, n).kind = "exact" <=> m = n
        BY <2>3, <2>4, <2>6, <4>2, <4>4
      <4>6. outcome.kind = "underpayment" /\ outcome.received = n <=> m = n
        BY <2>3, <2>4, <2>6, <4>3, <4>4
      <4> QED
        BY <3>1, <4>5, <4>6
    <3>3. CASE ~\E p : Sole(snapshot, p)
      <4>1. Judge(snapshot, n).kind = "rejected" /\ outcome.kind = "rejected"
        BY <2>1, <3>1, <3>3, AcceptedIsSole
      <4> QED
        BY <3>1, <4>1
    <3> QED
      BY <3>2, <3>3
  <2> QED
    BY <2>7, <2>8
<1> QED
  BY <1>1, StageInvariance, PTL

-----------------------------------------------------------------------------
(***************************************************************************)
(* Which instructions are taken and which are passed over, exactly.        *)
(***************************************************************************)

\* Ruling answers with the first check that fails.
LEMMA RulingIsFirst ==
  ASSUME NEW checks, DOMAIN checks \subseteq Nat, NEW default
  PROVE  \/ /\ Ruling(checks, default) = default
            /\ \A i \in DOMAIN checks : ~checks[i].fails
         \/ \E i \in DOMAIN checks :
              /\ checks[i].fails
              /\ Ruling(checks, default) = checks[i].verdict
              /\ \A j \in DOMAIN checks : j < i => ~checks[j].fails
<1> DEFINE failed == {i \in DOMAIN checks : checks[i].fails}
<1>1. CASE failed = {}
  BY <1>1 DEF Ruling
<1>2. CASE failed # {}
  <2>1. failed \subseteq Nat
    OBVIOUS
  <2>2. PICK n \in failed : \A k \in failed : n <= k
    <3> HIDE DEF failed
    <3> QED
      BY <1>2, <2>1, LeastExists
  <2>3. Min(failed) \in failed /\ \A k \in failed : Min(failed) <= k
    <3> HIDE DEF failed
    <3> QED
      BY <2>2 DEF Min
  <2>4. Ruling(checks, default) = checks[Min(failed)].verdict
    BY <1>2 DEF Ruling
  <2>5. \A j \in DOMAIN checks : j < Min(failed) => ~checks[j].fails
    <3> SUFFICES ASSUME NEW j \in DOMAIN checks, j < Min(failed), checks[j].fails
                 PROVE  FALSE
      OBVIOUS
    <3>1. Min(failed) <= j /\ Min(failed) \in Nat /\ j \in Nat
      BY <2>1, <2>3
    <3> HIDE DEF failed
    <3> QED
      BY <3>1
  <2> QED
    BY <2>3, <2>4, <2>5
<1> QED
  BY <1>1, <1>2

\* The instruction is within the limits and its program is listed and allowed.
Admissible(s, ix) ==
  /\ ~(Len(ix.accounts) > MaxAccounts)
  /\ ~(ix.size > MaxData)
  /\ KeyAt(s, ix.program) \notin {None, Token2022}

\* Its accounts are those of a payment of some amount.
Fits(s, ix) ==
  LET checked == ix.op = "transfer_checked"
      source == AccountOf(s, ix, 1)
      destination == DestinationOf(s, ix)
  IN  /\ ~(checked /\ ix.decimals # Decimals)
      /\ ~(Len(ix.accounts) < Required(ix))
      /\ None \notin {source, destination}
      /\ source # destination
      /\ destination = MerchantAta
      /\ ~(checked /\ AccountOf(s, ix, 2) # Mint)
      /\ MintOf(s, source) # None /\ MintOf(s, source) = Mint
      /\ MintOf(s, destination) # None /\ MintOf(s, destination) = Mint
      /\ ~NamesReference(s, ix, FALSE)
      /\ NamesReference(s, ix, TRUE)

LEMMA RulingExactly ==
  ASSUME NEW s, NEW ix
  PROVE  /\ InstructionRuling(s, ix) = "candidate" <=>
              /\ Admissible(s, ix)
              /\ KeyAt(s, ix.program) = ClassicToken
              /\ ix.op \notin {"malformed", "other"}
              /\ Fits(s, ix)
         /\ InstructionRuling(s, ix) = "skipped" <=>
              /\ Admissible(s, ix)
              /\ KeyAt(s, ix.program) # ClassicToken \/ ix.op = "other"
<1> DEFINE checks == Checks(s, ix)
<1>1. DOMAIN checks = 1..17
  BY DEF Checks
<1>2. /\ \A i \in 1..17 : checks[i].verdict # "candidate"
      /\ \A i \in 1..17 : checks[i].verdict = "skipped" <=> i = 4 \/ i = 6
  BY DEF Checks, Check
<1>3. /\ checks[1].fails <=> Len(ix.accounts) > MaxAccounts \/ ix.size > MaxData
      /\ checks[2].fails <=> KeyAt(s, ix.program) = None
      /\ checks[3].fails <=> KeyAt(s, ix.program) = Token2022
      /\ checks[4].fails <=> KeyAt(s, ix.program) # ClassicToken
      /\ checks[5].fails <=> ix.op = "malformed"
      /\ checks[6].fails <=> ix.op = "other"
  BY DEF Checks, Check
<1>4. Fits(s, ix) <=> \A i \in 7..17 : ~checks[i].fails
  <2>1. /\ checks[7].fails <=> ix.op = "transfer_checked" /\ ix.decimals # Decimals
        /\ checks[8].fails <=>
             \/ Len(ix.accounts) < Required(ix)
             \/ None \in {AccountOf(s, ix, 1), DestinationOf(s, ix)}
        /\ checks[9].fails <=> AccountOf(s, ix, 1) = DestinationOf(s, ix)
        /\ checks[10].fails <=> DestinationOf(s, ix) # MerchantAta
        /\ checks[11].fails <=>
             ix.op = "transfer_checked" /\ AccountOf(s, ix, 2) # Mint
        /\ checks[12].fails <=> MintOf(s, AccountOf(s, ix, 1)) = None
        /\ checks[13].fails <=> MintOf(s, AccountOf(s, ix, 1)) # Mint
        /\ checks[14].fails <=> MintOf(s, DestinationOf(s, ix)) = None
        /\ checks[15].fails <=> MintOf(s, DestinationOf(s, ix)) # Mint
        /\ checks[16].fails <=> NamesReference(s, ix, FALSE)
        /\ checks[17].fails <=> ~NamesReference(s, ix, TRUE)
    BY DEF Checks, Check
  <2> HIDE DEF checks
  <2>2. (\A i \in 7..17 : ~checks[i].fails) <=>
          /\ ~checks[7].fails /\ ~checks[8].fails /\ ~checks[9].fails
          /\ ~checks[10].fails /\ ~checks[11].fails /\ ~checks[12].fails
          /\ ~checks[13].fails /\ ~checks[14].fails /\ ~checks[15].fails
          /\ ~checks[16].fails /\ ~checks[17].fails
    <3>1. \A i \in 7..17 : i \in {7, 8, 9, 10, 11, 12, 13, 14, 15, 16, 17}
      OBVIOUS
    <3> QED
      BY <3>1
  <2> QED
    BY <2>1, <2>2 DEF Fits
<1> HIDE DEF checks
<1>5. \/ /\ Ruling(checks, "candidate") = "candidate"
         /\ \A i \in 1..17 : ~checks[i].fails
      \/ \E i \in 1..17 :
           /\ checks[i].fails /\ Ruling(checks, "candidate") = checks[i].verdict
           /\ \A j \in 1..17 : j < i => ~checks[j].fails
  BY <1>1, RulingIsFirst
<1>6. InstructionRuling(s, ix) = Ruling(checks, "candidate")
  BY DEF InstructionRuling, checks
<1> DEFINE verdict == InstructionRuling(s, ix)
<1> HIDE DEF verdict
<1>7. verdict = "candidate" <=> \A i \in 1..17 : ~checks[i].fails
  BY <1>2, <1>5, <1>6 DEF verdict
<1>8. verdict = "skipped" <=>
        /\ ~checks[1].fails /\ ~checks[2].fails /\ ~checks[3].fails
        /\ checks[4].fails \/ (~checks[5].fails /\ checks[6].fails)
  <2>1. CASE \A i \in 1..17 : ~checks[i].fails
    BY <1>7, <2>1
  <2>2. ASSUME NEW i \in 1..17, checks[i].fails, verdict = checks[i].verdict,
               \A j \in 1..17 : j < i => ~checks[j].fails
        PROVE  verdict = "skipped" <=>
                 /\ ~checks[1].fails /\ ~checks[2].fails /\ ~checks[3].fails
                 /\ checks[4].fails \/ (~checks[5].fails /\ checks[6].fails)
    <3>1. verdict = "skipped" <=> i = 4 \/ i = 6
      BY <1>2, <2>2
    <3>2. CASE i = 4 \/ i = 6
      BY <2>2, <3>1, <3>2
    <3>3. CASE i < 4 \/ i = 5
      BY <2>2, <3>1, <3>3
    <3>4. CASE i > 6
      BY <2>2, <3>1, <3>4
    <3> QED
      BY <3>2, <3>3, <3>4
  <2> QED
    BY <1>5, <1>6, <2>1, <2>2 DEF verdict
<1>9. (\A i \in 1..17 : ~checks[i].fails) <=>
        /\ ~checks[1].fails /\ ~checks[2].fails /\ ~checks[3].fails
        /\ ~checks[4].fails /\ ~checks[5].fails /\ ~checks[6].fails
        /\ \A i \in 7..17 : ~checks[i].fails
  <2>1. \A i \in 1..17 : i \in {1, 2, 3, 4, 5, 6} \/ i \in 7..17
    OBVIOUS
  <2> QED
    BY <2>1
<1>10. verdict = "candidate" <=>
         /\ Admissible(s, ix)
         /\ KeyAt(s, ix.program) = ClassicToken
         /\ ix.op \notin {"malformed", "other"}
         /\ Fits(s, ix)
  BY <1>3, <1>4, <1>7, <1>9 DEF Admissible
<1>11. verdict = "skipped" <=>
         /\ Admissible(s, ix)
         /\ KeyAt(s, ix.program) # ClassicToken \/ ix.op = "other"
  BY <1>3, <1>8 DEF Admissible
<1> QED
  BY <1>10, <1>11 DEF verdict

-----------------------------------------------------------------------------
(***************************************************************************)
(* A full answer, read back.                                               *)
(***************************************************************************)
Full(t) == Snapshot(Answer(t, "none"))

\* The instruction jx of a snapshot reads as the instruction ix of t.
Reads(s, jx, ix, t) ==
  /\ KeyAt(s, jx.program) = ix.program
  /\ ix.program \in KeysIn(AllKeys(t))
  /\ jx.op = ix.op
  /\ ix.op \in {"malformed", "transfer", "transfer_checked", "other"}
  /\ jx.amount = ix.amount /\ ix.amount \in Nat
  /\ jx.decimals = ix.decimals /\ ix.decimals \in Nat
  /\ jx.size = ix.size /\ ix.size \in Nat
  /\ Len(jx.accounts) = Len(ix.accounts) /\ Len(ix.accounts) \in Nat
  /\ DOMAIN jx.accounts = 1..Len(ix.accounts)
  /\ DOMAIN ix.accounts = 1..Len(ix.accounts)
  /\ \A i \in 1..Len(ix.accounts) :
       /\ ix.accounts[i] \in KeysIn(AllKeys(t))
       /\ KeyAt(s, jx.accounts[i]) = ix.accounts[i]
       /\ s.accounts[jx.accounts[i] + 1].signer <=> Signs(t, ix.accounts[i])
       /\ s.accounts[jx.accounts[i] + 1].writable <=> Writes(t, ix.accounts[i])

LEMMA InstructionsReadBack ==
  ASSUME NEW t, IsTransaction(t), NEW fault, Accepts(Answer(t, fault)),
         NEW s, s = Snapshot(Answer(t, fault)),
         NEW p \in DOMAIN t.instructions
  PROVE  Reads(s, s.instructions[p], t.instructions[p], t)
<1> DEFINE Listed == KeysIn(AllKeys(t))
           Ix == [program : Listed, accounts : Seq(Listed),
                  op : {"malformed", "transfer", "transfer_checked", "other"},
                  amount : Nat, decimals : Nat, size : Nat]
           ix == t.instructions[p]
           jx == s.instructions[p]
<1>1. Mirrors(s.accounts, t)
  BY SnapshotMirrors
<1>2. ix \in Ix
  <2>1. t.instructions \in Seq(Ix)
    BY DEF IsTransaction
  <2> HIDE DEF Ix
  <2> QED
    BY <2>1
<1>3. jx = [ix EXCEPT !.program = Index(t, @),
                      !.accounts = [i \in DOMAIN @ |-> Index(t, @[i])]]
  BY DEF Snapshot, Answer
<1> HIDE DEF ix, jx, Listed
<1>4. /\ jx.program = Index(t, ix.program)
      /\ jx.accounts = [i \in DOMAIN ix.accounts |-> Index(t, ix.accounts[i])]
      /\ jx.op = ix.op /\ jx.amount = ix.amount
      /\ jx.decimals = ix.decimals /\ jx.size = ix.size
      /\ ix.program \in Listed /\ ix.accounts \in Seq(Listed)
      /\ ix.op \in {"malformed", "transfer", "transfer_checked", "other"}
      /\ ix.amount \in Nat /\ ix.decimals \in Nat /\ ix.size \in Nat
  BY <1>2, <1>3
<1>5. /\ Len(ix.accounts) \in Nat /\ DOMAIN ix.accounts = 1..Len(ix.accounts)
      /\ DOMAIN jx.accounts = 1..Len(ix.accounts)
      /\ Len(jx.accounts) = Len(ix.accounts)
      /\ \A i \in 1..Len(ix.accounts) :
           /\ ix.accounts[i] \in Listed
           /\ jx.accounts[i] = Index(t, ix.accounts[i])
  <2> DEFINE a == ix.accounts
             b == jx.accounts
  <2>1. a \in Seq(Listed) /\ b = [i \in DOMAIN a |-> Index(t, a[i])]
    BY <1>4
  <2> HIDE DEF a, b
  <2>2. /\ Len(a) \in Nat /\ DOMAIN a = 1..Len(a)
        /\ \A i \in 1..Len(a) : a[i] \in Listed
    BY <2>1
  <2>3. DOMAIN b = 1..Len(a) /\ \A i \in 1..Len(a) : b[i] = Index(t, a[i])
    BY <2>1, <2>2
  <2>4. Len(b) = Len(a)
    BY <2>1, <2>2
  <2> QED
    BY <2>2, <2>3, <2>4 DEF a, b
<1>6. KeyAt(s, jx.program) = ix.program
  BY <1>1, <1>4, KeyInSnapshot DEF Listed
<1>7. \A i \in 1..Len(ix.accounts) :
        /\ KeyAt(s, jx.accounts[i]) = ix.accounts[i]
        /\ s.accounts[jx.accounts[i] + 1].signer <=> Signs(t, ix.accounts[i])
        /\ s.accounts[jx.accounts[i] + 1].writable <=> Writes(t, ix.accounts[i])
  BY <1>1, <1>5, KeyInSnapshot DEF Listed
<1> QED
  BY <1>4, <1>5, <1>6, <1>7 DEF Reads, ix, jx, Listed

\* The token accounts of a full answer have the mints the chain gave them.
LEMMA MintsReadBack ==
  ASSUME NEW t, IsTransaction(t), NEW k \in KeysIn(AllKeys(t))
  PROVE  /\ MintOf(Full(t), k) # None /\ MintOf(Full(t), k) = Mint
              <=> k \in DOMAIN t.mints /\ t.mints[k] = Mint
<1> DEFINE s == Full(t)
           balance(l) == [index |-> Index(t, l), mint |-> t.mints[l]]
           there == {b \in s.balances : KeyAt(s, b.index) = k}
<1>1. Mirrors(s.accounts, t)
  BY FullAnswersDecode, SnapshotMirrors DEF Accepts, Full
<1>2. s.balances = {balance(l) : l \in DOMAIN t.mints}
  BY DEF Full, Snapshot, Answer
<1>3. \A l \in DOMAIN t.mints :
        /\ l \in KeysIn(AllKeys(t)) /\ t.mints[l] \in Keys
        /\ KeyAt(s, Index(t, l)) = l
        /\ Index(t, l) \in Nat
  <2>1. \A l \in DOMAIN t.mints : l \in KeysIn(AllKeys(t)) /\ t.mints[l] \in Keys
    BY DEF IsTransaction
  <2> QED
    BY <1>1, <2>1, KeyInSnapshot, KeyOfIndex
<1> HIDE DEF s
<1>4. CASE k \in DOMAIN t.mints
  <2>1. there = {balance(k)}
    BY <1>2, <1>3, <1>4
  <2>2. {c.index : c \in there} = {Index(t, k)}
    <3> DEFINE b == balance(k)
    <3>1. there = {b} /\ b.index = Index(t, k)
      BY <2>1
    <3> HIDE DEF b, there
    <3> QED
      BY <3>1
  <2>3. Min({Index(t, k)}) = Index(t, k)
    <3>1. Index(t, k) \in Nat
      BY <1>3, <1>4
    <3> DEFINE i == Index(t, k)
    <3> HIDE DEF i
    <3>2. \E x \in {i} : \A y \in {i} : x <= y
      BY <3>1 DEF i
    <3>3. Min({i}) \in {i}
      BY <3>2 DEF Min
    <3> QED
      BY <3>3 DEF i
  <2>4. MintOf(s, k) = (CHOOSE b \in {balance(k)} : b.index = Index(t, k)).mint
    BY <2>1, <2>2, <2>3 DEF MintOf
  <2>5. (CHOOSE b \in {balance(k)} : b.index = Index(t, k)) = balance(k)
    OBVIOUS
  <2>6. MintOf(s, k) = t.mints[k]
    BY <2>4, <2>5
  <2> QED
    BY <1>3, <1>4, <2>6, SettlementAssumption DEF s
<1>5. CASE k \notin DOMAIN t.mints
  <2>1. there = {}
    BY <1>2, <1>3, <1>5
  <2>2. MintOf(s, k) = None
    BY <2>1 DEF MintOf
  <2> QED
    BY <1>5, <2>2 DEF s
<1> QED
  BY <1>4, <1>5

\* A key is inert exactly when it neither signs nor is writable.
LEMMA InertExactly ==
  ASSUME NEW t, IsTransaction(t), NEW k \in KeysIn(AllKeys(t))
  PROVE  k \in Inert(t) <=> ~Signs(t, k) /\ ~Writes(t, k)
<1>1. /\ End1(t) \in Nat /\ End2(t) \in Nat /\ End3(t) \in Nat
      /\ End4(t) \in Nat /\ End5(t) \in Nat /\ End6(t) \in Nat
      /\ End1(t) <= End2(t) /\ End2(t) <= End3(t) /\ End3(t) <= End4(t)
      /\ End4(t) <= End5(t)
  BY EndsAreNumbers
<1>2. PICK i \in 1..End6(t) : k = AllKeys(t)[i]
  BY <1>1, RolesByPosition DEF Positioned, KeysIn
<1>3. /\ Signs(t, k) <=> i <= End2(t)
      /\ Writes(t, k) <=> \/ i <= End1(t)
                          \/ End2(t) < i /\ i <= End3(t)
                          \/ End4(t) < i /\ i <= End5(t)
      /\ k \in Inert(t) <=> \/ End3(t) < i /\ i <= End4(t)
                            \/ End5(t) < i
  BY <1>2, RolesByPosition
<1>4. (End3(t) < i /\ i <= End4(t)) \/ End5(t) < i
        <=> /\ ~(i <= End2(t))
            /\ ~(\/ i <= End1(t)
                 \/ End2(t) < i /\ i <= End3(t)
                 \/ End4(t) < i /\ i <= End5(t))
  BY <1>1
<1> QED
  BY <1>3, <1>4

\* The verifier finds a safe reference and no unsafe one exactly when the
\* instruction names the reference and the reference is inert.
LEMMA ReferenceReadBack ==
  ASSUME NEW t, IsTransaction(t), NEW s, NEW jx, NEW ix, Reads(s, jx, ix, t),
         ix.op \in Transfers
  PROVE  ~NamesReference(s, jx, FALSE) /\ NamesReference(s, jx, TRUE)
           <=> Reference \in Named(ix) \cap Inert(t)
<1> DEFINE tail == {i \in 1..Len(ix.accounts) : i > Required(ix)}
           here == {i \in tail : ix.accounts[i] = Reference}
<1>1. /\ Len(ix.accounts) \in Nat
      /\ Required(jx) = Required(ix)
      /\ Required(ix) = IF ix.op = "transfer" THEN 3 ELSE 4
      /\ Extras(jx) = tail
  BY DEF Reads, Required, Extras, Transfers
<1>2. Reference \in Named(ix) <=> here # {}
  <2>1. (IF ix.op = "transfer" THEN 4 ELSE 5)..Len(ix.accounts) = tail
    BY <1>1
  <2> QED
    BY <2>1 DEF Named
<1>3. \A i \in tail : i \in 1..Len(ix.accounts)
  OBVIOUS
<1>4. ASSUME NEW safe \in BOOLEAN
      PROVE  NamesReference(s, jx, safe) <=>
               \E i \in here :
                 safe <=> ~Signs(t, Reference) /\ ~Writes(t, Reference)
  <2> HIDE DEF tail
  <2> QED
    BY <1>1, <1>3 DEF NamesReference, Reads
<1>5. here # {} => Reference \in KeysIn(AllKeys(t))
  BY <1>3 DEF Reads
<1> HIDE DEF here
<1>6. here # {} => (Reference \in Inert(t)
                      <=> ~Signs(t, Reference) /\ ~Writes(t, Reference))
  BY <1>5, InertExactly
<1> QED
  BY <1>2, <1>4, <1>6

\* One instruction that pays amount, and its circumstances.
Payment(t, ix, amount) ==
  /\ ix.program = ClassicToken
  /\ ix.op \in Transfers
  /\ Len(ix.accounts) > Required(ix)
  /\ ix.amount = amount
  /\ Source(ix) # MerchantAta
  /\ Destination(ix) = MerchantAta
  /\ {Source(ix), MerchantAta} \subseteq {k \in DOMAIN t.mints : t.mints[k] = Mint}
  /\ ix.op = "transfer_checked" => ix.decimals = Decimals /\ ix.accounts[2] = Mint
  /\ Reference \in Named(ix) \cap Inert(t)

LEMMA FitsExactly ==
  ASSUME NEW t, IsTransaction(t), NEW jx, NEW ix,
         Reads(Full(t), jx, ix, t), ix.program = ClassicToken,
         ix.op \in Transfers
  PROVE  Fits(Full(t), jx) <=> Payment(t, ix, ix.amount)
<1> DEFINE s == Full(t)
           n == Len(ix.accounts)
<1>1. /\ jx.op = ix.op /\ jx.decimals = ix.decimals
      /\ Len(jx.accounts) = n /\ n \in Nat
      /\ Required(jx) = Required(ix) /\ Required(ix) \in {3, 4}
      /\ Required(ix) = IF ix.op = "transfer" THEN 3 ELSE 4
      /\ \A i \in 1..n : /\ ix.accounts[i] \in KeysIn(AllKeys(t))
                         /\ AccountOf(s, jx, i) = ix.accounts[i]
  BY DEF Reads, Required, Transfers, AccountOf
<1>2. KeysIn(AllKeys(t)) \subseteq Keys
  BY RolesByPosition DEF Positioned, KeysIn
<1>3. Reference \in Named(ix) => n > Required(ix)
  BY <1>1 DEF Named
<1>4. ~NamesReference(s, jx, FALSE) /\ NamesReference(s, jx, TRUE)
        <=> Reference \in Named(ix) \cap Inert(t)
  BY ReferenceReadBack
<1>5. CASE n > Required(ix)
  <2>1. /\ 1 \in 1..n /\ 2 \in 1..n /\ (Required(ix) - 1) \in 1..n
        /\ ~(n < Required(ix))
    BY <1>1, <1>5
  <2>2. /\ AccountOf(s, jx, 1) = Source(ix)
        /\ DestinationOf(s, jx) = Destination(ix)
        /\ AccountOf(s, jx, 2) = ix.accounts[2]
        /\ Source(ix) \in KeysIn(AllKeys(t))
        /\ Destination(ix) \in KeysIn(AllKeys(t))
    <3>1. Destination(ix) = ix.accounts[Required(ix) - 1]
      BY <1>1 DEF Destination
    <3> QED
      BY <1>1, <2>1, <3>1 DEF Source, DestinationOf
  <2>3. None \notin {Source(ix), Destination(ix)}
    BY <1>2, <2>2, SettlementAssumption
  <2>4. \A k \in {Source(ix), Destination(ix)} :
          MintOf(s, k) # None /\ MintOf(s, k) = Mint
            <=> k \in DOMAIN t.mints /\ t.mints[k] = Mint
    BY <2>2, MintsReadBack
  <2>5. Fits(s, jx) <=>
          /\ ~(ix.op = "transfer_checked" /\ ix.decimals # Decimals)
          /\ Source(ix) # Destination(ix)
          /\ Destination(ix) = MerchantAta
          /\ ~(ix.op = "transfer_checked" /\ ix.accounts[2] # Mint)
          /\ Source(ix) \in DOMAIN t.mints /\ t.mints[Source(ix)] = Mint
          /\ Destination(ix) \in DOMAIN t.mints /\ t.mints[Destination(ix)] = Mint
          /\ Reference \in Named(ix) \cap Inert(t)
    <3> HIDE DEF s
    <3>1. /\ jx.op = ix.op /\ jx.decimals = ix.decimals
          /\ ~(Len(jx.accounts) < Required(jx))
      BY <1>1, <2>1
    <3>2. /\ MintOf(s, Source(ix)) # None /\ MintOf(s, Source(ix)) = Mint
               <=> Source(ix) \in DOMAIN t.mints /\ t.mints[Source(ix)] = Mint
          /\ MintOf(s, Destination(ix)) # None /\ MintOf(s, Destination(ix)) = Mint
               <=> Destination(ix) \in DOMAIN t.mints
                   /\ t.mints[Destination(ix)] = Mint
      BY <2>4
    <3> QED
      BY <1>4, <2>2, <2>3, <3>1, <3>2, Zenon DEF Fits
  <2> QED
    BY <1>5, <2>5 DEF Payment
<1>6. CASE ~(n > Required(ix))
  BY <1>3, <1>4, <1>6 DEF Fits, Payment
<1> QED
  BY <1>5, <1>6

\* The limits, and the programs the verifier refuses to look at.
WithinLimits(ix) ==
  /\ Len(ix.accounts) <= MaxAccounts
  /\ ix.size <= MaxData
  /\ ix.program # Token2022

\* p is the only candidate of a full answer exactly when it is a payment of
\* its own amount, every instruction is within the limits, and no other moves
\* classic tokens.
LEMMA SoleExactly ==
  ASSUME NEW t, IsTransaction(t), NEW p \in DOMAIN t.instructions
  PROVE  Sole(Full(t), p) <=>
           /\ \A q \in DOMAIN t.instructions : WithinLimits(t.instructions[q])
           /\ Payment(t, t.instructions[p], t.instructions[p].amount)
           /\ \A q \in DOMAIN t.instructions \ {p} :
                t.instructions[q].program = ClassicToken
                  => t.instructions[q].op = "other"
<1> DEFINE s == Full(t)
<1>1. Accepts(Answer(t, "none"))
  BY FullAnswersDecode DEF Accepts
<1>2. DOMAIN s.instructions = DOMAIN t.instructions
  BY <1>1, SnapshotMirrors DEF Full
<1>3. \A q \in DOMAIN t.instructions :
        Reads(s, s.instructions[q], t.instructions[q], t)
  BY <1>1, InstructionsReadBack DEF Full
<1>4. KeysIn(AllKeys(t)) \subseteq Keys
  BY RolesByPosition DEF Positioned, KeysIn
<1>5. ASSUME NEW q \in DOMAIN t.instructions
      PROVE  Admissible(s, s.instructions[q]) <=> WithinLimits(t.instructions[q])
  <2> DEFINE ix == t.instructions[q]
             jx == s.instructions[q]
  <2>1. Reads(s, jx, ix, t)
    BY <1>3
  <2> HIDE DEF ix, jx, s
  <2>2. /\ KeyAt(s, jx.program) = ix.program /\ ix.program \in Keys
        /\ jx.size = ix.size /\ ix.size \in Nat
        /\ Len(jx.accounts) = Len(ix.accounts) /\ Len(ix.accounts) \in Nat
    BY <1>4, <2>1 DEF Reads
  <2>3. ix.program # None
    BY <2>2, SettlementAssumption
  <2>4. /\ ~(Len(ix.accounts) > MaxAccounts) <=> Len(ix.accounts) <= MaxAccounts
        /\ ~(ix.size > MaxData) <=> ix.size <= MaxData
    BY <2>2, SettlementAssumption
  <2> QED
    BY <2>2, <2>3, <2>4 DEF Admissible, WithinLimits, ix, jx
<1>6. InstructionRuling(s, s.instructions[p]) = "candidate" <=>
        /\ WithinLimits(t.instructions[p])
        /\ Payment(t, t.instructions[p], t.instructions[p].amount)
  <2> DEFINE ix == t.instructions[p]
             jx == s.instructions[p]
  <2>1. /\ Reads(s, jx, ix, t)
        /\ Admissible(s, jx) <=> WithinLimits(ix)
    BY <1>3, <1>5
  <2>2. ix.program = ClassicToken /\ ix.op \in Transfers =>
          (Fits(s, jx) <=> Payment(t, ix, ix.amount))
    BY <2>1, FitsExactly
  <2>3. InstructionRuling(s, jx) = "candidate" <=>
          /\ Admissible(s, jx)
          /\ KeyAt(s, jx.program) = ClassicToken
          /\ jx.op \notin {"malformed", "other"}
          /\ Fits(s, jx)
    BY RulingExactly
  <2> HIDE DEF ix, jx, s
  <2>4. /\ KeyAt(s, jx.program) = ix.program
        /\ jx.op \notin {"malformed", "other"} <=> ix.op \in Transfers
    BY <2>1 DEF Reads, Transfers
  <2>5. Payment(t, ix, ix.amount) => ix.program = ClassicToken /\ ix.op \in Transfers
    BY DEF Payment
  <2> QED
    BY <2>1, <2>2, <2>3, <2>4, <2>5 DEF ix, jx, s
<1>7. ASSUME NEW q \in DOMAIN t.instructions
      PROVE  InstructionRuling(s, s.instructions[q]) = "skipped" <=>
               /\ WithinLimits(t.instructions[q])
               /\ t.instructions[q].program = ClassicToken
                    => t.instructions[q].op = "other"
  <2>1. InstructionRuling(s, s.instructions[q]) = "skipped" <=>
          /\ Admissible(s, s.instructions[q])
          /\ \/ KeyAt(s, s.instructions[q].program) # ClassicToken
             \/ s.instructions[q].op = "other"
    BY RulingExactly
  <2>2. /\ KeyAt(s, s.instructions[q].program) = t.instructions[q].program
        /\ s.instructions[q].op = t.instructions[q].op
    BY <1>3 DEF Reads
  <2> HIDE DEF s
  <2> QED
    BY <1>5, <2>1, <2>2
<1> HIDE DEF s
<1> QED
  BY <1>2, <1>6, <1>7 DEF Sole, s

LEMMA PaysExactly ==
  ASSUME NEW t, NEW amount
  PROVE  Pays(t, amount) <=>
           /\ t.succeeded
           /\ Len(AllKeys(t)) <= MaxAccountKeys
           /\ Len(t.instructions) <= MaxInstructions
           /\ \A p \in DOMAIN t.instructions : WithinLimits(t.instructions[p])
           /\ \E p \in DOMAIN t.instructions :
                /\ Payment(t, t.instructions[p], amount)
                /\ \A q \in DOMAIN t.instructions \ {p} :
                     t.instructions[q].program = ClassicToken
                       => t.instructions[q].op = "other"
  BY DEF Pays, WithinLimits, Payment

\* A full answer is judged exact when and only when the transaction pays.
LEMMA ExactExactly ==
  ASSUME NEW t, IsTransaction(t)
  PROVE  AssessSettlement(Full(t), Amount).kind = "exact" <=> Pays(t, Amount)
<1> DEFINE s == Full(t)
           amount(p) == t.instructions[p].amount
           Within == \A q \in DOMAIN t.instructions : WithinLimits(t.instructions[q])
           Alone(p) == \A q \in DOMAIN t.instructions \ {p} :
                         t.instructions[q].program = ClassicToken
                           => t.instructions[q].op = "other"
<1>1. Accepts(Answer(t, "none"))
  BY FullAnswersDecode DEF Accepts
<1>2. /\ Mirrors(s.accounts, t)
      /\ DOMAIN s.instructions = DOMAIN t.instructions
      /\ DOMAIN t.instructions \subseteq Nat
  BY <1>1, SnapshotMirrors DEF Full
<1>3. /\ s.succeeded = t.succeeded
      /\ Len(s.accounts) = Len(AllKeys(t))
      /\ Len(AllKeys(t)) \in Nat
  <2> DEFINE answer == Answer(t, "none")
  <2>1. answer.succeeded = t.succeeded
    BY DEF Answer
  <2> HIDE DEF answer
  <2>2. Snapshot(answer).succeeded = answer.succeeded
    BY DEF Snapshot
  <2>3. s.succeeded = t.succeeded
    BY <2>1, <2>2 DEF Full, answer
  <2>4. Positioned(t) /\ End6(t) \in Nat
    BY RolesByPosition, EndsAreNumbers
  <2> HIDE DEF s
  <2>5. Len(s.accounts) = End6(t) /\ Len(AllKeys(t)) = End6(t)
    BY <1>2, <2>4 DEF Mirrors, Positioned
  <2> QED
    BY <2>3, <2>4, <2>5
<1>4. Len(s.instructions) = Len(t.instructions) /\ Len(t.instructions) \in Nat
  <2> DEFINE a == t.instructions
             b == s.instructions
             Ix == [program : KeysIn(AllKeys(t)), accounts : Seq(KeysIn(AllKeys(t))),
                    op : {"malformed", "transfer", "transfer_checked", "other"},
                    amount : Nat, decimals : Nat, size : Nat]
  <2>1. a \in Seq(Ix) /\ DOMAIN b = DOMAIN a
    BY <1>2 DEF IsTransaction
  <2>2. b = [i \in DOMAIN a |-> b[i]]
    BY DEF Full, Snapshot, Answer
  <2> HIDE DEF a, b, Ix
  <2> QED
    BY <2>1, <2>2 DEF a, b
<1>5. \A p \in DOMAIN t.instructions :
        /\ amount(p) \in Nat
        /\ s.instructions[p].amount = amount(p)
  BY AmountsAreNumbers DEF Full
<1>6. \A p \in DOMAIN t.instructions :
        Sole(s, p) <=> Within /\ Payment(t, t.instructions[p], amount(p)) /\ Alone(p)
  BY SoleExactly
<1>7. Pays(t, Amount) <=>
        /\ t.succeeded
        /\ Len(AllKeys(t)) <= MaxAccountKeys
        /\ Len(t.instructions) <= MaxInstructions
        /\ Within
        /\ \E p \in DOMAIN t.instructions :
             Payment(t, t.instructions[p], Amount) /\ Alone(p)
  BY PaysExactly
<1>8. \A p \in DOMAIN t.instructions :
        Payment(t, t.instructions[p], Amount) <=>
          Payment(t, t.instructions[p], amount(p)) /\ amount(p) = Amount
  BY DEF Payment
<1> HIDE DEF s, amount, Within, Alone
<1>9. Amount \in Nat /\ Amount # 0
      /\ MaxAccountKeys \in Nat /\ MaxInstructions \in Nat
  BY SettlementAssumption
<1>10. \A m, p, v : /\ Rejected(v).kind = "rejected"
                    /\ Short(m, p).kind = "underpayment"
                    /\ Exact(m, p).kind = "exact"
  BY DEF Rejected, Short, Exact
<1>11. Judge(s, Amount).kind = "exact" <=>
         \E p \in DOMAIN t.instructions : Sole(s, p) /\ amount(p) = Amount
  <2>1. ASSUME NEW p, Sole(s, p)
        PROVE  /\ p \in DOMAIN t.instructions
               /\ Judge(s, Amount).kind = "exact" <=> amount(p) = Amount
    <3> DEFINE m == s.instructions[p].amount
    <3>1. p \in DOMAIN t.instructions
      BY <1>2, <2>1 DEF Sole
    <3>2. Judge(s, Amount) = IF m > Amount \/ m = 0 THEN Rejected("wrong_amount")
                             ELSE IF m < Amount THEN Short(m, p) ELSE Exact(m, p)
      BY <1>2, <2>1, SoleIsJudged
    <3>3. m = amount(p) /\ amount(p) \in Nat
      BY <1>5, <3>1
    <3> HIDE DEF m
    <3>4. CASE m = Amount
      BY <1>9, <1>10, <3>1, <3>2, <3>3, <3>4
    <3>5. CASE m # Amount
      <4>1. m > Amount \/ m < Amount
        BY <1>9, <3>3, <3>5
      <4> QED
        BY <1>10, <3>1, <3>2, <3>3, <3>5, <4>1
    <3> QED
      BY <3>4, <3>5
  <2>2. Judge(s, Amount).kind = "exact" => \E p : Sole(s, p)
    BY <1>2, AcceptedIsSole
  <2> QED
    BY <2>1, <2>2
<1>12. AssessSettlement(s, Amount).kind = "exact" <=>
         /\ t.succeeded
         /\ Len(AllKeys(t)) <= MaxAccountKeys
         /\ Len(t.instructions) <= MaxInstructions
         /\ Judge(s, Amount).kind = "exact"
  <2>1. /\ ~(Len(AllKeys(t)) > MaxAccountKeys) <=> Len(AllKeys(t)) <= MaxAccountKeys
        /\ ~(Len(t.instructions) > MaxInstructions)
             <=> Len(t.instructions) <= MaxInstructions
    BY <1>3, <1>4, <1>9
  <2> QED
    BY <1>3, <1>4, <1>10, <2>1 DEF AssessSettlement
<1> QED
  BY <1>6, <1>7, <1>8, <1>11, <1>12 DEF s

\* A customer who pays as asked is never sent to review, and what is exact
\* was paid as asked, whatever the layout of the accounts, the order of the
\* instructions and the programs beside them (assess_settlement).
THEOREM PaymentsAlwaysAccepted == Spec => []PaymentsAreAccepted
<1>1. ASSUME StageInv
      PROVE  PaymentsAreAccepted
  <2> SUFFICES ASSUME outcome # None, response = Answer(tx, "none"),
                      outcome.verdict \notin
                        {"duplicate_signature", "reference_reused"}
               PROVE  outcome.kind = "exact" <=> Pays(tx, Amount)
    BY DEF PaymentsAreAccepted
  <2>1. IsTransaction(tx)
    BY <1>1, SettlementAssumption DEF StageInv
  <2>2. Accepts(response)
    BY <2>1, FullAnswersDecode DEF Accepts
  <2>3. /\ snapshot # None
        /\ \E a, b \in BOOLEAN : outcome = AssessOnce(snapshot, a, b)
    BY <1>1, <2>2 DEF StageInv, Assessed
  <2>4. snapshot = Full(tx)
    BY <1>1, <2>3 DEF StageInv, Decoded, Full
  <2>5. \A v : Rejected(v).verdict = v
    BY DEF Rejected
  <2>6. outcome = AssessSettlement(Full(tx), Amount)
    BY <2>3, <2>4, <2>5 DEF AssessOnce
  <2> QED
    BY <2>1, <2>6, ExactExactly
<1> QED
  BY <1>1, StageInvariance, PTL

=============================================================================
