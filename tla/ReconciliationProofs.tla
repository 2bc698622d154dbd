------------------------ MODULE ReconciliationProofs ------------------------
(***************************************************************************)
(* Theorems of the running system, for any number of processes of any      *)
(* kind: what they do to the ledger are transactions of the ledger, so     *)
(* that the theorems of LedgerProofs hold of it, and the lease is safe.    *)
(***************************************************************************)
EXTENDS Reconciliation, LedgerProofs, Integers, LeastNumber

-----------------------------------------------------------------------------
(***************************************************************************)
(* Least and greatest members.                                             *)
(***************************************************************************)

\* The oldest of the receivables, or notifications, still to do is one of
\* them.
LEMMA LeastMember ==
  ASSUME NEW S, S \subseteq Nat, S # {}
  PROVE  Least(S) \in S
  BY LeastExists DEF Least

\* The newest of the candidates still to assess is one of them.
LEMMA GreatestMember ==
  ASSUME NEW m \in Nat, NEW S, S \subseteq 1..m, S # {}
  PROVE  Greatest(S) \in S
<1> DEFINE T == {k \in Nat : \E n \in S : k = m - n}
<1>1. T \subseteq Nat /\ T # {}
  <2>1. PICK n \in S : TRUE
    OBVIOUS
  <2>2. m - n \in T
    BY <2>1
  <2> QED
    BY <2>2
<1>2. PICK t \in T : \A k \in T : t <= k
  <2> HIDE DEF T
  <2> QED
    BY <1>1, LeastExists
<1>3. PICK n \in S : t = m - n
  OBVIOUS
<1>4. ASSUME NEW k \in S
      PROVE  k <= n
  <2>1. m - k \in T
    OBVIOUS
  <2>2. m - n <= m - k
    BY <1>2, <1>3, <2>1
  <2> QED
    BY <2>2
<1> QED
  BY <1>4 DEF Greatest

-----------------------------------------------------------------------------
(***************************************************************************)
(* The inductive invariant.  What a process has read stays true although   *)
(* others write: the book, the chain and the outbox only grow, and a       *)
(* receivable that has a row keeps it.                                     *)
(***************************************************************************)
Checking ==
  {"read", "candidate", "value", "fetch", "resolved", "assess", "verify",
   "record"}

Mailing == {"send", "acknowledge", "receipt"}

Statuses == States \cup {"absent", "pending", "incomplete"}

Mail ==
  [notification : Nat, status : Statuses, evidence : Fingerprint \cup {None}]

WorkerRecord ==
  [pc : Checking \cup Mailing \cup
          {"idle", "list", "next", "pending", "notice", "release"},
   job : {"pass", "notices"},
   todo : SUBSET Nat,
   polls : Int,
   id : Receivables \cup {None},
   fetched : SUBSET Nat,
   left : SUBSET Nat,
   seen : SUBSET Evidence,
   found : Evidence \cup {None},
   notices : SUBSET Nat,
   mail : Seq(Mail)]

\* What a record says of the book, the chain, the outbox and the states.
Sound(me, bk, ch, ob, st) ==
  /\ me.todo \subseteq DOMAIN bk
  /\ me.notices \subseteq DOMAIN ob
  /\ \A n \in DOMAIN me.mail : me.mail[n].notification \in DOMAIN ob
  /\ me.pc \in Mailing => me.mail # <<>>
  /\ me.pc \in {"list", "next"} => me.job = "pass"
  /\ me.pc \in Checking =>
       /\ me.id \in Receivables
       /\ st[me.id] # "absent"
       /\ me.job = "notices" => me.notices # {}
  /\ me.left \subseteq DOMAIN ch
  /\ me.pc \in {"resolved", "assess"} =>
       \A n \in me.left : Verdict[me.id][ch[n]] # None
  /\ me.pc \in {"verify", "record"} => me.found \in Evidence

RecordsOK ==
  /\ worker \in [Workers -> WorkerRecord]
  /\ \A w \in Workers : Sound(worker[w], book, chain, outbox, state)

Outside == Mailing \cup {"idle"}

LeaseOK ==
  /\ lease \in [holder : Workers \cup {None, Orphan}, live : BOOLEAN]
  /\ lease.holder \in Workers =>
       /\ Leased(lease.holder)
       /\ worker[lease.holder].pc \notin Outside
  /\ lease.live => lease.holder # None

BookOK ==
  /\ book \in Seq(Receivables)
  /\ chain \in Seq(Signatures)
  /\ \A id \in Receivables :
       (\E n \in DOMAIN book : book[n] = id) <=> state[id] # "absent"
  /\ \A n \in DOMAIN outbox : state[outbox[n].evidence.id] # "absent"

RunInv == ReviewInv /\ RecordsOK /\ LeaseOK /\ BookOK

LEMMA SoundStays ==
  ASSUME NEW me, NEW bk, NEW bk2, NEW ch, NEW ch2, NEW ob, NEW ob2,
         NEW st, NEW st2,
         Sound(me, bk, ch, ob, st),
         Extended(bk, bk2), Extended(ch, ch2), Extended(ob, ob2),
         \A id \in Receivables : st[id] # "absent" => st2[id] # "absent"
  PROVE  Sound(me, bk2, ch2, ob2, st2)
  BY DEF Sound, Extended

-----------------------------------------------------------------------------
(***************************************************************************)
(* What any step of a process does, given what it writes to its record.    *)
(***************************************************************************)

\* The transactions of the ledger other than create_or_get.
Transaction ==
  \/ \E f \in Evidence : MarkPaymentVerified(f)
  \/ \E f \in Evidence : MarkReviewCandidate(f)
  \/ \E f \in Evidence, action \in Actions, reason \in Reasons \cup {None} :
       ResolveReview(f, action, reason)
  \/ \E id \in Receivables, q \in Quotes : AttachValuation(id, q)
  \/ \E n \in DOMAIN outbox, receipt \in Receipts : InsertReceipt(n, receipt)
  \/ UNCHANGED ledgerVars

LEMMA TransactionIsLedgerStep ==
  Transaction => [LedgerNext]_ledgerVars
  BY DEF Transaction, LedgerNext

LEMMA OutboxRows ==
  ASSUME TypeOK, NEW n \in DOMAIN outbox
  PROVE  /\ n \in Nat
         /\ outbox[n] \in Notification
         /\ outbox[n].evidence.id \in Receivables
<1>1. n \in Nat /\ outbox[n] \in Notification
  BY DEF TypeOK
<1>2. outbox[n].evidence \in Fingerprint
  BY <1>1 DEF Notification
<1> QED
  BY <1>1, <1>2 DEF Fingerprint

\* A new notification goes to the end of the outbox.
LEMMA NotifyExtends ==
  ASSUME TypeOK, NEW f \in Evidence,
         NEW status \in {"payment_verified", "needs_review"},
         Notify(f, status), state'[f.id] # "absent",
         \A id \in Receivables : state'[id] = "absent" <=> state[id] = "absent",
         \A n \in DOMAIN outbox : state[outbox[n].evidence.id] # "absent"
  PROVE  /\ Extended(outbox, outbox')
         /\ \A n \in DOMAIN outbox' : state'[outbox'[n].evidence.id] # "absent"
<1> DEFINE row == [evidence |-> f, status |-> status]
<1>1. row \in Notification /\ row.evidence = f
  BY EvidenceFields DEF Notification
<1>2. outbox \in Seq(Notification) /\ outbox' = Append(outbox, row)
  BY DEF TypeOK, Notify
<1> HIDE DEF row
<1>3. Extended(outbox, outbox')
  BY <1>1, <1>2, AppendExtends
<1>4. ASSUME NEW n \in DOMAIN outbox'
      PROVE  state'[outbox'[n].evidence.id] # "absent"
  <2>1. CASE n \in DOMAIN outbox
    <3>1. outbox'[n] = outbox[n]
      BY <1>3, <2>1 DEF Extended
    <3>2. outbox[n].evidence.id \in Receivables
      BY <2>1, OutboxRows
    <3> QED
      BY <2>1, <3>1, <3>2
  <2>2. CASE n \notin DOMAIN outbox
    <3>1. outbox'[n] = row
      BY <1>1, <1>2, <2>2
    <3> QED
      BY <1>1, <3>1
  <2> QED
    BY <2>1, <2>2
<1> QED
  BY <1>3, <1>4

\* Transactions neither issue nor delete receivables, and the outbox grows.
LEMMA TransactionExtends ==
  ASSUME ReviewInv, BookOK, Transaction
  PROVE  /\ \A id \in Receivables : state'[id] = "absent" <=> state[id] = "absent"
         /\ Extended(outbox, outbox')
         /\ \A n \in DOMAIN outbox' : state'[outbox'[n].evidence.id] # "absent"
<1> USE DEF ReviewInv, TypeInv
<1> DEFINE Same == \A id \in Receivables :
                     state'[id] = "absent" <=> state[id] = "absent"
<1>1. CASE \E f \in Evidence : MarkPaymentVerified(f)
  <2>1. PICK f \in Evidence : MarkPaymentVerified(f)
    BY <1>1
  <2>2. Same /\ state'[f.id] # "absent" /\ Notify(f, "payment_verified")
    BY <2>1, EvidenceFields DEF MarkPaymentVerified, CanVerify, TypeOK
  <2> QED
    BY <2>2, NotifyExtends DEF BookOK
<1>2. CASE \E f \in Evidence : MarkReviewCandidate(f)
  <2>1. PICK f \in Evidence : MarkReviewCandidate(f)
    BY <1>2
  <2>2. Same /\ state'[f.id] # "absent" /\ Notify(f, "needs_review")
    BY <2>1, EvidenceFields DEF MarkReviewCandidate, CanReview, TypeOK
  <2> QED
    BY <2>2, NotifyExtends DEF BookOK
<1>3. CASE Same /\ UNCHANGED outbox
  <2>1. \A n \in DOMAIN outbox : outbox[n].evidence.id \in Receivables
    BY OutboxRows
  <2> QED
    BY <1>3, <2>1, SelfExtended DEF BookOK
<1>4. CASE \E f \in Evidence, action \in Actions,
              reason \in Reasons \cup {None} :
             ResolveReview(f, action, reason)
  <2>1. PICK f \in Evidence, action \in Actions :
          /\ state[f.id] = "needs_review"
          /\ state' = [state EXCEPT ![f.id] = TargetState(action)]
          /\ outbox' = outbox
    BY <1>4 DEF ResolveReview, CanResolve
  <2>2. TargetState(action) # "absent" /\ f.id \in Receivables
    BY TargetStates, EvidenceFields
  <2>3. Same
    BY <2>1, <2>2 DEF TypeOK
  <2> QED
    BY <1>3, <2>1, <2>3
<1>5. CASE UNCHANGED <<state, outbox>>
  BY <1>3, <1>5
<1> QED
  BY <1>1, <1>2, <1>4, <1>5
  DEF Transaction, AttachValuation, InsertReceipt, ledgerVars

\* The other processes' records stay sound.
LEMMA RecordsStay ==
  ASSUME RecordsOK, NEW w \in Workers, NEW r \in WorkerRecord, Become(w, r),
         Sound(r, book, chain, outbox, state),
         Extended(book, book'), Extended(chain, chain'),
         Extended(outbox, outbox'),
         \A id \in Receivables : state[id] # "absent" => state'[id] # "absent"
  PROVE  RecordsOK'
<1>1. worker' \in [Workers -> WorkerRecord]
  BY DEF RecordsOK, Become
<1>2. ASSUME NEW v \in Workers
      PROVE  Sound(worker'[v], book', chain', outbox', state')
  <2>1. Sound(worker'[v], book, chain, outbox, state)
    BY DEF RecordsOK, Become
  <2> QED
    BY <2>1, SoundStays
<1> QED
  BY <1>1, <1>2 DEF RecordsOK

\* A step of a process that writes r to its record, runs at most one
\* transaction, and leaves the lease, the chain and the book alone.
LEMMA OwnStep ==
  ASSUME RunInv, NEW w \in Workers, NEW r \in WorkerRecord, Become(w, r),
         Sound(r, book, chain, outbox, state),
         Leased(w) /\ worker[w].pc \notin Outside => r.pc \notin Outside,
         Transaction, UNCHANGED <<lease, chain, book>>
  PROVE  RunInv'
<1>1. ReviewInv'
  BY TransactionIsLedgerStep, ReviewStep DEF RunInv
<1>2. /\ \A id \in Receivables : state'[id] = "absent" <=> state[id] = "absent"
      /\ Extended(outbox, outbox')
      /\ \A n \in DOMAIN outbox' : state'[outbox'[n].evidence.id] # "absent"
  BY TransactionExtends DEF RunInv
<1>3. Extended(book, book') /\ Extended(chain, chain')
  BY SelfExtended
<1>4. RecordsOK'
  BY <1>2, <1>3, RecordsStay DEF RunInv
<1>5. LeaseOK'
  <2>1. ASSUME lease.holder \in Workers
        PROVE  worker'[lease.holder].pc \notin Outside
    BY <2>1 DEF RunInv, LeaseOK, RecordsOK, Become
  <2> QED
    BY <2>1 DEF RunInv, LeaseOK, Leased
<1>6. BookOK'
  BY <1>2 DEF RunInv, BookOK
<1> QED
  BY <1>1, <1>4, <1>5, <1>6 DEF RunInv

-----------------------------------------------------------------------------
(***************************************************************************)
(* The steps of a process.                                                 *)
(***************************************************************************)

\* A process that has nothing to do, or only its lease to release.
LEMMA IdleRecord ==
  /\ Idle \in WorkerRecord
  /\ Sound(Idle, book, chain, outbox, state)
<1>1. <<>> \in Seq(Mail) /\ DOMAIN <<>> = {}
  OBVIOUS
<1>2. Idle \in WorkerRecord
  BY <1>1 DEF Idle, WorkerRecord
<1>3. Sound(Idle, book, chain, outbox, state)
  BY <1>1 DEF Idle, Sound, Checking, Mailing
<1> QED
  BY <1>2, <1>3

LEMMA FailedRecord ==
  ASSUME NEW w \in Workers
  PROVE  /\ Failed(w) \in WorkerRecord
         /\ Sound(Failed(w), book, chain, outbox, state)
         /\ Leased(w) => Failed(w).pc = "release"
<1>1. CASE Leased(w)
  <2>1. <<>> \in Seq(Mail) /\ DOMAIN <<>> = {}
    OBVIOUS
  <2>2. Failed(w) = [Idle EXCEPT !.pc = "release"]
    BY <1>1 DEF Failed
  <2>3. Failed(w) \in WorkerRecord /\ Failed(w).pc = "release"
    BY <2>2, IdleRecord DEF WorkerRecord
  <2>4. /\ Failed(w).todo = {} /\ Failed(w).notices = {}
        /\ Failed(w).left = {} /\ Failed(w).mail = <<>>
    BY <2>2 DEF Idle
  <2>5. Sound(Failed(w), book, chain, outbox, state)
    BY <2>1, <2>3, <2>4 DEF Sound, Checking, Mailing
  <2> QED
    BY <2>3, <2>5
<1>2. CASE ~Leased(w)
  BY <1>2, IdleRecord DEF Failed
<1> QED
  BY <1>1, <1>2

\* A step that touches nothing but a process's record.
LEMMA OnlyStep ==
  ASSUME RunInv, NEW w \in Workers, NEW r \in WorkerRecord, Only(w, r),
         Sound(r, book, chain, outbox, state),
         Leased(w) /\ worker[w].pc \notin Outside => r.pc \notin Outside
  PROVE  RunInv'
  BY OwnStep DEF Only, Transaction

\* Whatever a check answers, its process goes on soundly.
LEMMA AnsweredRecord ==
  ASSUME RunInv, NEW w \in Workers, worker[w].pc \in Checking,
         NEW status \in Statuses, NEW f \in Fingerprint \cup {None}
  PROVE  /\ Answered(w, status, f) \in WorkerRecord
         /\ Sound(Answered(w, status, f), book, chain, outbox, state)
         /\ Leased(w) => Answered(w, status, f).pc \notin Outside
<1> DEFINE me == worker[w]
           rest == [me EXCEPT !.pc = IF me.job = "notices" THEN "notice" ELSE "next",
                              !.id = None, !.fetched = {}, !.left = {},
                              !.seen = {}, !.found = None,
                              !.polls = IF Kind[w] = "watch" THEN @ ELSE 1]
           n == Least(me.notices)
           mail == [notification |-> n, status |-> status, evidence |-> f]
           told == [rest EXCEPT !.notices = @ \ {Least(@)},
                                !.mail = Append(@, mail)]
<1>1. me \in WorkerRecord /\ Sound(me, book, chain, outbox, state)
  BY DEF RunInv, RecordsOK
<1> HIDE DEF me
<1>2. /\ rest \in WorkerRecord
      /\ rest.notices = me.notices /\ rest.mail = me.mail
      /\ rest.todo = me.todo /\ rest.left = {}
      /\ rest.pc = IF me.job = "notices" THEN "notice" ELSE "next"
      /\ rest.job = me.job /\ rest.job \in {"pass", "notices"}
  <2>1. me.polls \in Int /\ 1 \in Int
    BY <1>1 DEF WorkerRecord
  <2>2. (IF Kind[w] = "watch" THEN me.polls ELSE 1) \in Int
    BY <2>1
  <2>3. (IF me.job = "notices" THEN "notice" ELSE "next") \in {"notice", "next"}
    OBVIOUS
  <2> QED
    BY <1>1, <2>2, <2>3 DEF WorkerRecord
<1> HIDE DEF rest
<1>3. Sound(rest, book, chain, outbox, state)
  BY <1>1, <1>2 DEF Sound, Checking, Mailing
<1>4. rest.pc \notin Outside
  BY <1>2 DEF Outside, Mailing
<1>5. ASSUME me.job = "notices"
      PROVE  /\ told \in WorkerRecord
             /\ Sound(told, book, chain, outbox, state)
             /\ told.pc \notin Outside
  <2>1. me.notices # {} /\ me.notices \subseteq Nat
        /\ me.notices \subseteq DOMAIN outbox
    BY <1>1, <1>5 DEF Sound, WorkerRecord, me
  <2>2. n \in DOMAIN outbox /\ n \in Nat
    BY <2>1, LeastMember
  <2> HIDE DEF n
  <2>3. mail \in Mail /\ mail.notification = n
    BY <2>2 DEF Mail
  <2> HIDE DEF mail
  <2>4. rest.mail \in Seq(Mail)
    BY <1>2 DEF WorkerRecord
  <2>5. Append(rest.mail, mail) \in Seq(Mail)
    BY <2>3, <2>4
  <2>6. /\ told \in WorkerRecord
        /\ told.mail = Append(rest.mail, mail)
        /\ told.notices \subseteq rest.notices
        /\ told.pc = rest.pc /\ told.job = rest.job /\ told.left = rest.left
        /\ told.todo = rest.todo
    BY <1>2, <2>5 DEF WorkerRecord
  <2>7. \A k \in DOMAIN Append(rest.mail, mail) :
          Append(rest.mail, mail)[k].notification \in DOMAIN outbox
    <3> SUFFICES ASSUME NEW k \in DOMAIN Append(rest.mail, mail)
                 PROVE  Append(rest.mail, mail)[k].notification \in DOMAIN outbox
      OBVIOUS
    <3>1. CASE k \in DOMAIN rest.mail
      <4>1. Append(rest.mail, mail)[k] = rest.mail[k]
        BY <2>4, <3>1
      <4> QED
        BY <1>3, <3>1, <4>1 DEF Sound
    <3>2. CASE k \notin DOMAIN rest.mail
      <4>1. Append(rest.mail, mail)[k] = mail
        BY <2>4, <3>2
      <4> QED
        BY <2>2, <2>3, <4>1
    <3> QED
      BY <3>1, <3>2
  <2> HIDE DEF told
  <2> QED
    BY <1>2, <1>3, <1>4, <2>6, <2>7 DEF Sound, Checking, Mailing
<1>6. CASE me.job = "notices"
  <2>1. Answered(w, status, f) \in {told, Failed(w)}
    BY <1>6 DEF Answered, rest, me
  <2> HIDE DEF told
  <2> QED
    BY <1>5, <1>6, <2>1, FailedRecord DEF Outside, Mailing
<1>7. CASE me.job = "pass" /\ Kind[w] = "check"
  <2>1. Answered(w, status, f) = Idle /\ ~Leased(w)
    BY <1>7 DEF Answered, rest, me, Leased
  <2> QED
    BY <2>1, IdleRecord
<1>8. CASE me.job = "pass" /\ Kind[w] # "check"
  <2>1. Answered(w, status, f) \in {rest, Failed(w)}
    BY <1>8 DEF Answered, rest, me
  <2> QED
    BY <1>2, <1>3, <1>4, <2>1, FailedRecord DEF Outside, Mailing
<1> QED
  BY <1>1, <1>6, <1>7, <1>8 DEF WorkerRecord

\* The steps of a pass outside its checks.
LEMMA ListStep ==
  ASSUME RunInv, NEW w \in Workers, List(w)
  PROVE  RunInv'
<1> DEFINE r == [worker[w] EXCEPT !.pc = "next", !.todo = Listed(w)]
<1>1. worker[w] \in WorkerRecord
      /\ Sound(worker[w], book, chain, outbox, state)
  BY DEF RunInv, RecordsOK
<1>2. Listed(w) \subseteq DOMAIN book /\ DOMAIN book \subseteq Nat
  BY DEF Listed, Limit, RunInv, BookOK
<1>3. r \in WorkerRecord /\ r.pc = "next"
  BY <1>1, <1>2 DEF WorkerRecord
<1>4. Sound(r, book, chain, outbox, state)
  BY <1>1, <1>2 DEF List, At, Sound, WorkerRecord, Checking, Mailing
<1>5. Only(w, r)
  BY DEF List
<1> HIDE DEF r
<1> QED
  BY <1>3, <1>4, <1>5, OnlyStep DEF Outside, Mailing

LEMMA NextReceivableStep ==
  ASSUME RunInv, NEW w \in Workers, NextReceivable(w)
  PROVE  RunInv'
<1> DEFINE me == worker[w]
<1>1. me \in WorkerRecord /\ Sound(me, book, chain, outbox, state)
  BY DEF RunInv, RecordsOK
<1>2. CASE me.todo # {}
  <2> DEFINE n == Least(me.todo)
             rest == IF me.polls > 1 THEN me.todo ELSE me.todo \ {n}
             id == book[n]
             polls == me.polls - 1
             r == [me EXCEPT !.pc = "read", !.id = id, !.polls = polls,
                             !.todo = rest]
  <2>1. Only(w, r) /\ me.pc = "next" /\ me.job = "pass"
    BY <1>1, <1>2 DEF NextReceivable, At, Sound
  <2>2. n \in DOMAIN book
    BY <1>1, <1>2, LeastMember DEF Sound, WorkerRecord
  <2>3. rest \subseteq me.todo
    OBVIOUS
  <2>4. id \in Receivables /\ state[id] # "absent"
    BY <2>2 DEF RunInv, BookOK
  <2>5. polls \in Int
    BY <1>1 DEF WorkerRecord
  <2> HIDE DEF n, rest, id, polls
  <2>6. r \in WorkerRecord /\ r.pc = "read"
    BY <1>1, <2>3, <2>4, <2>5 DEF WorkerRecord, Checking
  <2>7. Sound(r, book, chain, outbox, state)
    BY <1>1, <2>1, <2>3, <2>4 DEF Sound, WorkerRecord, Checking, Mailing
  <2> HIDE DEF r
  <2> QED
    BY <2>1, <2>6, <2>7, OnlyStep DEF Outside, Mailing
<1>3. CASE me.todo = {} /\ Kind[w] \in {"background", "hot"}
  <2> DEFINE r == [me EXCEPT !.pc = "pending", !.job = "notices"]
  <2>1. Only(w, r)
    BY <1>3 DEF NextReceivable
  <2>2. r \in WorkerRecord /\ r.pc = "pending"
    BY <1>1 DEF WorkerRecord
  <2>3. Sound(r, book, chain, outbox, state)
    BY <1>1 DEF Sound, WorkerRecord, Checking, Mailing
  <2> HIDE DEF r
  <2> QED
    BY <2>1, <2>2, <2>3, OnlyStep DEF Outside, Mailing
<1>4. CASE me.todo = {} /\ Kind[w] \notin {"background", "hot"}
  <2>1. Only(w, Failed(w))
    BY <1>4 DEF NextReceivable
  <2> QED
    BY <2>1, FailedRecord, OnlyStep DEF Outside, Mailing
<1> QED
  BY <1>2, <1>3, <1>4

LEMMA ReadPendingStep ==
  ASSUME RunInv, NEW w \in Workers, ReadPending(w)
  PROVE  RunInv'
<1> DEFINE due == Limit(Pending, MaxNotices)
           r == [worker[w] EXCEPT !.pc = "notice", !.notices = due]
<1>1. worker[w] \in WorkerRecord
      /\ Sound(worker[w], book, chain, outbox, state)
  BY DEF RunInv, RecordsOK
<1>2. due \subseteq DOMAIN outbox /\ due \subseteq Nat
  BY DEF Limit, Pending, RunInv, ReviewInv, TypeInv, TypeOK
<1> HIDE DEF due
<1>3. r \in WorkerRecord /\ r.pc = "notice"
  BY <1>1, <1>2 DEF WorkerRecord
<1>4. Sound(r, book, chain, outbox, state)
  BY <1>1, <1>2 DEF Sound, WorkerRecord, Checking, Mailing
<1>5. Only(w, r)
  BY DEF ReadPending, due
<1> HIDE DEF r
<1> QED
  BY <1>3, <1>4, <1>5, OnlyStep DEF Outside, Mailing

LEMMA NextNoticeStep ==
  ASSUME RunInv, NEW w \in Workers, NextNotice(w)
  PROVE  RunInv'
<1> DEFINE me == worker[w]
<1>1. me \in WorkerRecord /\ Sound(me, book, chain, outbox, state)
  BY DEF RunInv, RecordsOK
<1>2. CASE me.notices = {}
  <2> DEFINE r == [me EXCEPT !.pc = "release"]
  <2>1. Only(w, r)
    BY <1>2 DEF NextNotice
  <2>2. r \in WorkerRecord /\ r.pc = "release"
    BY <1>1 DEF WorkerRecord
  <2>3. Sound(r, book, chain, outbox, state)
    BY <1>1 DEF Sound, WorkerRecord, Checking, Mailing
  <2> HIDE DEF r
  <2> QED
    BY <2>1, <2>2, <2>3, OnlyStep DEF Outside, Mailing
<1>3. CASE me.notices # {}
  <2> DEFINE id == outbox[Least(me.notices)].evidence.id
             r == [me EXCEPT !.pc = "read", !.id = id]
  <2>1. Only(w, r)
    BY <1>3 DEF NextNotice
  <2>2. Least(me.notices) \in DOMAIN outbox
    BY <1>1, <1>3, LeastMember DEF Sound, WorkerRecord
  <2>3. id \in Receivables /\ state[id] # "absent"
    BY <2>2, OutboxRows DEF RunInv, BookOK, ReviewInv, TypeInv
  <2> HIDE DEF id
  <2>4. r \in WorkerRecord /\ r.pc = "read"
    BY <1>1, <2>3 DEF WorkerRecord, Checking
  <2>5. Sound(r, book, chain, outbox, state)
    BY <1>1, <1>3, <2>3 DEF Sound, WorkerRecord, Checking, Mailing
  <2> HIDE DEF r
  <2> QED
    BY <2>1, <2>4, <2>5, OnlyStep DEF Outside, Mailing
<1> QED
  BY <1>2, <1>3

-----------------------------------------------------------------------------
(***************************************************************************)
(* The steps of a check.                                                   *)
(***************************************************************************)

\* A step from one place of a check to another.
LEMMA GotoStep ==
  ASSUME RunInv, NEW w \in Workers, worker[w].pc \in Checking,
         NEW pc \in {"candidate", "value", "fetch"},
         Only(w, [worker[w] EXCEPT !.pc = pc])
  PROVE  RunInv'
<1> DEFINE r == [worker[w] EXCEPT !.pc = pc]
<1>1. worker[w] \in WorkerRecord
      /\ Sound(worker[w], book, chain, outbox, state)
  BY DEF RunInv, RecordsOK
<1>2. r \in WorkerRecord /\ r.pc = pc
  BY <1>1 DEF WorkerRecord, Checking
<1>3. Sound(r, book, chain, outbox, state)
  BY <1>1 DEF Sound, WorkerRecord, Checking, Mailing
<1> HIDE DEF r
<1> QED
  BY <1>2, <1>3, OnlyStep DEF r, Outside, Mailing

LEMMA AnswerStep ==
  ASSUME RunInv, NEW w \in Workers, worker[w].pc \in Checking,
         NEW status \in Statuses, NEW f \in Fingerprint \cup {None},
         Answer(w, status, f)
  PROVE  RunInv'
  BY AnsweredRecord, OnlyStep DEF Answer

\* A step of a check that also runs a transaction.
LEMMA AnswerTransaction ==
  ASSUME RunInv, NEW w \in Workers, worker[w].pc \in Checking,
         NEW status \in Statuses, NEW f \in Fingerprint \cup {None},
         Become(w, Answered(w, status, f)), Transaction,
         UNCHANGED <<lease, chain, book>>
  PROVE  RunInv'
  BY AnsweredRecord, OwnStep

LEMMA FailStep ==
  ASSUME RunInv, NEW w \in Workers, Only(w, Failed(w))
  PROVE  RunInv'
  BY FailedRecord, OnlyStep DEF Outside, Mailing

LEMMA ReadStep ==
  ASSUME RunInv, NEW w \in Workers, Read(w)
  PROVE  RunInv'
<1> DEFINE id == worker[w].id
<1>1. worker[w].pc = "read" /\ id \in Receivables /\ state[id] \in States
  BY DEF Read, At, RunInv, RecordsOK, Sound, Checking, ReviewInv, TypeInv, TypeOK
<1>2. CASE state[id] = "open"
  <2>1. Only(w, [worker[w] EXCEPT !.pc = "fetch"])
    BY <1>2 DEF Read, Settled
  <2> QED
    BY <1>1, <2>1, GotoStep DEF Checking
<1>3. CASE state[id] = "needs_review"
  <2>1. Only(w, [worker[w] EXCEPT !.pc = "candidate"])
    BY <1>3 DEF Read, Settled
  <2> QED
    BY <1>1, <2>1, GotoStep DEF Checking
<1>4. CASE state[id] \in Settled
  <2>1. Only(w, [worker[w] EXCEPT !.pc = "value"])
    BY <1>4 DEF Read, Settled
  <2> QED
    BY <1>1, <2>1, GotoStep DEF Checking
<1>5. CASE state[id] = "cancelled"
  <2>1. Answer(w, "cancelled", None)
    BY <1>5 DEF Read, Settled
  <2> QED
    BY <1>1, <2>1, AnswerStep DEF Checking, Statuses, States
<1> QED
  BY <1>1, <1>2, <1>3, <1>4, <1>5 DEF States, Settled

LEMMA ReadCandidateStep ==
  ASSUME RunInv, NEW w \in Workers, ReadCandidate(w)
  PROVE  RunInv'
<1> DEFINE id == worker[w].id
<1>1. worker[w].pc = "candidate" /\ worker[w].pc \in Checking
      /\ id \in Receivables
  BY DEF ReadCandidate, At, RunInv, RecordsOK, Sound, Checking
<1>2. UnderReview(id) \subseteq Fingerprint
  <2>1. candidates[id] \in Seq(Evidence) /\ TypeOK
    BY <1>1 DEF RunInv, ReviewInv, TypeInv, TypeOK
  <2>2. \A i \in DOMAIN candidates[id] : candidates[id][i] \in Evidence
    BY <2>1
  <2> QED
    BY <2>2, EvidenceFields DEF UnderReview, LatestUnresolved
<1>3. CASE \E f \in UnderReview(id) : Answer(w, "needs_review", f)
  BY <1>1, <1>2, <1>3, AnswerStep DEF Statuses, States
<1>4. CASE Only(w, Failed(w))
  BY <1>4, FailStep
<1> QED
  BY <1>3, <1>4 DEF ReadCandidate

LEMMA ValueStep ==
  ASSUME RunInv, NEW w \in Workers, Value(w)
  PROVE  RunInv'
<1>1. worker[w].pc \in Checking
  BY DEF Value, At, Checking
<1>2. PICK s \in settlements :
        IF s.evidence.signature \notin Timed
        THEN Only(w, Failed(w))
        ELSE /\ \/ UNCHANGED ledgerVars
                \/ \E q \in Quotes : AttachValuation(s.id, q)
             /\ Become(w, Answered(w, state[s.id], s.evidence))
             /\ UNCHANGED <<lease, chain, book, young, sent, faults>>
  BY DEF Value
<1>3. /\ s.id \in Receivables /\ s.evidence \in Fingerprint
      /\ state[s.id] \in Statuses
  BY DEF RunInv, ReviewInv, TypeInv, TypeOK, Settlement, Statuses
<1>4. CASE s.evidence.signature \notin Timed
  BY <1>2, <1>4, FailStep
<1>5. CASE s.evidence.signature \in Timed
  <2>1. Transaction
    BY <1>2, <1>3, <1>5 DEF Transaction
  <2> QED
    BY <1>1, <1>2, <1>3, <1>5, <2>1, AnswerTransaction
<1> QED
  BY <1>4, <1>5

LEMMA FetchStep ==
  ASSUME RunInv, NEW w \in Workers, Fetch(w)
  PROVE  RunInv'
<1> DEFINE me == worker[w]
           named == Named(me.id)
           r == [me EXCEPT !.pc = "resolved", !.fetched = named, !.left = named]
<1>1. me \in WorkerRecord /\ Sound(me, book, chain, outbox, state)
      /\ me.pc = "fetch" /\ me.pc \in Checking
  BY DEF RunInv, RecordsOK, Fetch, At, Checking
<1>2. \/ Answer(w, "pending", None)
      \/ Answer(w, "incomplete", None)
      \/ Only(w, r)
  BY DEF Fetch
<1>3. /\ named \subseteq DOMAIN chain /\ named \subseteq Nat
      /\ \A n \in named : Verdict[me.id][chain[n]] # None
  BY DEF Named, RunInv, BookOK
<1>4. ASSUME Only(w, r)
      PROVE  RunInv'
  <2> HIDE DEF named
  <2>1. r \in WorkerRecord /\ r.pc = "resolved" /\ r.id = me.id
    BY <1>1, <1>3 DEF WorkerRecord, Checking
  <2>2. Sound(r, book, chain, outbox, state)
    BY <1>1, <1>3 DEF Sound, WorkerRecord, Checking, Mailing
  <2> HIDE DEF r
  <2> QED
    BY <1>4, <2>1, <2>2, OnlyStep DEF Outside, Mailing
<1> QED
  BY <1>1, <1>2, <1>4, AnswerStep DEF Statuses

LEMMA UnreadStep ==
  ASSUME RunInv, NEW w \in Workers, RpcFails(w) \/ AssessUnreadable(w)
  PROVE  RunInv'
<1>1. worker[w].pc \in Checking /\ Transaction
      /\ UNCHANGED <<lease, chain, book>>
  BY DEF RpcFails, AssessUnreadable, At, Checking, Transaction
<1>2. CASE Become(w, Answered(w, "incomplete", None))
  BY <1>1, <1>2, AnswerTransaction DEF Statuses
<1>3. CASE Become(w, Failed(w))
  BY <1>1, <1>3, FailedRecord, OwnStep DEF Outside, Mailing
<1> QED
  BY <1>2, <1>3 DEF RpcFails, AssessUnreadable, Unread

LEMMA ReadResolvedStep ==
  ASSUME RunInv, NEW w \in Workers, ReadResolved(w)
  PROVE  RunInv'
<1> DEFINE me == worker[w]
           seen == {r.evidence : r \in {q \in resolutions :
                                          q.evidence.id = me.id}}
           r == [me EXCEPT !.pc = "assess", !.seen = seen]
<1>1. me \in WorkerRecord /\ Sound(me, book, chain, outbox, state)
      /\ me.pc = "resolved"
  BY DEF RunInv, RecordsOK, ReadResolved, At
<1>2. seen \subseteq Evidence
  <2> SUFFICES ASSUME NEW q \in resolutions
               PROVE  q.evidence \in Evidence
    OBVIOUS
  <2>1. q.evidence.id \in Receivables
    BY DEF RunInv, ReviewInv, TypeInv, TypeOK, Resolution, Fingerprint
  <2>2. candidates[q.evidence.id] \in Seq(Evidence)
    BY <2>1 DEF RunInv, ReviewInv, TypeInv, TypeOK
  <2>3. PICK i \in DOMAIN candidates[q.evidence.id] :
          candidates[q.evidence.id][i] = q.evidence
    BY DEF RunInv, ReviewInv, ResolutionsAreOfCandidates
  <2> QED
    BY <2>2, <2>3
<1>3. Only(w, r)
  BY DEF ReadResolved
<1> HIDE DEF seen
<1>4. r \in WorkerRecord /\ r.pc = "assess"
  BY <1>1, <1>2 DEF WorkerRecord, Checking
<1>5. Sound(r, book, chain, outbox, state)
  BY <1>1 DEF Sound, WorkerRecord, Checking, Mailing
<1> HIDE DEF r
<1> QED
  BY <1>3, <1>4, <1>5, OnlyStep DEF Outside, Mailing

\* Every assessment of a transaction that names the receivable is evidence.
LEMMA AssessmentIsEvidence ==
  ASSUME NEW id \in Receivables, NEW s \in Signatures, Verdict[id][s] # None
  PROVE  Assessment(id, s) \in Evidence
<1>1. \A v \in {Verdict[id][s], "duplicate_signature", "reference_reused"} :
        [id |-> id, signature |-> s, verdict |-> v] \in Evidence
  BY ReconciliationAssumption
<1> QED
  BY <1>1 DEF Assessment

LEMMA AssessStep ==
  ASSUME RunInv, NEW w \in Workers, Assess(w)
  PROVE  RunInv'
<1> DEFINE n == Greatest(worker[w].left)
           less == worker[w].left \ {n}
           me == [worker[w] EXCEPT !.left = less]
           f == Assessment(worker[w].id, chain[n])
<1>1. worker[w] \in WorkerRecord
      /\ Sound(worker[w], book, chain, outbox, state)
      /\ worker[w].pc = "assess" /\ worker[w].left # {}
  BY DEF RunInv, RecordsOK, Assess, At
<1>2. n \in worker[w].left
  <2>1. DOMAIN chain = 1..Len(chain) /\ Len(chain) \in Nat
    BY DEF RunInv, BookOK
  <2>2. worker[w].left \subseteq 1..Len(chain)
    BY <1>1, <2>1 DEF Sound
  <2> QED
    BY <1>1, <2>1, <2>2, GreatestMember
<1>3. f \in Evidence
  <2>1. n \in DOMAIN chain /\ chain[n] \in Signatures
    BY <1>1, <1>2 DEF RunInv, BookOK, Sound
  <2>2. worker[w].id \in Receivables /\ Verdict[worker[w].id][chain[n]] # None
    BY <1>1, <1>2 DEF Sound, Checking
  <2> QED
    BY <2>1, <2>2, AssessmentIsEvidence
<1>4. IF f.verdict = "exact"
      THEN Only(w, [me EXCEPT !.pc = "verify", !.found = f])
      ELSE Only(w, AfterAnomaly(me, f))
  <2>1. me.id = worker[w].id
    BY <1>1 DEF WorkerRecord
  <2> QED
    BY <2>1, Zenon DEF Assess
<1> HIDE DEF n, f
<1>5. /\ me \in WorkerRecord /\ me.pc = "assess"
      /\ Sound(me, book, chain, outbox, state)
  <2>1. less \subseteq worker[w].left
    OBVIOUS
  <2> HIDE DEF less
  <2>2. me \in WorkerRecord /\ me.pc = "assess"
    BY <1>1, <2>1 DEF WorkerRecord
  <2>3. Sound(me, book, chain, outbox, state)
    BY <1>1, <2>1 DEF Sound, WorkerRecord, Checking, Mailing
  <2> QED
    BY <2>2, <2>3
<1> HIDE DEF me
<1>6. CASE f.verdict = "exact"
  <2> DEFINE r == [me EXCEPT !.pc = "verify", !.found = f]
  <2>1. r \in WorkerRecord /\ r.pc = "verify"
    BY <1>3, <1>5 DEF WorkerRecord, Checking
  <2>2. Sound(r, book, chain, outbox, state)
    BY <1>3, <1>5 DEF Sound, WorkerRecord, Checking, Mailing
  <2>3. Only(w, r)
    BY <1>4, <1>6
  <2> HIDE DEF r
  <2> QED
    BY <2>1, <2>2, <2>3, OnlyStep DEF Outside, Mailing
<1>7. CASE f.verdict # "exact"
  <2> DEFINE first == IF me.found = None /\ f \notin me.seen THEN f ELSE me.found
             r == [me EXCEPT !.found = first]
  <2>1. first \in Evidence \cup {None}
    BY <1>3, <1>5 DEF WorkerRecord
  <2>2. Only(w, r)
    BY <1>4, <1>7 DEF AfterAnomaly
  <2> HIDE DEF first
  <2>3. r \in WorkerRecord /\ r.pc = "assess"
    BY <1>5, <2>1 DEF WorkerRecord
  <2>4. Sound(r, book, chain, outbox, state)
    BY <1>5 DEF Sound, WorkerRecord, Checking, Mailing
  <2> HIDE DEF r
  <2> QED
    BY <2>2, <2>3, <2>4, OnlyStep DEF Outside, Mailing
<1> QED
  BY <1>6, <1>7

LEMMA AssessedAllStep ==
  ASSUME RunInv, NEW w \in Workers, AssessedAll(w)
  PROVE  RunInv'
<1> DEFINE me == worker[w]
           r == [me EXCEPT !.pc = "record"]
<1>1. me \in WorkerRecord /\ Sound(me, book, chain, outbox, state)
      /\ me.pc = "assess" /\ me.pc \in Checking
  BY DEF RunInv, RecordsOK, AssessedAll, At, Checking
<1>2. CASE me.found = None
  BY <1>1, <1>2, AnswerStep DEF AssessedAll, Statuses
<1>3. CASE me.found # None
  <2>1. Only(w, r)
    BY <1>3 DEF AssessedAll
  <2>2. r \in WorkerRecord /\ r.pc = "record" /\ r.found \in Evidence
    BY <1>1, <1>3 DEF WorkerRecord, Checking
  <2>3. Sound(r, book, chain, outbox, state)
    BY <1>1, <1>3, <2>2 DEF Sound, WorkerRecord, Checking, Mailing
  <2> HIDE DEF r
  <2> QED
    BY <2>1, <2>2, <2>3, OnlyStep DEF Outside, Mailing
<1> QED
  BY <1>2, <1>3

\* The evidence a check acts on is evidence of this chain, however old.
LEMMA FoundEvidence ==
  ASSUME RunInv, NEW w \in Workers, worker[w].pc \in {"verify", "record"}
  PROVE  worker[w].found \in Evidence /\ worker[w].found \in Fingerprint
  BY EvidenceFields DEF RunInv, RecordsOK, Sound

LEMMA VerifyStep ==
  ASSUME RunInv, NEW w \in Workers, Verify(w)
  PROVE  RunInv'
<1> DEFINE f == worker[w].found
<1>1. worker[w].pc \in Checking /\ f \in Evidence /\ f \in Fingerprint
  BY FoundEvidence DEF Verify, At, Checking
<1>2. CASE /\ MarkPaymentVerified(f)
           /\ Become(w, Answered(w, "payment_verified", f))
           /\ UNCHANGED <<lease, chain, book, young, sent, faults>>
  <2>1. Transaction
    BY <1>1, <1>2 DEF Transaction
  <2> QED
    BY <1>1, <1>2, <2>1, AnswerTransaction DEF Statuses, States
<1>3. CASE Answer(w, "payment_verified", f)
  BY <1>1, <1>3, AnswerStep DEF Statuses, States
<1>4. CASE Only(w, Failed(w))
  BY <1>4, FailStep
<1> QED
  BY <1>2, <1>3, <1>4 DEF Verify

LEMMA RecordStep ==
  ASSUME RunInv, NEW w \in Workers, Record(w)
  PROVE  RunInv'
<1> DEFINE f == worker[w].found
<1>1. worker[w].pc \in Checking /\ f \in Evidence /\ f \in Fingerprint
  BY FoundEvidence DEF Record, At, Checking
<1>2. CASE /\ MarkReviewCandidate(f)
           /\ Become(w, Answered(w, "needs_review", f))
           /\ UNCHANGED <<lease, chain, book, young, sent, faults>>
  <2>1. Transaction
    BY <1>1, <1>2 DEF Transaction
  <2> QED
    BY <1>1, <1>2, <2>1, AnswerTransaction DEF Statuses, States
<1>3. CASE Only(w, Failed(w))
  BY <1>3, FailStep
<1> QED
  BY <1>2, <1>3 DEF Record

-----------------------------------------------------------------------------
(***************************************************************************)
(* The lease, the mail, and the surroundings.                              *)
(***************************************************************************)

\* Steps that leave the ledger, the book and the chain alone.
LEMMA LedgerStays ==
  ASSUME RunInv, UNCHANGED <<ledgerVars, book, chain>>
  PROVE  ReviewInv' /\ BookOK'
<1>1. ReviewInv'
  BY ReviewStep DEF RunInv
<1>2. BookOK'
  BY DEF RunInv, BookOK, ledgerVars
<1> QED
  BY <1>1, <1>2

LEMMA RecordsKept ==
  ASSUME RunInv, NEW w \in Workers, NEW r \in WorkerRecord, Become(w, r),
         Sound(r, book, chain, outbox, state),
         UNCHANGED <<ledgerVars, book, chain>>
  PROVE  RecordsOK'
  BY RecordsStay, SelfExtended DEF RunInv, ledgerVars

\* The pass begins: its process takes the lease.
LEMMA AcquireStep ==
  ASSUME RunInv, NEW w \in Workers, Acquire(w)
  PROVE  RunInv'
<1>1. PICK r \in WorkerRecord : /\ Become(w, r)
                                /\ Sound(r, book, chain, outbox, state)
                                /\ r.pc \notin Outside
  <2>1. CASE Become(w, [Idle EXCEPT !.pc = "list"])
    <3> DEFINE r == [Idle EXCEPT !.pc = "list"]
    <3>1. r \in WorkerRecord /\ r.pc = "list"
      BY IdleRecord DEF WorkerRecord
    <3>2. Idle.job = "pass"
      BY DEF Idle
    <3>3. Sound(r, book, chain, outbox, state)
      BY <3>2, IdleRecord DEF Sound, WorkerRecord, Checking, Mailing
    <3> HIDE DEF r
    <3> QED
      BY <2>1, <3>1, <3>3 DEF Outside, Mailing, r
  <2>2. CASE \E n \in DOMAIN book :
               Become(w, [Idle EXCEPT !.pc = "next", !.todo = {n},
                                      !.polls = Polls])
    <3>1. PICK n \in DOMAIN book :
            Become(w, [Idle EXCEPT !.pc = "next", !.todo = {n},
                                   !.polls = Polls])
      BY <2>2
    <3> DEFINE r == [Idle EXCEPT !.pc = "next", !.todo = {n}, !.polls = Polls]
    <3>2. n \in Nat /\ Polls \in Int
      BY ReconciliationAssumption DEF RunInv, BookOK
    <3>3. r \in WorkerRecord /\ r.pc = "next"
      BY <3>2, IdleRecord DEF WorkerRecord
    <3>4. Idle.job = "pass"
      BY DEF Idle
    <3>5. Sound(r, book, chain, outbox, state)
      BY <3>4, IdleRecord DEF Sound, WorkerRecord, Checking, Mailing
    <3> HIDE DEF r
    <3> QED
      BY <3>1, <3>3, <3>5 DEF Outside, Mailing, r
  <2> QED
    BY <2>1, <2>2 DEF Acquire
<1>2. /\ UNCHANGED <<ledgerVars, book, chain>> /\ Leased(w)
      /\ lease' = [holder |-> w, live |-> TRUE]
  BY DEF Acquire
<1>3. ReviewInv' /\ BookOK' /\ RecordsOK'
  BY <1>1, <1>2, LedgerStays, RecordsKept
<1>4. worker'[w] = r /\ w # None
  BY <1>1, ReconciliationAssumption DEF RunInv, RecordsOK, Become
<1>5. LeaseOK'
  BY <1>1, <1>2, <1>4 DEF LeaseOK, Leased
<1> QED
  BY <1>3, <1>5 DEF RunInv

LEMMA StartCheckStep ==
  ASSUME RunInv, NEW w \in Workers, StartCheck(w)
  PROVE  RunInv'
<1>1. PICK n \in DOMAIN book :
        Only(w, [Idle EXCEPT !.pc = "next", !.todo = {n}])
  BY DEF StartCheck
<1> DEFINE r == [Idle EXCEPT !.pc = "next", !.todo = {n}]
<1>2. n \in Nat
  BY DEF RunInv, BookOK
<1>3. r \in WorkerRecord /\ r.pc = "next"
  BY <1>2, IdleRecord DEF WorkerRecord
<1>4. Idle.job = "pass"
  BY DEF Idle
<1>5. Sound(r, book, chain, outbox, state)
  BY <1>4, IdleRecord DEF Sound, WorkerRecord, Checking, Mailing
<1> HIDE DEF r
<1> QED
  BY <1>1, <1>3, <1>5, OnlyStep DEF Outside, Mailing, r

\* A process that leaves its pass, with mail to send or with none.
LEMMA DeliverRecord ==
  ASSUME NEW me \in WorkerRecord, Sound(me, book, chain, outbox, state)
  PROVE  /\ Deliver(me) \in WorkerRecord
         /\ Sound(Deliver(me), book, chain, outbox, state)
<1>1. CASE me.mail = <<>>
  BY <1>1, IdleRecord DEF Deliver
<1>2. CASE me.mail # <<>>
  <2> DEFINE r == [me EXCEPT !.pc = "send"]
  <2>1. r \in WorkerRecord /\ Deliver(me) = r
    BY <1>2 DEF WorkerRecord, Deliver, Mailing
  <2>2. Sound(r, book, chain, outbox, state)
    BY <1>2 DEF Sound, WorkerRecord, Checking, Mailing
  <2> HIDE DEF r
  <2> QED
    BY <2>1, <2>2
<1> QED
  BY <1>1, <1>2

\* What becomes of the lease when its holder, if it is w, gives it up.
LEMMA LeaseGivenUp ==
  ASSUME RunInv, NEW w \in Workers, NEW r, Become(w, r),
         NEW held \in [holder : {None, Orphan}, live : BOOLEAN],
         held.live => held.holder # None,
         lease' = IF lease.holder = w THEN held ELSE lease
  PROVE  LeaseOK'
<1>1. CASE lease.holder = w
  BY <1>1, ReconciliationAssumption DEF LeaseOK
<1>2. CASE lease.holder # w
  <2>1. lease.holder \in Workers => worker'[lease.holder] = worker[lease.holder]
    BY <1>2 DEF RunInv, RecordsOK, Become
  <2> QED
    BY <1>2, <2>1 DEF RunInv, LeaseOK, Leased
<1> QED
  BY <1>1, <1>2

LEMMA ReleaseStep ==
  ASSUME RunInv, NEW w \in Workers, Release(w)
  PROVE  RunInv'
<1> DEFINE r == Deliver(worker[w])
           held == [holder |-> None, live |-> FALSE]
<1>1. /\ Become(w, r) /\ UNCHANGED <<ledgerVars, book, chain>>
      /\ lease' = IF lease.holder = w THEN held ELSE lease
  BY DEF Release, AfterRelease
<1>2. r \in WorkerRecord /\ Sound(r, book, chain, outbox, state)
  BY DeliverRecord DEF RunInv, RecordsOK
<1> HIDE DEF r
<1>3. LeaseOK'
  <2>1. held \in [holder : {None, Orphan}, live : BOOLEAN] /\ ~held.live
    OBVIOUS
  <2> HIDE DEF held
  <2> QED
    BY <1>1, <2>1, LeaseGivenUp
<1>4. ReviewInv' /\ BookOK' /\ RecordsOK'
  BY <1>1, <1>2, LedgerStays, RecordsKept
<1> QED
  BY <1>3, <1>4 DEF RunInv

LEMMA CrashStep ==
  ASSUME RunInv, NEW w \in Workers, Crash(w)
  PROVE  RunInv'
<1> DEFINE held == [holder |-> Orphan, live |-> lease.live]
<1>1. /\ Become(w, Idle) /\ UNCHANGED <<ledgerVars, book, chain>>
      /\ lease' = [lease EXCEPT !.holder = IF @ = w THEN Orphan ELSE @]
  BY DEF Crash
<1>2. lease' = IF lease.holder = w THEN held ELSE lease
  BY <1>1 DEF RunInv, LeaseOK
<1>3. LeaseOK'
  <2>1. held \in [holder : {None, Orphan}, live : BOOLEAN]
        /\ (held.live => held.holder # None)
    BY ReconciliationAssumption DEF RunInv, LeaseOK
  <2> HIDE DEF held
  <2> QED
    BY <1>1, <1>2, <2>1, LeaseGivenUp
<1>4. ReviewInv' /\ BookOK' /\ RecordsOK'
  BY <1>1, IdleRecord, LedgerStays, RecordsKept
<1> QED
  BY <1>3, <1>4 DEF RunInv

\* Sending and acknowledging, after the lease was released.
LEMMA MailStep ==
  ASSUME RunInv, NEW w \in Workers, worker[w].pc \in Mailing,
         NEW r \in WorkerRecord, Become(w, r),
         Sound(r, book, chain, outbox, state), Transaction,
         UNCHANGED <<lease, chain, book>>
  PROVE  RunInv'
  BY OwnStep DEF Outside

LEMMA SendStep ==
  ASSUME RunInv, NEW w \in Workers, Send(w)
  PROVE  RunInv'
<1> DEFINE r == [worker[w] EXCEPT !.pc = "acknowledge"]
<1>1. worker[w] \in WorkerRecord /\ worker[w].pc = "send"
      /\ Sound(worker[w], book, chain, outbox, state)
  BY DEF RunInv, RecordsOK, Send, At
<1>2. Become(w, r) /\ Transaction /\ UNCHANGED <<lease, chain, book>>
  BY DEF Send, Transaction
<1>3. r \in WorkerRecord
  BY <1>1 DEF WorkerRecord, Mailing
<1>4. Sound(r, book, chain, outbox, state)
  BY <1>1 DEF Sound, WorkerRecord, Checking, Mailing
<1> HIDE DEF r
<1> QED
  BY <1>1, <1>2, <1>3, <1>4, MailStep DEF Mailing

LEMMA SendFailsStep ==
  ASSUME RunInv, NEW w \in Workers, SendFails(w)
  PROVE  RunInv'
<1>1. worker[w].pc \in Mailing /\ Become(w, Idle) /\ Transaction
      /\ UNCHANGED <<lease, chain, book>>
  BY DEF SendFails, At, Mailing, Transaction
<1> QED
  BY <1>1, IdleRecord, MailStep

\* The mail left after the first message is acknowledged.
LEMMA RestOfMail ==
  ASSUME RunInv, NEW w \in Workers, worker[w].pc \in Mailing
  PROVE  LET r == Deliver([worker[w] EXCEPT !.mail = Tail(@)])
         IN  r \in WorkerRecord /\ Sound(r, book, chain, outbox, state)
<1> DEFINE mail == worker[w].mail
           rest == Tail(mail)
           me == [worker[w] EXCEPT !.mail = rest]
<1>1. worker[w] \in WorkerRecord
      /\ Sound(worker[w], book, chain, outbox, state)
  BY DEF RunInv, RecordsOK
<1>2. mail \in Seq(Mail) /\ mail # <<>>
  BY <1>1 DEF WorkerRecord, Sound
<1> HIDE DEF mail
<1>3. rest \in Seq(Mail) /\ \A n \in DOMAIN rest :
                              n + 1 \in DOMAIN mail /\ rest[n] = mail[n + 1]
  BY <1>2
<1>4. \A n \in DOMAIN rest : rest[n].notification \in DOMAIN outbox
  BY <1>1, <1>3 DEF Sound, mail
<1> HIDE DEF rest
<1>5. me \in WorkerRecord
  BY <1>1, <1>3 DEF WorkerRecord
<1>6. me.mail = rest /\ me.pc = worker[w].pc /\ me.todo = worker[w].todo
      /\ me.notices = worker[w].notices /\ me.left = worker[w].left
      /\ me.id = worker[w].id /\ me.job = worker[w].job
  BY <1>1 DEF WorkerRecord
<1>7. [me EXCEPT !.pc = "send"] \in WorkerRecord
  BY <1>5 DEF WorkerRecord, Mailing
<1>8. CASE rest = <<>>
  <2>1. Deliver(me) = Idle
    BY <1>6, <1>8 DEF Deliver
  <2> QED
    BY <2>1, IdleRecord DEF me, rest, mail
<1>9. CASE rest # <<>>
  <2> HIDE DEF me
  <2> DEFINE r == [me EXCEPT !.pc = "send"]
  <2>1. Deliver(me) = r
    BY <1>6, <1>9 DEF Deliver
  <2>2. r.mail = rest /\ r.pc = "send" /\ r.todo = me.todo
        /\ r.notices = me.notices /\ r.left = me.left
    BY <1>5, <1>6 DEF WorkerRecord
  <2> HIDE DEF r
  <2>3. Sound(r, book, chain, outbox, state)
    BY <1>1, <1>4, <1>6, <1>9, <2>2 DEF Sound, Checking, Mailing
  <2> QED
    BY <1>7, <2>1, <2>3 DEF r, me, rest, mail
<1> QED
  BY <1>8, <1>9

LEMMA AcknowledgeStep ==
  ASSUME RunInv, NEW w \in Workers, Acknowledge(w)
  PROVE  RunInv'
<1> DEFINE more == Deliver([worker[w] EXCEPT !.mail = Tail(@)])
           r == [worker[w] EXCEPT !.pc = "receipt"]
<1>1. worker[w] \in WorkerRecord /\ worker[w].pc = "acknowledge"
      /\ Sound(worker[w], book, chain, outbox, state)
  BY DEF RunInv, RecordsOK, Acknowledge, At
<1>2. Only(w, more) \/ Only(w, r)
  BY DEF Acknowledge
<1>3. more \in WorkerRecord /\ Sound(more, book, chain, outbox, state)
  BY <1>1, RestOfMail DEF Mailing
<1>4. r \in WorkerRecord
  BY <1>1 DEF WorkerRecord, Mailing
<1>5. Sound(r, book, chain, outbox, state)
  BY <1>1 DEF Sound, WorkerRecord, Checking, Mailing
<1> HIDE DEF r, more
<1> QED
  BY <1>1, <1>2, <1>3, <1>4, <1>5, OnlyStep DEF Outside, Mailing

LEMMA ReceiptStep ==
  ASSUME RunInv, NEW w \in Workers, Receipt(w)
  PROVE  RunInv'
<1> DEFINE more == Deliver([worker[w] EXCEPT !.mail = Tail(@)])
           n == Head(worker[w].mail).notification
<1>1. worker[w].pc \in Mailing
  BY DEF Receipt, At, Mailing
<1>2. CASE /\ \E receipt \in Receipts : InsertReceipt(n, receipt)
           /\ Become(w, more)
           /\ UNCHANGED <<lease, chain, book, young, sent, faults>>
  <2>1. Transaction
    BY <1>2 DEF Transaction, InsertReceipt
  <2>2. more \in WorkerRecord /\ Sound(more, book, chain, outbox, state)
    BY <1>1, RestOfMail
  <2> HIDE DEF more
  <2> QED
    BY <1>1, <1>2, <2>1, <2>2, MailStep
<1>3. CASE Only(w, Idle)
  BY <1>1, <1>3, IdleRecord, OnlyStep DEF Outside
<1> QED
  BY <1>2, <1>3 DEF Receipt

\* Steps of no process: what the processes have read stays true.
LEMMA OthersStay ==
  ASSUME RunInv, UNCHANGED worker,
         Extended(book, book'), Extended(chain, chain'),
         Extended(outbox, outbox'),
         \A id \in Receivables : state[id] # "absent" => state'[id] # "absent"
  PROVE  RecordsOK'
  BY SoundStays DEF RunInv, RecordsOK

LEMMA LeaseStays ==
  ASSUME RunInv, UNCHANGED <<worker, lease>>
  PROVE  LeaseOK'
  BY DEF RunInv, LeaseOK, Leased

\* A receivable enters the book as its row is written.
LEMMA IssueStep ==
  ASSUME RunInv, NEW id \in Receivables, Issue(id)
  PROVE  RunInv' /\ LedgerNext
<1>1. PICK t \in Terms, ref \in References : CreateOrGet(id, t, ref)
  <2>1. Unused # {} /\ Unused \subseteq References
    BY DEF Issue, Unused
  <2> QED
    BY <2>1 DEF Issue
<1>2. LedgerNext
  BY <1>1 DEF LedgerNext
<1>3. ReviewInv'
  BY <1>2, ReviewStep DEF RunInv
<1>4. /\ state' = [state EXCEPT ![id] = "open"]
      /\ state \in [Receivables -> States \cup {"absent"}]
      /\ outbox' = outbox
  BY <1>1 DEF CreateOrGet, RunInv, ReviewInv, TypeInv, TypeOK
<1>5. /\ book \in Seq(Receivables) /\ book' = Append(book, id)
      /\ UNCHANGED <<worker, lease, chain>>
  BY DEF Issue, RunInv, BookOK
<1>6. Extended(book, book')
  BY <1>5, AppendExtends
<1>7. RecordsOK'
  BY <1>4, <1>5, <1>6, OthersStay, SelfExtended
<1>8. BookOK'
  <2>1. book' \in Seq(Receivables)
    BY <1>5
  <2>2. \A other \in Receivables :
          (\E n \in DOMAIN book' : book'[n] = other) <=> state'[other] # "absent"
    <3> SUFFICES ASSUME NEW other \in Receivables
                 PROVE  (\E n \in DOMAIN book' : book'[n] = other)
                          <=> state'[other] # "absent"
      OBVIOUS
    <3>1. /\ DOMAIN book' = DOMAIN book \cup {Len(book) + 1}
          /\ book'[Len(book) + 1] = id
      BY <1>5
    <3>2. CASE other = id
      BY <1>4, <3>1, <3>2
    <3>3. CASE other # id
      <4>1. state'[other] = state[other]
        BY <1>4, <3>3
      <4>2. (\E n \in DOMAIN book' : book'[n] = other)
              <=> (\E n \in DOMAIN book : book[n] = other)
        BY <1>6, <3>1, <3>3 DEF Extended
      <4> QED
        BY <4>1, <4>2 DEF RunInv, BookOK
    <3> QED
      BY <3>2, <3>3
  <2>3. \A n \in DOMAIN outbox' : state'[outbox'[n].evidence.id] # "absent"
    <3>1. \A n \in DOMAIN outbox : outbox[n].evidence.id \in Receivables
      BY OutboxRows DEF RunInv, ReviewInv, TypeInv
    <3> QED
      BY <1>4, <3>1 DEF RunInv, BookOK
  <2> QED
    BY <1>5, <2>1, <2>2, <2>3 DEF RunInv, BookOK
<1> QED
  BY <1>2, <1>3, <1>5, <1>7, <1>8, LeaseStays DEF RunInv

LEMMA FinalizeStep ==
  ASSUME RunInv, NEW s \in Signatures, Finalize(s)
  PROVE  RunInv'
<1>1. /\ chain \in Seq(Signatures) /\ chain' = Append(chain, s)
      /\ UNCHANGED <<ledgerVars, worker, lease, book>>
  BY DEF Finalize, RunInv, BookOK
<1>2. Extended(chain, chain') /\ chain' \in Seq(Signatures)
  BY <1>1, AppendExtends
<1>3. RecordsOK'
  BY <1>1, <1>2, OthersStay, SelfExtended DEF ledgerVars
<1>4. ReviewInv'
  BY <1>1, ReviewStep DEF RunInv
<1>5. BookOK'
  BY <1>1, <1>2 DEF RunInv, BookOK, ledgerVars
<1> QED
  BY <1>1, <1>3, <1>4, <1>5, LeaseStays DEF RunInv

LEMMA ResolveStep ==
  ASSUME RunInv, NEW f \in Evidence, Resolve(f)
  PROVE  RunInv' /\ Transaction
<1>1. UNCHANGED <<worker, lease, chain, book>>
  BY DEF Resolve, processVars
<1>2. Transaction
  BY ReconciliationAssumption DEF Resolve, Transaction
<1>3. ReviewInv'
  BY <1>2, TransactionIsLedgerStep, ReviewStep DEF RunInv
<1>4. /\ \A id \in Receivables : state'[id] = "absent" <=> state[id] = "absent"
      /\ Extended(outbox, outbox')
      /\ \A n \in DOMAIN outbox' : state'[outbox'[n].evidence.id] # "absent"
  BY <1>2, TransactionExtends DEF RunInv
<1>5. RecordsOK'
  BY <1>1, <1>4, OthersStay, SelfExtended
<1>6. BookOK'
  BY <1>1, <1>4 DEF RunInv, BookOK
<1> QED
  BY <1>1, <1>2, <1>3, <1>5, <1>6, LeaseStays DEF RunInv

\* HOT_WINDOW or LEASE_DURATION_MS passes.
LEMMA TimeStep ==
  ASSUME RunInv, UNCHANGED <<ledgerVars, worker, chain, book>>,
         \/ UNCHANGED lease
         \/ lease' = [lease EXCEPT !.live = FALSE]
  PROVE  RunInv'
<1>1. RecordsOK'
  BY OthersStay, SelfExtended DEF ledgerVars
<1>2. LeaseOK'
  BY DEF RunInv, LeaseOK, Leased
<1> QED
  BY <1>1, <1>2, LedgerStays DEF RunInv

-----------------------------------------------------------------------------
(***************************************************************************)
(* Theorems.                                                               *)
(***************************************************************************)
LEMMA RunInit == Init => RunInv
<1> SUFFICES ASSUME Init PROVE RunInv
  OBVIOUS
<1>1. ReviewInv
  BY ReviewInit DEF Init
<1>2. RecordsOK
  BY IdleRecord DEF Init, RecordsOK
<1>3. LeaseOK
  BY ReconciliationAssumption DEF Init, LeaseOK
<1>4. BookOK
  <2>1. <<>> \in Seq(Receivables) /\ <<>> \in Seq(Signatures) /\ DOMAIN <<>> = {}
    OBVIOUS
  <2> QED
    BY <2>1 DEF Init, LedgerInit, BookOK
<1> QED
  BY <1>1, <1>2, <1>3, <1>4 DEF RunInv

LEMMA CheckStep ==
  ASSUME RunInv, NEW w \in Workers, Check(w)
  PROVE  RunInv'
  BY ReadStep, ReadCandidateStep, ValueStep, FetchStep, ReadResolvedStep,
     UnreadStep, AssessStep, AssessedAllStep, VerifyStep, RecordStep DEF Check

LEMMA ProceedStep ==
  ASSUME RunInv, NEW w \in Workers, Proceed(w)
  PROVE  RunInv'
  BY ListStep, NextReceivableStep, CheckStep, ReadPendingStep,
     NextNoticeStep, ReleaseStep, SendStep, AcknowledgeStep, ReceiptStep
  DEF Proceed

LEMMA RunStep == RunInv /\ [Next]_vars => RunInv'
<1> SUFFICES ASSUME RunInv, [Next]_vars PROVE RunInv'
  OBVIOUS
<1>1. ASSUME NEW w \in Workers,
             \/ Acquire(w) \/ StartCheck(w) \/ Proceed(w)
             \/ RpcFails(w) \/ SendFails(w) \/ Crash(w)
      PROVE  RunInv'
  BY <1>1, AcquireStep, StartCheckStep, ProceedStep, UnreadStep,
     SendFailsStep, CrashStep
<1>2. ASSUME NEW id \in Receivables, Issue(id) \/ Age(id)
      PROVE  RunInv'
  BY <1>2, IssueStep, TimeStep DEF Age
<1>3. CASE Expire
  BY <1>3, TimeStep DEF Expire
<1>4. CASE UNCHANGED vars
  BY <1>4, TimeStep DEF vars, processVars
<1> QED
  BY <1>1, <1>2, <1>3, <1>4, FinalizeStep, ResolveStep DEF Next

LEMMA RunAlways == Spec => []RunInv
  BY RunInit, RunStep, PTL DEF Spec

LEMMA ReadIsQuiet ==
  ASSUME RunInv, NEW w \in Workers, Read(w)
  PROVE  UNCHANGED <<ledgerVars, lease, sent>>
<1>1. state[worker[w].id] \in States
  BY DEF Read, At, RunInv, RecordsOK, Sound, Checking, ReviewInv, TypeInv, TypeOK
<1> QED
  BY <1>1 DEF Read, Answer, Only, States, Settled

\* Every step of every process is one transaction of the ledger, or none.
LEMMA RunStepIsLedgerStep == RunInv /\ [Next]_vars => [LedgerNext]_ledgerVars
<1> SUFFICES ASSUME RunInv, [Next]_vars PROVE [LedgerNext]_ledgerVars
  OBVIOUS
<1>1. ASSUME NEW w \in Workers, Value(w)
      PROVE  [LedgerNext]_ledgerVars
  <2>1. PICK s \in settlements :
          UNCHANGED ledgerVars \/ \E q \in Quotes : AttachValuation(s.id, q)
    BY <1>1 DEF Value, Only
  <2>2. s.id \in Receivables
    BY DEF RunInv, ReviewInv, TypeInv, TypeOK, Settlement
  <2> QED
    BY <2>1, <2>2 DEF LedgerNext
<1>2. ASSUME NEW w \in Workers, Verify(w) \/ Record(w)
      PROVE  [LedgerNext]_ledgerVars
  <2>1. worker[w].found \in Evidence
    BY <1>2, FoundEvidence DEF Verify, Record, At
  <2> QED
    BY <1>2, <2>1 DEF Verify, Record, Answer, Only, LedgerNext
<1>3. ASSUME NEW w \in Workers, Receipt(w)
      PROVE  [LedgerNext]_ledgerVars
  BY <1>3 DEF Receipt, Only, InsertReceipt, LedgerNext
<1>4. ASSUME NEW w \in Workers, Check(w)
      PROVE  [LedgerNext]_ledgerVars
  <2>1. CASE Read(w) \/ ReadCandidate(w)
    BY <2>1, ReadIsQuiet DEF ReadCandidate, Answer, Only
  <2>2. CASE \/ Fetch(w) \/ ReadResolved(w) \/ AssessUnreadable(w)
             \/ Assess(w) \/ AssessedAll(w)
    BY <2>2 DEF Fetch, ReadResolved, AssessUnreadable, Assess, AssessedAll,
       Answer, Only
  <2> QED
    BY <1>1, <1>2, <1>4, <2>1, <2>2 DEF Check
<1>5. ASSUME NEW w \in Workers, Proceed(w)
      PROVE  [LedgerNext]_ledgerVars
  BY <1>3, <1>4, <1>5
  DEF Proceed, List, NextReceivable, ReadPending, NextNotice, Release, Send,
      Acknowledge, Only
<1>6. ASSUME NEW w \in Workers,
             Acquire(w) \/ StartCheck(w) \/ RpcFails(w) \/ SendFails(w)
             \/ Crash(w)
      PROVE  UNCHANGED ledgerVars
  BY <1>6 DEF Acquire, StartCheck, RpcFails, SendFails, Crash, Only
<1>7. ASSUME NEW id \in Receivables, Issue(id) \/ Age(id)
      PROVE  [LedgerNext]_ledgerVars
  BY <1>7, IssueStep DEF Age
<1>8. ASSUME NEW s \in Signatures, Finalize(s)
      PROVE  UNCHANGED ledgerVars
  BY <1>8 DEF Finalize
<1>9. ASSUME NEW f \in Evidence, Resolve(f)
      PROVE  [LedgerNext]_ledgerVars
  BY <1>9, ResolveStep, TransactionIsLedgerStep
<1> QED
  BY <1>5, <1>6, <1>7, <1>8, <1>9 DEF Next, Expire, vars

\* The running system implements the ledger: whatever processes read and
\* however late they act on it, crash or retry, the tables change by whole
\* transactions only (reconcile.rs uses the store through its methods).
THEOREM RunImplementsLedger == Spec => LedgerSpec
<1>1. Init => LedgerInit
  BY DEF Init
<1> QED
  BY <1>1, RunAlways, RunStepIsLedgerStep, PTL DEF Spec, LedgerSpec

\* Concurrent checks, passes and operators never count one payment twice.
THEOREM RunSpendsPaymentsOnce == Spec => []OnePaymentPerReceivable
  BY RunImplementsLedger, PaymentsAreSpentOnce, PTL

\* Under concurrent checks and dispositions a receivable's state is what its
\* settlement says.
THEOREM RunStatesMatchSettlements == Spec => []StateMatchesSettlement
  BY RunImplementsLedger, StatesMatchSettlements, PTL

\* The operator is shown, and resolves, the one open candidate.
THEOREM RunReviewsNameTheirCandidate == Spec => []ReviewNamesTheCandidate
  BY RunImplementsLedger, ReviewsNameTheirCandidate, PTL

\* A receivable moves along the life cycle, whichever processes move it.
THEOREM RunKeepsLifecycle == Spec => LifecyclePromise
  BY RunImplementsLedger, LedgerImplementsLifecycle, PTL

\* While processes interleave, crash and retry, the checkpoint is that of the
\* tables, the event chain explains them, the outbox announces what they
\* hold, and a request already granted is granted again.
THEOREM RunKeepsItsBooks ==
  Spec => [](/\ CheckpointIsCurrent
             /\ AuditExplainsLedger
             /\ OutboxMatchesLedger
             /\ RetriesSucceed)
  BY RunImplementsLedger, CheckpointsAreCurrent, AuditAlwaysExplainsLedger,
     OutboxAlwaysMatchesLedger, RetriesAlwaysSucceed, PTL

\* No process, however old what it read, reopens what was settled or
\* cancelled, or puts a receivable under review twice for one candidate.
THEOREM RunDispositionsStayFinal == Spec => DispositionsAreFinal
  BY RunImplementsLedger, DispositionsStayFinal, PTL

\* The lease row names a process only while that process is inside a pass,
\* and what processes have read names rows that exist.
THEOREM WorkersAreOK == Spec => []WorkersOK
<1>1. RunInv => WorkersOK
  <2> SUFFICES ASSUME RunInv PROVE WorkersOK
    OBVIOUS
  <2>1. ASSUME NEW w \in Workers
        PROVE  /\ worker[w].id \in Receivables \cup {None}
               /\ worker[w].found \in Evidence \cup {None}
               /\ worker[w].seen \subseteq Evidence
               /\ worker[w].notices \subseteq DOMAIN outbox
               /\ \A n \in DOMAIN worker[w].mail :
                    worker[w].mail[n].notification \in DOMAIN outbox
    BY DEF RunInv, RecordsOK, WorkerRecord, Sound
  <2>2. lease.holder \in Workers => InPass(lease.holder)
    BY DEF RunInv, LeaseOK, InPass, Outside, Mailing
  <2> QED
    BY <2>1, <2>2 DEF WorkersOK, RunInv, LeaseOK, BookOK
<1> QED
  BY <1>1, RunAlways, PTL

\* What LeaseIsRespected says of a step.
RespectsLease ==
  lease.live /\ lease'.holder # lease.holder =>
    \/ /\ lease'.holder = Orphan
       /\ worker'[lease.holder] = Idle
    \/ /\ lease'.holder = None
       /\ lease.holder \in Workers
       /\ At(lease.holder, "release")

LEMMA LeaseKept ==
  ASSUME RunInv, NEW w \in Workers,
         \/ Proceed(w) /\ ~Release(w)
         \/ StartCheck(w) \/ RpcFails(w) \/ SendFails(w)
  PROVE  UNCHANGED lease
<1>1. ASSUME Check(w)
      PROVE  UNCHANGED lease
  <2>1. CASE Read(w)
    BY <2>1, ReadIsQuiet
  <2>2. CASE \/ Fetch(w) \/ ReadResolved(w) \/ AssessUnreadable(w)
             \/ Assess(w) \/ AssessedAll(w)
    BY <2>2 DEF Fetch, ReadResolved, AssessUnreadable, Assess, AssessedAll,
       Answer, Only
  <2>3. CASE ReadCandidate(w) \/ Value(w) \/ Verify(w) \/ Record(w)
    BY <2>3 DEF ReadCandidate, Value, Verify, Record, Answer, Only
  <2> QED
    BY <1>1, <2>1, <2>2, <2>3 DEF Check
<1> QED
  BY <1>1 DEF Proceed, List, NextReceivable, ReadPending, NextNotice, Send,
     Acknowledge, Receipt, StartCheck, RpcFails, SendFails, Only

LEMMA LeaseStep == RunInv /\ [Next]_vars => RespectsLease
<1> SUFFICES ASSUME RunInv, [Next]_vars PROVE RespectsLease
  OBVIOUS
<1>1. CASE UNCHANGED lease
  BY <1>1 DEF RespectsLease
<1>2. ASSUME NEW w \in Workers, Acquire(w)
      PROVE  RespectsLease
  BY <1>2 DEF Acquire, LeaseFree, RespectsLease, RunInv, LeaseOK
<1>3. ASSUME NEW w \in Workers, Release(w)
      PROVE  RespectsLease
  BY <1>3 DEF Release, AfterRelease, RespectsLease
<1>4. ASSUME NEW w \in Workers, Crash(w)
      PROVE  RespectsLease
  <2>1. worker'[w] = Idle
    BY <1>4 DEF Crash, Become, RunInv, RecordsOK
  <2>2. lease'.holder = IF lease.holder = w THEN Orphan ELSE lease.holder
    BY <1>4 DEF Crash, RunInv, LeaseOK
  <2> QED
    BY <2>1, <2>2 DEF RespectsLease
<1>5. CASE Expire
  BY <1>5 DEF Expire, RespectsLease, RunInv, LeaseOK
<1>6. ASSUME NEW id \in Receivables, Issue(id) \/ Age(id)
      PROVE  UNCHANGED lease
  BY <1>6 DEF Issue, Age
<1>7. ASSUME NEW s \in Signatures, Finalize(s)
      PROVE  UNCHANGED lease
  BY <1>7 DEF Finalize
<1>8. ASSUME NEW f \in Evidence, Resolve(f)
      PROVE  UNCHANGED lease
  BY <1>8 DEF Resolve, processVars
<1>9. CASE UNCHANGED vars
  BY <1>1, <1>9 DEF vars, processVars
<1> QED
  BY <1>1, <1>2, <1>3, <1>4, <1>5, <1>6, <1>7, <1>8, <1>9, LeaseKept DEF Next

\* Only its holder gives up a lease that has not expired, by releasing it at
\* the end of the pass or by dying (acquire_reconciliation_lease,
\* release_reconciliation_lease).
THEOREM LeasesAreRespected == Spec => LeaseIsRespected
<1>1. RunInv /\ [Next]_vars => [RespectsLease]_vars
  BY LeaseStep
<1> QED
  BY <1>1, RunAlways, PTL DEF Spec, LeaseIsRespected, RespectsLease

-----------------------------------------------------------------------------
(***************************************************************************)
(* Receipts.  A worker that is about to acknowledge a notification has     *)
(* sent its message; no other step brings it there.                        *)
(***************************************************************************)
Acknowledging == {"acknowledge", "receipt"}

SentFirst ==
  \A w \in Workers :
    worker[w].pc \in Acknowledging =>
      \E m \in sent : m.notification = Head(worker[w].mail).notification

ReceiptInv == RunInv /\ SentFirst /\ ReceiptsFollowMessages

\* A step of a process that writes no receipt and ends elsewhere.
Elsewise(w, r) ==
  Become(w, r) /\ r.pc \notin Acknowledging /\ UNCHANGED <<sent, receipts>>

LEMMA ElsewiseStep ==
  ASSUME ReceiptInv, NEW w \in Workers, NEW r, Elsewise(w, r)
  PROVE  SentFirst' /\ ReceiptsFollowMessages'
<1>1. SentFirst'
  BY DEF Elsewise, Become, SentFirst, ReceiptInv, RunInv, RecordsOK
<1>2. ReceiptsFollowMessages'
  BY DEF Elsewise, ReceiptInv, ReceiptsFollowMessages
<1> QED
  BY <1>1, <1>2

\* Records that a step outside the mail leaves.
LEMMA PlainRecords ==
  ASSUME RunInv, NEW w \in Workers
  PROVE  /\ worker[w] \in WorkerRecord
         /\ Idle.pc \notin Acknowledging
         /\ Failed(w).pc \notin Acknowledging
         /\ \A me \in WorkerRecord : Deliver(me).pc \notin Acknowledging
<1>1. Idle.pc = "idle"
  BY DEF Idle
<1>2. Failed(w).pc \in {"idle", "release"}
  BY <1>1, FailedRecord DEF Failed
<1>3. ASSUME NEW me \in WorkerRecord
      PROVE  Deliver(me).pc \in {"idle", "send"}
  BY <1>1 DEF Deliver, WorkerRecord
<1> QED
  BY <1>1, <1>2, <1>3 DEF Acknowledging, RunInv, RecordsOK

LEMMA PlainAnswer ==
  ASSUME RunInv, NEW w \in Workers, NEW status, NEW f
  PROVE  Answered(w, status, f).pc \notin Acknowledging
<1> DEFINE me == worker[w]
           rest == [me EXCEPT !.pc = IF me.job = "notices" THEN "notice" ELSE "next",
                              !.id = None, !.fetched = {}, !.left = {},
                              !.seen = {}, !.found = None,
                              !.polls = IF Kind[w] = "watch" THEN @ ELSE 1]
           told == [rest EXCEPT
                      !.notices = @ \ {Least(@)},
                      !.mail = Append(@, [notification |-> Least(me.notices),
                                          status |-> status,
                                          evidence |-> f])]
<1>1. me \in WorkerRecord
  BY PlainRecords
<1>2. rest.pc \in {"notice", "next"}
  BY <1>1 DEF WorkerRecord
<1>3. told.pc \in {"notice", "next"}
  BY <1>1 DEF WorkerRecord
<1>4. Answered(w, status, f) \in {told, rest, Failed(w), Idle}
  BY <1>1 DEF Answered, WorkerRecord
<1> HIDE DEF rest, told
<1> QED
  BY <1>2, <1>3, <1>4, PlainRecords DEF Acknowledging

LEMMA CheckIsElsewise ==
  ASSUME RunInv, NEW w \in Workers, Check(w)
  PROVE  \E r : Elsewise(w, r)
<1>1. worker[w] \in WorkerRecord
  BY PlainRecords
<1>2. ASSUME NEW r, Only(w, r), r.pc \notin Acknowledging
      PROVE  \E q : Elsewise(w, q)
  BY <1>2 DEF Only, Elsewise, ledgerVars
<1>3. ASSUME NEW status, NEW f, Answer(w, status, f)
      PROVE  \E q : Elsewise(w, q)
  BY <1>2, <1>3, PlainAnswer DEF Answer
<1>4. ASSUME Only(w, Failed(w))
      PROVE  \E q : Elsewise(w, q)
  BY <1>2, <1>4, PlainRecords
<1>5. ASSUME NEW status, NEW f, Become(w, Answered(w, status, f)),
             UNCHANGED <<sent, receipts>>
      PROVE  \E q : Elsewise(w, q)
  BY <1>5, PlainAnswer DEF Elsewise
<1>6. CASE Read(w)
  <2>1. state[worker[w].id] \in States
    BY <1>6 DEF Read, At, RunInv, RecordsOK, Sound, Checking, ReviewInv,
       TypeInv, TypeOK
  <2>2. PICK pc \in {"fetch", "candidate", "value"} :
          \/ Only(w, [worker[w] EXCEPT !.pc = pc])
          \/ Answer(w, "cancelled", None)
    BY <1>6, <2>1 DEF Read, States, Settled
  <2>3. [worker[w] EXCEPT !.pc = pc].pc \notin Acknowledging
    BY <1>1 DEF WorkerRecord, Acknowledging
  <2> QED
    BY <1>2, <1>3, <2>2, <2>3
<1>7. CASE ReadCandidate(w)
  BY <1>3, <1>4, <1>7 DEF ReadCandidate
<1>8. CASE Value(w)
  <2>1. PICK s \in settlements :
          \/ Only(w, Failed(w))
          \/ /\ \/ UNCHANGED ledgerVars
                \/ \E q \in Quotes : AttachValuation(s.id, q)
             /\ Become(w, Answered(w, state[s.id], s.evidence))
             /\ UNCHANGED sent
    BY <1>8 DEF Value
  <2>2. CASE Only(w, Failed(w))
    BY <1>4, <2>2
  <2>3. CASE ~Only(w, Failed(w))
    <3>1. UNCHANGED receipts
      BY <2>1, <2>3 DEF AttachValuation, ledgerVars
    <3> QED
      BY <1>5, <2>1, <2>3, <3>1
  <2> QED
    BY <2>2, <2>3
<1>9. CASE Fetch(w)
  <2> DEFINE named == Named(worker[w].id)
             r == [worker[w] EXCEPT !.pc = "resolved",
                                    !.fetched = named, !.left = named]
  <2>1. \/ Answer(w, "pending", None)
        \/ Answer(w, "incomplete", None)
        \/ Only(w, r)
    BY <1>9 DEF Fetch
  <2> HIDE DEF named
  <2>2. r.pc \notin Acknowledging
    BY <1>1 DEF WorkerRecord, Acknowledging
  <2> HIDE DEF r
  <2> QED
    BY <1>2, <1>3, <2>1, <2>2
<1>10. CASE ReadResolved(w)
  <2> DEFINE seen == {r.evidence : r \in {q \in resolutions :
                                           q.evidence.id = worker[w].id}}
             r == [worker[w] EXCEPT !.pc = "assess", !.seen = seen]
  <2>1. Only(w, r)
    BY <1>10 DEF ReadResolved
  <2> HIDE DEF seen
  <2>2. r.pc \notin Acknowledging
    BY <1>1 DEF WorkerRecord, Acknowledging
  <2> HIDE DEF r
  <2> QED
    BY <1>2, <2>1, <2>2
<1>11. CASE AssessUnreadable(w)
  <2>1. /\ Answered(w, "incomplete", None).pc \notin Acknowledging
        /\ Failed(w).pc \notin Acknowledging
    BY PlainAnswer, PlainRecords
  <2> QED
    BY <1>11, <2>1 DEF AssessUnreadable, Unread, Elsewise, ledgerVars
<1>12. CASE Assess(w)
  <2> DEFINE me == [worker[w] EXCEPT
                      !.left = @ \ {Greatest(worker[w].left)}]
  <2>1. me \in WorkerRecord /\ me.pc = "assess"
    BY <1>1, <1>12 DEF WorkerRecord, Assess, At
  <2>2. \E f : \/ Only(w, [me EXCEPT !.pc = "verify", !.found = f])
               \/ Only(w, AfterAnomaly(me, f))
    BY <1>12, Zenon DEF Assess
  <2> HIDE DEF me
  <2>3. ASSUME NEW f
        PROVE  /\ [me EXCEPT !.pc = "verify", !.found = f].pc \notin Acknowledging
               /\ AfterAnomaly(me, f).pc \notin Acknowledging
    BY <2>1 DEF WorkerRecord, Acknowledging, AfterAnomaly
  <2> QED
    BY <1>2, <2>2, <2>3
<1>13. CASE AssessedAll(w)
  <2>1. [worker[w] EXCEPT !.pc = "record"].pc \notin Acknowledging
    BY <1>1 DEF WorkerRecord, Acknowledging
  <2>2. \/ Answer(w, "pending", None)
        \/ Only(w, [worker[w] EXCEPT !.pc = "record"])
    BY <1>13 DEF AssessedAll
  <2> QED
    BY <1>2, <1>3, <2>1, <2>2
<1>14. CASE Verify(w)
  BY <1>3, <1>4, <1>5, <1>14 DEF Verify, MarkPaymentVerified
<1>15. CASE Record(w)
  BY <1>4, <1>5, <1>15 DEF Record, MarkReviewCandidate
<1> QED
  BY <1>6, <1>7, <1>8, <1>9, <1>10, <1>11, <1>12, <1>13, <1>14,
     <1>15 DEF Check

LEMMA PassIsElsewise ==
  ASSUME RunInv, NEW w \in Workers,
         \/ List(w) \/ NextReceivable(w) \/ ReadPending(w) \/ NextNotice(w)
         \/ Release(w) \/ StartCheck(w) \/ Acquire(w) \/ RpcFails(w)
         \/ SendFails(w) \/ Crash(w)
  PROVE  \E r : Elsewise(w, r)
<1> DEFINE me == worker[w]
<1>1. /\ me \in WorkerRecord /\ Idle \in WorkerRecord
      /\ Idle.pc \notin Acknowledging
      /\ Failed(w).pc \notin Acknowledging
      /\ Deliver(me).pc \notin Acknowledging
  BY PlainRecords, IdleRecord
<1> HIDE DEF me
<1>2. ASSUME NEW r, Become(w, r), r.pc \notin Acknowledging,
             UNCHANGED <<ledgerVars, sent>>
      PROVE  \E q : Elsewise(w, q)
  BY <1>2 DEF Elsewise, ledgerVars
<1>3. CASE List(w) \/ ReadPending(w)
  <2>1. PICK places :
          \/ Only(w, [me EXCEPT !.pc = "next", !.todo = places])
          \/ Only(w, [me EXCEPT !.pc = "notice", !.notices = places])
    BY <1>3 DEF List, ReadPending, me
  <2>2. /\ [me EXCEPT !.pc = "next", !.todo = places].pc \notin Acknowledging
        /\ [me EXCEPT !.pc = "notice", !.notices = places].pc
             \notin Acknowledging
    BY <1>1 DEF WorkerRecord, Acknowledging
  <2> QED
    BY <1>2, <2>1, <2>2 DEF Only
<1>4. CASE NextReceivable(w)
  <2>1. PICK id, polls, todo :
          \/ Only(w, [me EXCEPT !.pc = "read", !.id = id, !.polls = polls,
                                !.todo = todo])
          \/ Only(w, [me EXCEPT !.pc = "pending", !.job = "notices"])
          \/ Only(w, Failed(w))
    BY <1>4 DEF NextReceivable, me
  <2>2. /\ [me EXCEPT !.pc = "read", !.id = id, !.polls = polls,
                      !.todo = todo].pc \notin Acknowledging
        /\ [me EXCEPT !.pc = "pending", !.job = "notices"].pc
             \notin Acknowledging
    BY <1>1 DEF WorkerRecord, Acknowledging
  <2> QED
    BY <1>1, <1>2, <2>1, <2>2 DEF Only
<1>5. CASE NextNotice(w)
  <2>1. PICK id :
          \/ Only(w, [me EXCEPT !.pc = "read", !.id = id])
          \/ Only(w, [me EXCEPT !.pc = "release"])
    BY <1>5 DEF NextNotice, me
  <2>2. /\ [me EXCEPT !.pc = "read", !.id = id].pc \notin Acknowledging
        /\ [me EXCEPT !.pc = "release"].pc \notin Acknowledging
    BY <1>1 DEF WorkerRecord, Acknowledging
  <2> QED
    BY <1>2, <2>1, <2>2 DEF Only
<1>6. CASE Release(w)
  BY <1>1, <1>2, <1>6 DEF Release, me
<1>7. CASE StartCheck(w) \/ Acquire(w)
  <2>1. PICK n :
          /\ \/ Become(w, [Idle EXCEPT !.pc = "list"])
             \/ Become(w, [Idle EXCEPT !.pc = "next", !.todo = {n},
                                       !.polls = Polls])
             \/ Become(w, [Idle EXCEPT !.pc = "next", !.todo = {n}])
          /\ UNCHANGED <<ledgerVars, sent>>
    BY <1>7 DEF StartCheck, Acquire, Only
  <2>2. /\ [Idle EXCEPT !.pc = "list"].pc \notin Acknowledging
        /\ [Idle EXCEPT !.pc = "next", !.todo = {n},
                        !.polls = Polls].pc \notin Acknowledging
        /\ [Idle EXCEPT !.pc = "next", !.todo = {n}].pc \notin Acknowledging
    BY <1>1 DEF WorkerRecord, Acknowledging
  <2> QED
    BY <1>2, <2>1, <2>2
<1>8. CASE RpcFails(w)
  <2>1. Answered(w, "incomplete", None).pc \notin Acknowledging
    BY PlainAnswer
  <2> QED
    BY <1>1, <1>2, <1>8, <2>1 DEF RpcFails, Unread
<1>9. CASE SendFails(w) \/ Crash(w)
  BY <1>1, <1>2, <1>9 DEF SendFails, Crash
<1> QED
  BY <1>3, <1>4, <1>5, <1>6, <1>7, <1>8, <1>9

\* Steps that change neither processes nor mail.
LEMMA ReceiptsStay ==
  ASSUME ReceiptInv, UNCHANGED <<worker, sent, receipts>>
  PROVE  SentFirst' /\ ReceiptsFollowMessages'
  BY DEF ReceiptInv, SentFirst, ReceiptsFollowMessages

LEMMA SendsFirst ==
  ASSUME ReceiptInv, NEW w \in Workers, Send(w)
  PROVE  SentFirst' /\ ReceiptsFollowMessages'
<1> DEFINE r == [worker[w] EXCEPT !.pc = "acknowledge"]
<1>1. worker[w] \in WorkerRecord
  BY PlainRecords DEF ReceiptInv
<1>2. /\ sent' = sent \cup {Head(worker[w].mail)}
      /\ Become(w, r) /\ receipts' = receipts
  BY DEF Send, ledgerVars
<1>3. r.mail = worker[w].mail
  BY <1>1 DEF WorkerRecord
<1>4. /\ worker'[w] = r
      /\ \A v \in Workers \ {w} : worker'[v] = worker[v]
  BY <1>2 DEF Become, ReceiptInv, RunInv, RecordsOK
<1> HIDE DEF r
<1>5. SentFirst'
  BY <1>2, <1>3, <1>4 DEF SentFirst, ReceiptInv
<1>6. ReceiptsFollowMessages'
  BY <1>2 DEF ReceiptInv, ReceiptsFollowMessages
<1> QED
  BY <1>5, <1>6

LEMMA AcknowledgesNext ==
  ASSUME ReceiptInv, NEW w \in Workers, Acknowledge(w)
  PROVE  SentFirst' /\ ReceiptsFollowMessages'
<1> DEFINE more == Deliver([worker[w] EXCEPT !.mail = Tail(@)])
           r == [worker[w] EXCEPT !.pc = "receipt"]
<1>1. /\ worker[w] \in WorkerRecord /\ worker[w].pc = "acknowledge"
      /\ Sound(worker[w], book, chain, outbox, state)
  BY PlainRecords DEF ReceiptInv, Acknowledge, At, RunInv, RecordsOK
<1>2. CASE Only(w, more)
  <2>1. worker[w].mail \in Seq(Mail) /\ worker[w].mail # <<>>
    BY <1>1 DEF WorkerRecord, Sound, Mailing
  <2>2. Tail(worker[w].mail) \in Seq(Mail)
    BY <2>1
  <2>3. [worker[w] EXCEPT !.mail = Tail(@)] \in WorkerRecord
    BY <1>1, <2>2 DEF WorkerRecord
  <2>4. more.pc \notin Acknowledging
    BY <2>3, PlainRecords DEF ReceiptInv
  <2> HIDE DEF more
  <2>5. Elsewise(w, more)
    BY <1>2, <2>4 DEF Only, Elsewise, ledgerVars
  <2> QED
    BY <2>5, ElsewiseStep
<1>3. CASE Only(w, r)
  <2>1. r.mail = worker[w].mail
    BY <1>1 DEF WorkerRecord
  <2>2. /\ worker'[w] = r /\ UNCHANGED <<sent, receipts>>
        /\ \A v \in Workers \ {w} : worker'[v] = worker[v]
    BY <1>3 DEF Only, Become, ledgerVars, ReceiptInv, RunInv, RecordsOK
  <2> HIDE DEF r
  <2> QED
    BY <1>1, <2>1, <2>2
    DEF ReceiptInv, SentFirst, Acknowledging, ReceiptsFollowMessages
<1> QED
  BY <1>2, <1>3 DEF Acknowledge

LEMMA ReceiptsFollow ==
  ASSUME ReceiptInv, NEW w \in Workers, Receipt(w)
  PROVE  SentFirst' /\ ReceiptsFollowMessages'
<1> DEFINE more == Deliver([worker[w] EXCEPT !.mail = Tail(@)])
           n == Head(worker[w].mail).notification
<1>1. /\ worker[w] \in WorkerRecord /\ worker[w].pc = "receipt"
      /\ Sound(worker[w], book, chain, outbox, state)
  BY PlainRecords DEF ReceiptInv, Receipt, At, RunInv, RecordsOK
<1>2. CASE /\ \E receipt \in Receipts : InsertReceipt(n, receipt)
           /\ Become(w, more)
           /\ UNCHANGED <<lease, chain, book, young, sent, faults>>
  <2>1. worker[w].mail \in Seq(Mail) /\ worker[w].mail # <<>>
    BY <1>1 DEF WorkerRecord, Sound, Mailing
  <2>2. Tail(worker[w].mail) \in Seq(Mail)
    BY <2>1
  <2>3. [worker[w] EXCEPT !.mail = Tail(@)] \in WorkerRecord
    BY <1>1, <2>2 DEF WorkerRecord
  <2>4. more.pc \notin Acknowledging
    BY <2>3, PlainRecords DEF ReceiptInv
  <2> HIDE DEF more
  <2>5. SentFirst'
    BY <1>2, <2>4
    DEF Become, SentFirst, ReceiptInv, RunInv, RecordsOK
  <2>6. \E m \in sent : m.notification = n
    BY <1>1 DEF ReceiptInv, SentFirst, Acknowledging
  <2> HIDE DEF n
  <2>7. PICK receipt \in Receipts :
          receipts' = receipts \cup {[notification |-> n, receipt |-> receipt]}
    BY <1>2 DEF InsertReceipt
  <2>8. ReceiptsFollowMessages'
    BY <1>2, <2>6, <2>7 DEF ReceiptInv, ReceiptsFollowMessages
  <2> QED
    BY <2>5, <2>8
<1>3. CASE Only(w, Idle)
  <2>1. Elsewise(w, Idle)
    BY <1>3, PlainRecords DEF Only, Elsewise, ledgerVars, ReceiptInv
  <2> QED
    BY <2>1, ElsewiseStep
<1> QED
  BY <1>2, <1>3 DEF Receipt

LEMMA ReceiptInvStep == ReceiptInv /\ [Next]_vars => ReceiptInv'
<1> SUFFICES ASSUME ReceiptInv, [Next]_vars PROVE ReceiptInv'
  OBVIOUS
<1>1. RunInv /\ RunInv'
  BY RunStep DEF ReceiptInv
<1>2. ASSUME NEW w \in Workers,
             \/ Acquire(w) \/ StartCheck(w) \/ Proceed(w)
             \/ RpcFails(w) \/ SendFails(w) \/ Crash(w)
      PROVE  SentFirst' /\ ReceiptsFollowMessages'
  <2>1. CASE Send(w) \/ Acknowledge(w) \/ Receipt(w)
    BY <2>1, SendsFirst, AcknowledgesNext, ReceiptsFollow
  <2>2. CASE ~(Send(w) \/ Acknowledge(w) \/ Receipt(w))
    <3>1. \E r : Elsewise(w, r)
      BY <1>1, <1>2, <2>2, CheckIsElsewise, PassIsElsewise DEF Proceed
    <3> QED
      BY <3>1, ElsewiseStep
  <2> QED
    BY <2>1, <2>2
<1>3. ASSUME NEW id \in Receivables, Issue(id) \/ Age(id)
      PROVE  SentFirst' /\ ReceiptsFollowMessages'
  <2>1. UNCHANGED <<worker, sent, receipts>>
    BY <1>3 DEF Issue, Age, CreateOrGet, ledgerVars
  <2> QED
    BY <2>1, ReceiptsStay
<1>4. ASSUME NEW s \in Signatures, Finalize(s)
      PROVE  SentFirst' /\ ReceiptsFollowMessages'
  BY <1>4, ReceiptsStay DEF Finalize, ledgerVars
<1>5. ASSUME NEW f \in Evidence, Resolve(f)
      PROVE  SentFirst' /\ ReceiptsFollowMessages'
  BY <1>5, ReceiptsStay DEF Resolve, processVars, ResolveReview
<1>6. ASSUME Expire \/ UNCHANGED vars
      PROVE  SentFirst' /\ ReceiptsFollowMessages'
  BY <1>6, ReceiptsStay DEF Expire, vars, processVars, ledgerVars
<1> QED
  BY <1>1, <1>2, <1>3, <1>4, <1>5, <1>6 DEF Next, ReceiptInv

\* A notification is acknowledged only after its message was sent, whatever
\* fails or dies in between (run_pass of run-reconcile-job.sh).
THEOREM MessagesPrecedeReceipts == Spec => []ReceiptsFollowMessages
<1>1. Init => ReceiptInv
  <2> SUFFICES ASSUME Init PROVE ReceiptInv
    OBVIOUS
  <2>1. SentFirst
    BY DEF Init, SentFirst, Idle, Acknowledging
  <2>2. ReceiptsFollowMessages
    BY DEF Init, LedgerInit, ReceiptsFollowMessages
  <2> QED
    BY <2>1, <2>2, RunInit DEF ReceiptInv
<1>2. ReceiptInv => ReceiptsFollowMessages
  BY DEF ReceiptInv
<1> QED
  BY <1>1, <1>2, ReceiptInvStep, PTL DEF Spec

-----------------------------------------------------------------------------
(***************************************************************************)
(* What processes tell and what they decide.                               *)
(***************************************************************************)

\* A message says what its notification says, of evidence the ledger holds.
TrueMessage(m, ob, cs, ss) ==
  /\ m.notification \in DOMAIN ob
  /\ m.status = ob[m.notification].status
  /\ m.evidence.id = ob[m.notification].evidence.id
  /\ m.evidence.id \in Receivables
  /\ m.status = "payment_verified" =>
       \E s \in ss : s.evidence = m.evidence /\ s.kind = "exact"
  /\ m.status = "needs_review" =>
       \E i \in DOMAIN cs[m.evidence.id] : cs[m.evidence.id][i] = m.evidence

TrueMail(mail, ob, cs, ss) ==
  \A n \in DOMAIN mail : TrueMessage(mail[n], ob, cs, ss)

\* Every exact payment among the places is spent, or the receivable settled.
NoneMissed(id, places, ch, ss, st) ==
  \A n \in places :
    Verdict[id][ch[n]] = "exact" =>
      \/ \E q \in ss : q.evidence.signature = ch[n]
      \/ st[id] \in Settled

\* What a record says of the chain, the outbox and the tables.
Grounded(me, ch, ob, cs, ss, st) ==
  /\ TrueMail(me.mail, ob, cs, ss)
  /\ me.pc \in Checking /\ me.job = "notices" =>
       /\ Least(me.notices) \in DOMAIN ob
       /\ me.id = ob[Least(me.notices)].evidence.id
  /\ me.found # None =>
       me.pc \in {"assess", "verify", "record"} /\ me.found.id = me.id
  /\ me.pc \in {"verify", "record"} => me.found.id = me.id
  /\ me.pc = "resolved" => me.left = me.fetched
  /\ me.pc = "record" => me.left = {}
  /\ me.pc \in {"resolved", "assess", "record"} =>
       /\ me.id \in Receivables
       /\ me.fetched \subseteq DOMAIN ch
  /\ me.pc \in {"assess", "record"} =>
       NoneMissed(me.id, me.fetched \ me.left, ch, ss, st)

GroundedNow(r) == Grounded(r, chain, outbox, candidates, settlements, state)

GroundedNext(r) ==
  Grounded(r, chain', outbox', candidates', settlements', state')

GroundInv ==
  /\ RunInv
  /\ SettlementInv
  /\ ReferencesAreOwn
  /\ \A w \in Workers : GroundedNow(worker[w])
  /\ \A m \in sent : TrueMessage(m, outbox, candidates, settlements)

\* The chain and the tables moved on.
Grown(ch, ch2, ob, ob2, cs, cs2, ss, ss2, st, st2) ==
  /\ Extended(ch, ch2)
  /\ Extended(ob, ob2)
  /\ \A id \in Receivables : Extended(cs[id], cs2[id])
  /\ ss \subseteq ss2
  /\ \A id \in Receivables : st[id] \in Settled => st2[id] \in Settled

GrownNow ==
  Grown(chain, chain', outbox, outbox', candidates, candidates',
        settlements, settlements', state, state')

LEMMA MessageStays ==
  ASSUME NEW m, NEW ob, NEW ob2, NEW cs, NEW cs2, NEW ss, NEW ss2,
         TrueMessage(m, ob, cs, ss),
         Extended(ob, ob2), ss \subseteq ss2,
         \A id \in Receivables : Extended(cs[id], cs2[id])
  PROVE  TrueMessage(m, ob2, cs2, ss2)
<1>1. /\ m.notification \in DOMAIN ob2
      /\ ob2[m.notification] = ob[m.notification]
  BY DEF TrueMessage, Extended
<1>2. Extended(cs[m.evidence.id], cs2[m.evidence.id])
  BY DEF TrueMessage
<1> QED
  BY <1>1, <1>2 DEF TrueMessage, Extended

LEMMA GroundedStays ==
  ASSUME NEW me, NEW ch, NEW ch2, NEW ob, NEW ob2, NEW cs, NEW cs2,
         NEW ss, NEW ss2, NEW st, NEW st2,
         Grounded(me, ch, ob, cs, ss, st),
         Grown(ch, ch2, ob, ob2, cs, cs2, ss, ss2, st, st2)
  PROVE  Grounded(me, ch2, ob2, cs2, ss2, st2)
<1>1. TrueMail(me.mail, ob2, cs2, ss2)
  BY MessageStays DEF Grounded, Grown, TrueMail
<1>2. me.pc \in Checking /\ me.job = "notices" =>
        /\ Least(me.notices) \in DOMAIN ob2
        /\ me.id = ob2[Least(me.notices)].evidence.id
  BY DEF Grounded, Grown, Extended
<1>3. me.pc \in {"resolved", "assess", "record"} =>
        /\ me.id \in Receivables
        /\ me.fetched \subseteq DOMAIN ch2
  BY DEF Grounded, Grown, Extended
<1>4. ASSUME me.pc \in {"assess", "record"}
      PROVE  NoneMissed(me.id, me.fetched \ me.left, ch2, ss2, st2)
  <2>1. /\ NoneMissed(me.id, me.fetched \ me.left, ch, ss, st)
        /\ me.id \in Receivables /\ me.fetched \subseteq DOMAIN ch
    BY <1>4 DEF Grounded
  <2>2. \A n \in me.fetched : ch2[n] = ch[n]
    BY <2>1 DEF Grown, Extended
  <2> QED
    BY <2>1, <2>2 DEF NoneMissed, Grown
<1> QED
  BY <1>1, <1>2, <1>3, <1>4 DEF Grounded

\* Every step only adds.
LEMMA RunGrows ==
  ASSUME RunInv, [Next]_vars
  PROVE  GrownNow
<1>1. TypeInv /\ [LedgerNext]_ledgerVars
  BY RunStepIsLedgerStep DEF RunInv, ReviewInv
<1>2. AppendsOnly
  BY <1>1, LedgerGrows
<1>3. \A id \in Receivables : state[id] \in Settled => state'[id] \in Settled
  BY <1>1, DispositionStep
<1>4. Extended(chain, chain')
  <2>1. CASE UNCHANGED chain
    BY <2>1, SelfExtended
  <2>2. ASSUME NEW s \in Signatures, Finalize(s)
        PROVE  Extended(chain, chain')
    BY <2>2, AppendExtends DEF Finalize, RunInv, BookOK
  <2>3. ASSUME NEW w \in Workers, Check(w)
        PROVE  UNCHANGED chain
    <3>1. CASE Read(w)
      <4>1. state[worker[w].id] \in States
        BY <3>1 DEF Read, At, RunInv, RecordsOK, Sound, Checking, ReviewInv,
           TypeInv, TypeOK
      <4> QED
        BY <3>1, <4>1 DEF Read, Answer, Only, States, Settled
    <3>2. CASE \/ Fetch(w) \/ ReadResolved(w) \/ AssessUnreadable(w)
               \/ Assess(w) \/ AssessedAll(w)
      BY <3>2 DEF Fetch, ReadResolved, AssessUnreadable, Assess, AssessedAll,
       Answer, Only
    <3>3. CASE ReadCandidate(w) \/ Value(w) \/ Verify(w) \/ Record(w)
      BY <3>3 DEF ReadCandidate, Value, Verify, Record, Answer, Only
    <3> QED
      BY <2>3, <3>1, <3>2, <3>3 DEF Check
  <2>4. ASSUME NEW w \in Workers, Proceed(w)
        PROVE  UNCHANGED chain
    BY <2>3, <2>4
    DEF Proceed, List, NextReceivable, ReadPending, NextNotice, Release, Send,
        Acknowledge, Receipt, Only
  <2>5. ASSUME NEW w \in Workers,
               Acquire(w) \/ StartCheck(w) \/ RpcFails(w) \/ SendFails(w)
               \/ Crash(w)
        PROVE  UNCHANGED chain
    BY <2>5 DEF Acquire, StartCheck, RpcFails, SendFails, Crash, Only
  <2> QED
    BY <2>1, <2>2, <2>4, <2>5
    DEF Next, Issue, Age, Resolve, Expire, vars, processVars
<1> QED
  BY <1>2, <1>3, <1>4 DEF GrownNow, Grown, AppendsOnly

\* A record outside a check.
LEMMA QuietGrounded ==
  ASSUME NEW r, r.pc \notin Checking, r.found = None,
         NEW ch, NEW ob, NEW cs, NEW ss, NEW st,
         TrueMail(r.mail, ob, cs, ss)
  PROVE  Grounded(r, ch, ob, cs, ss, st)
  BY DEF Grounded, Checking

LEMMA IdleGrounded ==
  ASSUME NEW ch, NEW ob, NEW cs, NEW ss, NEW st
  PROVE  Grounded(Idle, ch, ob, cs, ss, st)
<1>1. /\ Idle.pc = "idle" /\ Idle.found = None /\ Idle.mail = <<>>
      /\ DOMAIN <<>> = {}
  BY DEF Idle
<1> QED
  BY <1>1, QuietGrounded DEF TrueMail, Checking

LEMMA FailedGrounded ==
  ASSUME NEW w, NEW ch, NEW ob, NEW cs, NEW ss, NEW st
  PROVE  Grounded(Failed(w), ch, ob, cs, ss, st)
<1> DEFINE r == [Idle EXCEPT !.pc = "release"]
<1>1. /\ r.pc = "release" /\ r.found = None /\ r.mail = <<>>
      /\ DOMAIN <<>> = {}
  BY DEF Idle
<1> HIDE DEF r
<1>2. Grounded(r, ch, ob, cs, ss, st)
  BY <1>1, QuietGrounded DEF TrueMail, Checking
<1> QED
  BY <1>2, IdleGrounded DEF Failed, r

\* A step of one process, by the record it leaves.
Founded(w) == \E r : Become(w, r) /\ GroundedNext(r)

LEMMA FoundedStep ==
  ASSUME GroundInv, GrownNow, NEW w \in Workers, Founded(w),
         \A m \in sent' :
           m \in sent \/ TrueMessage(m, outbox, candidates, settlements)
  PROVE  /\ \A v \in Workers : GroundedNext(worker'[v])
         /\ \A m \in sent' :
              TrueMessage(m, outbox', candidates', settlements')
<1>1. PICK r : Become(w, r) /\ GroundedNext(r)
  BY DEF Founded
<1>2. ASSUME NEW v \in Workers
      PROVE  GroundedNext(worker'[v])
  <2>1. CASE v = w
    BY <1>1, <2>1 DEF Become, GroundInv, RunInv, RecordsOK
  <2>2. CASE v # w
    <3>1. worker'[v] = worker[v]
      BY <1>1, <2>2 DEF Become, GroundInv, RunInv, RecordsOK
    <3>2. GroundedNow(worker[v])
      BY DEF GroundInv
    <3>3. GroundedNext(worker[v])
      BY <3>2, GroundedStays DEF GroundedNow, GroundedNext, GrownNow
    <3> QED
      BY <3>1, <3>3
  <2> QED
    BY <2>1, <2>2
<1>3. ASSUME NEW m \in sent'
      PROVE  TrueMessage(m, outbox', candidates', settlements')
  <2>1. TrueMessage(m, outbox, candidates, settlements)
    BY DEF GroundInv
  <2> QED
    BY <2>1, MessageStays DEF GrownNow, Grown
<1> QED
  BY <1>2, <1>3

\* A step that leaves the tables and the chain alone.
LEMMA FoundedOnly ==
  ASSUME NEW w, NEW r, Only(w, r), GroundedNow(r)
  PROVE  Founded(w)
  BY DEF Only, Founded, GroundedNow, GroundedNext, ledgerVars

LEMMA QuietNext ==
  ASSUME NEW r, r.pc \notin Checking, r.found = None,
         TrueMail(r.mail, outbox, candidates, settlements), GrownNow
  PROVE  GroundedNow(r) /\ GroundedNext(r)
<1>1. GroundedNow(r)
  BY QuietGrounded DEF GroundedNow
<1> QED
  BY <1>1, GroundedStays DEF GroundedNow, GroundedNext, GrownNow

LEMMA IdleNext ==
  ASSUME NEW w
  PROVE  /\ GroundedNow(Idle) /\ GroundedNext(Idle)
         /\ GroundedNow(Failed(w)) /\ GroundedNext(Failed(w))
  BY IdleGrounded, FailedGrounded DEF GroundedNow, GroundedNext

\* A process at work, as the invariant describes it.
LEMMA AtWork ==
  ASSUME GroundInv, NEW w \in Workers
  PROVE  /\ worker[w] \in WorkerRecord
         /\ Sound(worker[w], book, chain, outbox, state)
         /\ GroundedNow(worker[w])
  BY DEF GroundInv, RunInv, RecordsOK

LEMMA ListGrounded ==
  ASSUME GroundInv, GrownNow, NEW w \in Workers,
         List(w) \/ ReadPending(w)
  PROVE  Founded(w)
<1> DEFINE me == worker[w]
<1>1. PICK places :
        \/ Only(w, [me EXCEPT !.pc = "next", !.todo = places])
        \/ Only(w, [me EXCEPT !.pc = "notice", !.notices = places])
  BY DEF List, ReadPending
<1>2. /\ me \in WorkerRecord /\ me.pc \in {"list", "pending"}
      /\ GroundedNow(me)
  BY AtWork DEF List, ReadPending, At
<1> HIDE DEF me
<1>3. /\ me.found = None
      /\ TrueMail(me.mail, outbox, candidates, settlements)
  BY <1>2 DEF GroundedNow, Grounded
<1> DEFINE r1 == [me EXCEPT !.pc = "next", !.todo = places]
           r2 == [me EXCEPT !.pc = "notice", !.notices = places]
<1>4. /\ r1.pc = "next" /\ r1.found = me.found /\ r1.mail = me.mail
      /\ r2.pc = "notice" /\ r2.found = me.found /\ r2.mail = me.mail
  BY <1>2 DEF WorkerRecord
<1> HIDE DEF r1, r2
<1>5. GroundedNow(r1) /\ GroundedNow(r2)
  BY <1>3, <1>4, QuietNext DEF Checking
<1> QED
  BY <1>1, <1>5, FoundedOnly DEF r1, r2

LEMMA NextReceivableGrounded ==
  ASSUME GroundInv, GrownNow, NEW w \in Workers, NextReceivable(w)
  PROVE  Founded(w)
<1> DEFINE me == worker[w]
<1>1. PICK id, polls, todo :
        \/ Only(w, [me EXCEPT !.pc = "read", !.id = id, !.polls = polls,
                              !.todo = todo])
        \/ Only(w, [me EXCEPT !.pc = "pending", !.job = "notices"])
        \/ Only(w, Failed(w))
  BY DEF NextReceivable
<1>2. /\ me \in WorkerRecord /\ me.pc = "next"
      /\ Sound(me, book, chain, outbox, state)
      /\ GroundedNow(me)
  BY AtWork DEF NextReceivable, At
<1> HIDE DEF me
<1>3. /\ me.found = None /\ me.job = "pass"
      /\ TrueMail(me.mail, outbox, candidates, settlements)
  BY <1>2 DEF GroundedNow, Grounded, Sound
<1> DEFINE r1 == [me EXCEPT !.pc = "read", !.id = id, !.polls = polls,
                            !.todo = todo]
           r2 == [me EXCEPT !.pc = "pending", !.job = "notices"]
<1>4. /\ r1.pc = "read" /\ r1.found = me.found /\ r1.mail = me.mail
      /\ r1.job = me.job
      /\ r2.pc = "pending" /\ r2.found = me.found /\ r2.mail = me.mail
  BY <1>2 DEF WorkerRecord
<1> HIDE DEF r1, r2
<1>5. GroundedNow(r1)
  BY <1>3, <1>4 DEF GroundedNow, Grounded
<1>6. GroundedNow(r2)
  BY <1>3, <1>4, QuietNext DEF Checking
<1> QED
  BY <1>1, <1>5, <1>6, FoundedOnly, IdleNext DEF r1, r2

LEMMA NextNoticeGrounded ==
  ASSUME GroundInv, GrownNow, NEW w \in Workers, NextNotice(w)
  PROVE  Founded(w)
<1> DEFINE me == worker[w]
           n == Least(me.notices)
           r1 == [me EXCEPT !.pc = "release"]
           r2 == [me EXCEPT !.pc = "read", !.id = outbox[n].evidence.id]
<1>1. \/ Only(w, r1)
      \/ me.notices # {} /\ Only(w, r2)
  BY DEF NextNotice
<1>2. /\ me \in WorkerRecord /\ me.pc = "notice"
      /\ Sound(me, book, chain, outbox, state)
      /\ GroundedNow(me)
  BY AtWork DEF NextNotice, At
<1> HIDE DEF me
<1>3. /\ me.found = None
      /\ TrueMail(me.mail, outbox, candidates, settlements)
  BY <1>2 DEF GroundedNow, Grounded
<1>4. CASE Only(w, r1)
  <2>1. r1.pc = "release" /\ r1.found = me.found /\ r1.mail = me.mail
    BY <1>2 DEF WorkerRecord
  <2> HIDE DEF r1
  <2> QED
    BY <1>3, <1>4, <2>1, QuietNext, FoundedOnly DEF Checking
<1>5. CASE me.notices # {} /\ Only(w, r2)
  <2>1. n \in me.notices /\ me.notices \subseteq DOMAIN outbox
    BY <1>2, <1>5, LeastMember DEF WorkerRecord, Sound
  <2> HIDE DEF n
  <2>2. /\ r2.pc = "read" /\ r2.id = outbox[n].evidence.id
        /\ r2.notices = me.notices
        /\ r2.found = me.found /\ r2.mail = me.mail
    BY <1>2 DEF WorkerRecord
  <2>3. Only(w, r2)
    BY <1>5
  <2> HIDE DEF r2
  <2>4. Least(r2.notices) = n
    BY <2>2 DEF n
  <2>5. GroundedNow(r2)
    BY <1>3, <2>1, <2>2, <2>4 DEF GroundedNow, Grounded
  <2> QED
    BY <2>3, <2>5, FoundedOnly
<1> QED
  BY <1>1, <1>4, <1>5

\* Deliver begins with a message, or ends.
LEMMA DeliverGrounded ==
  ASSUME GrownNow, NEW me \in WorkerRecord, me.found = None,
         TrueMail(me.mail, outbox, candidates, settlements)
  PROVE  GroundedNow(Deliver(me)) /\ GroundedNext(Deliver(me))
<1> DEFINE r == [me EXCEPT !.pc = "send"]
<1>1. r.pc = "send" /\ r.found = me.found /\ r.mail = me.mail
  BY DEF WorkerRecord
<1> HIDE DEF r
<1>2. GroundedNow(r) /\ GroundedNext(r)
  BY <1>1, QuietNext DEF Checking
<1> QED
  BY <1>2, IdleNext DEF Deliver, r

LEMMA ReleaseGrounded ==
  ASSUME GroundInv, GrownNow, NEW w \in Workers, Release(w)
  PROVE  Founded(w)
<1>1. /\ worker[w] \in WorkerRecord /\ worker[w].pc = "release"
      /\ GroundedNow(worker[w])
  BY AtWork DEF Release, At
<1>2. /\ worker[w].found = None
      /\ TrueMail(worker[w].mail, outbox, candidates, settlements)
  BY <1>1 DEF GroundedNow, Grounded
<1> QED
  BY <1>1, <1>2, DeliverGrounded DEF Release, Founded

LEMMA SendGrounded ==
  ASSUME GroundInv, GrownNow, NEW w \in Workers, Send(w)
  PROVE  /\ Founded(w)
         /\ \A m \in sent' :
              m \in sent \/ TrueMessage(m, outbox, candidates, settlements)
<1> DEFINE me == worker[w]
           r == [me EXCEPT !.pc = "acknowledge"]
<1>1. /\ me \in WorkerRecord /\ me.pc = "send"
      /\ Sound(me, book, chain, outbox, state)
      /\ GroundedNow(me)
  BY AtWork DEF Send, At
<1>2. Become(w, r) /\ sent' = sent \cup {Head(me.mail)}
  BY DEF Send
<1> HIDE DEF me
<1>3. /\ me.found = None
      /\ TrueMail(me.mail, outbox, candidates, settlements)
  BY <1>1 DEF GroundedNow, Grounded
<1>4. me.mail \in Seq(Mail) /\ me.mail # <<>>
  BY <1>1 DEF WorkerRecord, Sound, Mailing
<1>5. TrueMessage(Head(me.mail), outbox, candidates, settlements)
  BY <1>3, <1>4 DEF TrueMail
<1>6. r.pc = "acknowledge" /\ r.found = me.found /\ r.mail = me.mail
  BY <1>1 DEF WorkerRecord
<1> HIDE DEF r
<1>7. GroundedNext(r)
  BY <1>3, <1>6, QuietNext DEF Checking
<1> QED
  BY <1>2, <1>5, <1>7 DEF Founded

\* The rest of the mail, after its first message.
LEMMA TailGrounded ==
  ASSUME GroundInv, GrownNow, NEW w \in Workers,
         worker[w].pc \in {"acknowledge", "receipt"}
  PROVE  LET r == Deliver([worker[w] EXCEPT !.mail = Tail(@)])
         IN  GroundedNow(r) /\ GroundedNext(r)
<1> DEFINE me == worker[w]
           tail == Tail(me.mail)
           r == [me EXCEPT !.mail = tail]
<1>1. /\ me \in WorkerRecord /\ me.pc \in {"acknowledge", "receipt"}
      /\ Sound(me, book, chain, outbox, state)
      /\ GroundedNow(me)
  BY AtWork
<1> HIDE DEF me
<1>2. /\ me.found = None
      /\ TrueMail(me.mail, outbox, candidates, settlements)
  BY <1>1 DEF GroundedNow, Grounded
<1>3. me.mail \in Seq(Mail) /\ me.mail # <<>>
  BY <1>1 DEF WorkerRecord, Sound, Mailing
<1>4. /\ tail \in Seq(Mail)
      /\ \A n \in DOMAIN tail : n + 1 \in DOMAIN me.mail
                                /\ tail[n] = me.mail[n + 1]
  BY <1>3
<1> HIDE DEF tail
<1>5. TrueMail(tail, outbox, candidates, settlements)
  BY <1>2, <1>4 DEF TrueMail
<1>6. r \in WorkerRecord /\ r.found = me.found /\ r.mail = tail
  BY <1>1, <1>4 DEF WorkerRecord
<1> HIDE DEF r
<1>7. GroundedNow(Deliver(r)) /\ GroundedNext(Deliver(r))
  BY <1>2, <1>5, <1>6, DeliverGrounded
<1> QED
  BY <1>7 DEF r, tail, me

LEMMA AcknowledgeGrounded ==
  ASSUME GroundInv, GrownNow, NEW w \in Workers, Acknowledge(w) \/ Receipt(w)
  PROVE  Founded(w)
<1> DEFINE me == worker[w]
           rest == Deliver([me EXCEPT !.mail = Tail(@)])
           r == [me EXCEPT !.pc = "receipt"]
<1>1. me.pc \in {"acknowledge", "receipt"}
  BY DEF Acknowledge, Receipt, At
<1>2. \/ Become(w, rest)
      \/ Only(w, r)
      \/ Only(w, Idle)
  BY DEF Acknowledge, Receipt, Only
<1>3. GroundedNext(rest)
  BY <1>1, TailGrounded
<1>4. me \in WorkerRecord /\ GroundedNow(me)
  BY AtWork
<1> HIDE DEF rest, me
<1>5. /\ me.found = None
      /\ TrueMail(me.mail, outbox, candidates, settlements)
  BY <1>1, <1>4 DEF GroundedNow, Grounded
<1>6. r.pc = "receipt" /\ r.found = me.found /\ r.mail = me.mail
  BY <1>4 DEF WorkerRecord
<1> HIDE DEF r
<1>7. GroundedNow(r)
  BY <1>5, <1>6, QuietNext DEF Checking
<1> QED
  BY <1>2, <1>3, <1>7, FoundedOnly, IdleNext DEF Founded

LEMMA StartGrounded ==
  ASSUME GroundInv, GrownNow, NEW w \in Workers, StartCheck(w) \/ Acquire(w)
  PROVE  Founded(w)
<1>1. PICK n :
        \/ Become(w, [Idle EXCEPT !.pc = "list"])
        \/ Become(w, [Idle EXCEPT !.pc = "next", !.todo = {n},
                                  !.polls = Polls])
        \/ Become(w, [Idle EXCEPT !.pc = "next", !.todo = {n}])
  BY DEF StartCheck, Acquire, Only
<1> DEFINE r1 == [Idle EXCEPT !.pc = "list"]
           r2 == [Idle EXCEPT !.pc = "next", !.todo = {n}, !.polls = Polls]
           r3 == [Idle EXCEPT !.pc = "next", !.todo = {n}]
<1>2. /\ r1.pc = "list" /\ r2.pc = "next" /\ r3.pc = "next"
      /\ r1.found = None /\ r2.found = None /\ r3.found = None
      /\ r1.mail = <<>> /\ r2.mail = <<>> /\ r3.mail = <<>>
  BY DEF Idle
<1>3. TrueMail(<<>>, outbox, candidates, settlements)
  BY DEF TrueMail
<1> HIDE DEF r1, r2, r3
<1>4. GroundedNext(r1) /\ GroundedNext(r2) /\ GroundedNext(r3)
  BY <1>2, <1>3, QuietNext DEF Checking
<1> QED
  BY <1>1, <1>4 DEF Founded, r1, r2, r3

-----------------------------------------------------------------------------
(***************************************************************************)
(* Checks: an answer that confirms a notification is a true message.       *)
(***************************************************************************)

\* The answer to a check names what the ledger holds as the step ends.
Confirmed(w, status, f) ==
  \/ status \notin {"payment_verified", "needs_review"}
  \/ /\ f.id = worker[w].id
     /\ status = "payment_verified" =>
          \E s \in settlements' : s.evidence = f /\ s.kind = "exact"
     /\ status = "needs_review" =>
          \E i \in DOMAIN candidates'[f.id] : candidates'[f.id][i] = f

LEMMA ConfirmedMessage ==
  ASSUME GroundInv, GrownNow, NEW w \in Workers, worker[w].pc \in Checking,
         worker[w].job = "notices", NEW status, NEW f, Confirmed(w, status, f),
         NoticeHolds(Least(worker[w].notices), status),
         NEW m, m.notification = Least(worker[w].notices),
         m.status = status, m.evidence = f
  PROVE  TrueMessage(m, outbox', candidates', settlements')
<1> DEFINE n == Least(worker[w].notices)
<1>1. /\ n \in DOMAIN outbox
      /\ worker[w].id = outbox[n].evidence.id
      /\ worker[w].id \in Receivables
  BY AtWork DEF GroundedNow, Grounded, Sound
<1>2. status = outbox[n].status
  BY DEF NoticeHolds
<1>3. outbox[n].status \in {"payment_verified", "needs_review"}
  BY <1>1, OutboxRows
  DEF GroundInv, SettlementInv, TypeInv, Notification
<1>4. n \in DOMAIN outbox' /\ outbox'[n] = outbox[n]
  BY <1>1 DEF GrownNow, Grown, Extended
<1>5. m.notification = n
  OBVIOUS
<1> HIDE DEF n
<1> QED
  BY <1>1, <1>2, <1>3, <1>4, <1>5 DEF TrueMessage, Confirmed

LEMMA AnsweredGrounded ==
  ASSUME GroundInv, GrownNow, NEW w \in Workers, worker[w].pc \in Checking,
         NEW status \in Statuses, NEW f \in Fingerprint \cup {None},
         Confirmed(w, status, f)
  PROVE  GroundedNext(Answered(w, status, f))
<1> DEFINE me == worker[w]
           rest == [me EXCEPT !.pc = IF me.job = "notices" THEN "notice" ELSE "next",
                              !.id = None, !.fetched = {}, !.left = {},
                              !.seen = {}, !.found = None,
                              !.polls = IF Kind[w] = "watch" THEN @ ELSE 1]
           n == Least(me.notices)
           m == [notification |-> n, status |-> status, evidence |-> f]
           told == [rest EXCEPT !.notices = @ \ {Least(@)},
                                !.mail = Append(@, m)]
<1>1. /\ me \in WorkerRecord /\ Sound(me, book, chain, outbox, state)
      /\ GroundedNow(me)
  BY AtWork
<1>2. \/ Answered(w, status, f) \in {Idle, Failed(w), rest}
      \/ /\ me.job = "notices" /\ NoticeHolds(n, status)
         /\ Answered(w, status, f) = told
  BY DEF Answered
<1>3. me.job = "notices" /\ NoticeHolds(n, status) =>
        TrueMessage(m, outbox', candidates', settlements')
  BY ConfirmedMessage
<1>4. me.job = "notices" => n \in Nat
  <2>1. me.job = "notices" => me.notices # {} /\ me.notices \subseteq Nat
    BY <1>1 DEF Sound, WorkerRecord
  <2> QED
    BY <2>1, LeastMember
<1> HIDE DEF me
<1>5. /\ rest.pc \notin Checking /\ rest.found = None
      /\ rest.mail = me.mail /\ rest.notices = me.notices
  BY <1>1 DEF WorkerRecord, Checking
<1>6. rest.mail \in Seq(Mail)
  BY <1>1, <1>5 DEF WorkerRecord
<1>7. TrueMail(me.mail, outbox', candidates', settlements')
  BY <1>1, GroundedStays DEF GroundedNow, GrownNow, Grounded
<1>8. rest \in [DOMAIN rest -> {rest[x] : x \in DOMAIN rest}]
      /\ {"pc", "found", "notices", "mail"} \subseteq DOMAIN rest
  BY <1>1 DEF WorkerRecord
<1> HIDE DEF rest
<1>9. GroundedNext(rest)
  BY <1>5, <1>7, QuietGrounded DEF GroundedNext
<1>10. ASSUME me.job = "notices", NoticeHolds(n, status)
       PROVE  GroundedNext(told)
  <2>1. m \in Mail
    BY <1>4, <1>10 DEF Mail
  <2>2. TrueMessage(m, outbox', candidates', settlements')
    BY <1>3, <1>10
  <2> HIDE DEF m
  <2>3. /\ told.pc = rest.pc /\ told.found = rest.found
        /\ told.mail = Append(rest.mail, m)
    BY <1>8
  <2> HIDE DEF told
  <2>4. TrueMail(told.mail, outbox', candidates', settlements')
    <3> SUFFICES ASSUME NEW k \in DOMAIN Append(rest.mail, m)
                 PROVE  TrueMessage(Append(rest.mail, m)[k],
                                    outbox', candidates', settlements')
      BY <2>3 DEF TrueMail
    <3>1. \/ k \in DOMAIN rest.mail /\ Append(rest.mail, m)[k] = rest.mail[k]
          \/ Append(rest.mail, m)[k] = m
      BY <1>6, <2>1
    <3>2. k \in DOMAIN rest.mail =>
            TrueMessage(rest.mail[k], outbox', candidates', settlements')
      BY <1>5, <1>7 DEF TrueMail
    <3> QED
      BY <2>2, <3>1, <3>2
  <2> QED
    BY <1>5, <2>3, <2>4, QuietGrounded DEF GroundedNext
<1> QED
  BY <1>2, <1>9, <1>10, IdleNext

LEMMA AnswerGrounded ==
  ASSUME GroundInv, GrownNow, NEW w \in Workers, worker[w].pc \in Checking,
         NEW status \in Statuses, NEW f \in Fingerprint \cup {None},
         Confirmed(w, status, f), Become(w, Answered(w, status, f))
  PROVE  Founded(w)
  BY AnsweredGrounded DEF Founded

LEMMA FailGrounded ==
  ASSUME NEW w, Become(w, Failed(w))
  PROVE  Founded(w)
  BY IdleNext DEF Founded

LEMMA ReadGrounded ==
  ASSUME GroundInv, GrownNow, NEW w \in Workers, Read(w)
  PROVE  Founded(w)
<1> DEFINE me == worker[w]
<1>1. /\ me \in WorkerRecord /\ me.pc = "read"
      /\ Sound(me, book, chain, outbox, state)
      /\ GroundedNow(me)
  BY AtWork DEF Read, At
<1>2. state[me.id] \in States
  BY <1>1
  DEF Sound, Checking, GroundInv, SettlementInv, TypeInv, TypeOK
<1>3. PICK pc \in {"fetch", "candidate", "value"} :
        \/ Only(w, [me EXCEPT !.pc = pc])
        \/ Answer(w, "cancelled", None)
  BY <1>2 DEF Read, States, Settled
<1>4. CASE Answer(w, "cancelled", None)
  <2>1. me.pc \in Checking /\ Confirmed(w, "cancelled", None)
    BY <1>1 DEF Checking, Confirmed
  <2> QED
    BY <1>4, <2>1, AnswerGrounded DEF Answer, Only, Statuses, States
<1>5. CASE Only(w, [me EXCEPT !.pc = pc])
  <2> DEFINE r == [me EXCEPT !.pc = pc]
  <2> HIDE DEF me
  <2>1. /\ r.pc = pc /\ r.found = me.found /\ r.mail = me.mail
        /\ r.job = me.job /\ r.notices = me.notices /\ r.id = me.id
    BY <1>1 DEF WorkerRecord
  <2>2. Only(w, r)
    BY <1>5
  <2> HIDE DEF r
  <2>3. GroundedNow(r)
    BY <1>1, <2>1 DEF GroundedNow, Grounded, Checking
  <2> QED
    BY <2>2, <2>3, FoundedOnly
<1> QED
  BY <1>3, <1>4, <1>5

LEMMA ReadCandidateGrounded ==
  ASSUME GroundInv, GrownNow, NEW w \in Workers, ReadCandidate(w)
  PROVE  Founded(w)
<1> DEFINE id == worker[w].id
<1>1. worker[w].pc \in Checking /\ id \in Receivables
  BY AtWork DEF ReadCandidate, At, Checking, Sound
<1>2. ASSUME NEW f \in UnderReview(id), Answer(w, "needs_review", f)
      PROVE  Founded(w)
  <2>1. candidates[id] \in Seq(Evidence)
    BY <1>1 DEF GroundInv, SettlementInv, TypeInv, TypeOK
  <2>2. PICK i \in DOMAIN candidates[id] : f = candidates[id][i]
    BY DEF UnderReview, LatestUnresolved
  <2>3. f.id = id /\ f \in Evidence
    BY <1>1, <2>1, <2>2 DEF GroundInv, RunInv, ReviewInv, CandidatesAreOwn
  <2>4. candidates' = candidates
    BY <1>2 DEF Answer, Only, ledgerVars
  <2>5. Confirmed(w, "needs_review", f)
    BY <2>2, <2>3, <2>4 DEF Confirmed
  <2>6. f \in Fingerprint
    BY <2>3, EvidenceFields
  <2> QED
    BY <1>1, <1>2, <2>5, <2>6, AnswerGrounded DEF Answer, Only, Statuses, States
<1>3. CASE Only(w, Failed(w))
  BY <1>3, FailGrounded DEF Only
<1> QED
  BY <1>2, <1>3 DEF ReadCandidate

LEMMA ValueGrounded ==
  ASSUME GroundInv, GrownNow, NEW w \in Workers, Value(w)
  PROVE  Founded(w)
<1>1. worker[w].pc \in Checking
  BY DEF Value, At, Checking
<1>2. PICK s \in settlements :
        /\ s.id = worker[w].id
        /\ \/ Only(w, Failed(w))
           \/ /\ \/ UNCHANGED ledgerVars
                 \/ \E q \in Quotes : AttachValuation(s.id, q)
              /\ Become(w, Answered(w, state[s.id], s.evidence))
  BY DEF Value
<1>3. CASE Only(w, Failed(w))
  BY <1>3, FailGrounded DEF Only
<1>4. CASE /\ UNCHANGED settlements
           /\ Become(w, Answered(w, state[s.id], s.evidence))
  <2>1. /\ s.id \in Receivables /\ s.evidence \in Fingerprint
        /\ state[s.id] \in Statuses /\ state[s.id] \in Settled
        /\ s.evidence.id = s.id
        /\ state[s.id] = "payment_verified" => s.kind = "exact"
    BY SettlementStates
    DEF GroundInv, SettlementInv, TypeInv, TypeOK, Settlement, Statuses,
        StateMatchesSettlement
  <2>2. Confirmed(w, state[s.id], s.evidence)
    BY <1>2, <1>4, <2>1 DEF Confirmed, Settled
  <2> QED
    BY <1>1, <1>4, <2>1, <2>2, AnswerGrounded
<1> QED
  BY <1>2, <1>3, <1>4 DEF AttachValuation, ledgerVars

LEMMA FetchGrounded ==
  ASSUME GroundInv, GrownNow, NEW w \in Workers, Fetch(w)
  PROVE  Founded(w)
<1> DEFINE me == worker[w]
           named == Named(me.id)
           r == [me EXCEPT !.pc = "resolved", !.fetched = named, !.left = named]
<1>1. /\ me \in WorkerRecord /\ me.pc = "fetch" /\ me.pc \in Checking
      /\ Sound(me, book, chain, outbox, state)
      /\ GroundedNow(me)
  BY AtWork DEF Fetch, At, Checking
<1>2. \/ Answer(w, "pending", None)
      \/ Answer(w, "incomplete", None)
      \/ Only(w, r)
  BY DEF Fetch
<1>3. CASE Answer(w, "pending", None) \/ Answer(w, "incomplete", None)
  <2>1. Confirmed(w, "pending", None) /\ Confirmed(w, "incomplete", None)
    BY DEF Confirmed
  <2> QED
    BY <1>1, <1>3, <2>1, AnswerGrounded DEF Answer, Only, Statuses
<1>4. CASE Only(w, r)
  <2>1. named \subseteq DOMAIN chain /\ me.id \in Receivables
    BY <1>1 DEF Named, Sound
  <2> HIDE DEF named, me
  <2>2. /\ r.pc = "resolved" /\ r.found = me.found /\ r.mail = me.mail
        /\ r.job = me.job /\ r.notices = me.notices /\ r.id = me.id
        /\ r.fetched = named /\ r.left = named
    BY <1>1 DEF WorkerRecord
  <2>3. Only(w, r)
    BY <1>4
  <2> HIDE DEF r
  <2>4. GroundedNow(r)
    BY <1>1, <2>1, <2>2 DEF GroundedNow, Grounded, Checking
  <2> QED
    BY <2>3, <2>4, FoundedOnly
<1> QED
  BY <1>2, <1>3, <1>4

LEMMA UnreadGrounded ==
  ASSUME GroundInv, GrownNow, NEW w \in Workers,
         RpcFails(w) \/ AssessUnreadable(w)
  PROVE  Founded(w)
<1>1. worker[w].pc \in Checking /\ Confirmed(w, "incomplete", None)
  BY DEF RpcFails, AssessUnreadable, At, Checking, Confirmed
<1> QED
  BY <1>1, AnswerGrounded, FailGrounded
  DEF RpcFails, AssessUnreadable, Unread, Statuses

LEMMA ReadResolvedGrounded ==
  ASSUME GroundInv, GrownNow, NEW w \in Workers, ReadResolved(w)
  PROVE  Founded(w)
<1> DEFINE me == worker[w]
<1>1. PICK seen : Only(w, [me EXCEPT !.pc = "assess", !.seen = seen])
  BY DEF ReadResolved
<1> DEFINE r == [me EXCEPT !.pc = "assess", !.seen = seen]
<1>2. /\ me \in WorkerRecord /\ me.pc = "resolved"
      /\ GroundedNow(me)
  BY AtWork DEF ReadResolved, At
<1> HIDE DEF me
<1>3. /\ r.pc = "assess" /\ r.found = me.found /\ r.mail = me.mail
      /\ r.job = me.job /\ r.notices = me.notices /\ r.id = me.id
      /\ r.fetched = me.fetched /\ r.left = me.left
  BY <1>2 DEF WorkerRecord
<1> HIDE DEF r
<1>4. r.fetched \ r.left = {}
  BY <1>2, <1>3 DEF GroundedNow, Grounded
<1>5. NoneMissed(r.id, r.fetched \ r.left, chain, settlements, state)
  BY <1>4 DEF NoneMissed
<1>6. GroundedNow(r)
  BY <1>2, <1>3, <1>5 DEF GroundedNow, Grounded, Checking
<1> QED
  BY <1>1, <1>6, FoundedOnly DEF r

\* What an assessment that is not exact says of the transaction.
LEMMA NotExact ==
  ASSUME SettlementInv, ReferencesAreOwn, NEW id \in Receivables, NEW s,
         Assessment(id, s).verdict # "exact", Verdict[id][s] = "exact"
  PROVE  \/ \E q \in settlements : q.evidence.signature = s
         \/ state[id] \in Settled
<1>1. CASE \E q \in settlements : q.evidence.signature = s
  BY <1>1
<1>2. CASE \E q \in settlements : q.reference = reference[id]
  BY <1>2, SpentReference
<1>3. CASE /\ ~\E q \in settlements : q.evidence.signature = s
           /\ ~\E q \in settlements : q.reference = reference[id]
  <2>1. Assessment(id, s).verdict = Verdict[id][s]
    BY <1>3 DEF Assessment
  <2> QED
    BY <2>1
<1> QED
  BY <1>1, <1>2, <1>3

LEMMA AssessGrounded ==
  ASSUME GroundInv, GrownNow, NEW w \in Workers, Assess(w)
  PROVE  Founded(w)
<1> DEFINE me == worker[w]
           n == Greatest(me.left)
           less == me.left \ {n}
           f == Assessment(me.id, chain[n])
           mid == [me EXCEPT !.left = less]
<1>1. /\ me \in WorkerRecord /\ me.pc = "assess"
      /\ Sound(me, book, chain, outbox, state)
      /\ GroundedNow(me)
  BY AtWork DEF Assess, At
<1>2. mid.id = me.id
  BY <1>1 DEF WorkerRecord
<1>3. IF f.verdict = "exact"
      THEN Only(w, [mid EXCEPT !.pc = "verify", !.found = f])
      ELSE Only(w, AfterAnomaly(mid, f))
  BY <1>2, Zenon DEF Assess
<1>4. me.id \in Receivables /\ f.id = me.id
  BY <1>1 DEF Sound, Checking, Assessment
<1> DEFINE first == IF mid.found = None /\ f \notin mid.seen
                    THEN f ELSE mid.found
           r1 == [mid EXCEPT !.pc = "verify", !.found = f]
           r2 == [mid EXCEPT !.found = first]
<1>5. \/ Only(w, r1)
      \/ f.verdict # "exact" /\ Only(w, r2)
  BY <1>3 DEF AfterAnomaly
<1>6. f.verdict # "exact" =>
        (Verdict[me.id][chain[n]] = "exact" =>
           \/ \E q \in settlements : q.evidence.signature = chain[n]
           \/ state[me.id] \in Settled)
  BY <1>4, NotExact DEF GroundInv
<1> HIDE DEF me, n, f, less
<1>7. /\ mid.pc = "assess" /\ mid.found = me.found /\ mid.mail = me.mail
      /\ mid.job = me.job /\ mid.notices = me.notices /\ mid.id = me.id
      /\ mid.fetched = me.fetched /\ mid.left = less
      /\ mid \in [DOMAIN me -> {mid[x] : x \in DOMAIN me}]
      /\ {"pc", "found", "mail", "job", "notices", "id", "fetched", "left"}
           \subseteq DOMAIN me
  BY <1>1 DEF WorkerRecord
<1> HIDE DEF mid
<1>8. /\ me.found # None => me.found.id = me.id
      /\ me.fetched \subseteq DOMAIN chain
      /\ NoneMissed(me.id, me.fetched \ me.left, chain, settlements, state)
      /\ TrueMail(me.mail, outbox, candidates, settlements)
      /\ me.job = "notices" =>
           /\ Least(me.notices) \in DOMAIN outbox
           /\ me.id = outbox[Least(me.notices)].evidence.id
  BY <1>1 DEF GroundedNow, Grounded, Checking
<1>9. CASE Only(w, r1)
  <2>1. /\ r1.pc = "verify" /\ r1.found = f /\ r1.mail = me.mail
        /\ r1.job = me.job /\ r1.notices = me.notices /\ r1.id = me.id
    BY <1>7
  <2> HIDE DEF r1
  <2>2. GroundedNow(r1)
    BY <1>4, <1>8, <2>1 DEF GroundedNow, Grounded
  <2> QED
    BY <1>9, <2>2, FoundedOnly
<1>10. CASE f.verdict # "exact" /\ Only(w, r2)
  <2>1. first # None => first.id = me.id
    BY <1>4, <1>7, <1>8
  <2> HIDE DEF first
  <2>2. /\ r2.pc = "assess" /\ r2.found = first /\ r2.mail = me.mail
        /\ r2.job = me.job /\ r2.notices = me.notices /\ r2.id = me.id
        /\ r2.fetched = me.fetched /\ r2.left = less
    BY <1>7
  <2> HIDE DEF r2
  <2>3. me.fetched \ less \subseteq (me.fetched \ me.left) \cup {n}
    BY DEF less
  <2>4. NoneMissed(me.id, me.fetched \ less, chain, settlements, state)
    BY <1>6, <1>8, <1>10, <2>3 DEF NoneMissed
  <2>5. GroundedNow(r2)
    BY <1>4, <1>8, <2>1, <2>2, <2>4 DEF GroundedNow, Grounded
  <2> QED
    BY <1>10, <2>5, FoundedOnly
<1> QED
  BY <1>5, <1>9, <1>10

LEMMA AssessedAllGrounded ==
  ASSUME GroundInv, GrownNow, NEW w \in Workers, AssessedAll(w)
  PROVE  Founded(w)
<1> DEFINE me == worker[w]
           r == [me EXCEPT !.pc = "record"]
<1>1. /\ me \in WorkerRecord /\ me.pc = "assess" /\ me.pc \in Checking
      /\ me.left = {}
      /\ GroundedNow(me)
  BY AtWork DEF AssessedAll, At, Checking
<1>2. \/ Answer(w, "pending", None)
      \/ me.found # None /\ Only(w, r)
  BY DEF AssessedAll
<1>3. CASE Answer(w, "pending", None)
  <2>1. Confirmed(w, "pending", None)
    BY DEF Confirmed
  <2> QED
    BY <1>1, <1>3, <2>1, AnswerGrounded DEF Answer, Only, Statuses
<1>4. CASE me.found # None /\ Only(w, r)
  <2> HIDE DEF me
  <2>1. /\ r.pc = "record" /\ r.found = me.found /\ r.mail = me.mail
        /\ r.job = me.job /\ r.notices = me.notices /\ r.id = me.id
        /\ r.fetched = me.fetched /\ r.left = me.left
    BY <1>1 DEF WorkerRecord
  <2>2. Only(w, r)
    BY <1>4
  <2> HIDE DEF r
  <2>3. GroundedNow(r)
    BY <1>1, <1>4, <2>1 DEF GroundedNow, Grounded, Checking
  <2> QED
    BY <2>2, <2>3, FoundedOnly
<1> QED
  BY <1>2, <1>3, <1>4

LEMMA VerifyGrounded ==
  ASSUME GroundInv, GrownNow, NEW w \in Workers, Verify(w)
  PROVE  Founded(w)
<1> DEFINE f == worker[w].found
<1>1. /\ worker[w].pc = "verify" /\ worker[w].pc \in Checking
      /\ GroundedNow(worker[w])
      /\ f \in Evidence /\ f \in Fingerprint
  BY AtWork, FoundEvidence DEF Verify, At, Checking, GroundInv
<1>2. f.id = worker[w].id
  BY <1>1 DEF GroundedNow, Grounded
<1>3. CASE MarkPaymentVerified(f) /\ Become(w, Answered(w, "payment_verified", f))
  <2> DEFINE row == [id |-> f.id, reference |-> reference[f.id],
                     evidence |-> f, kind |-> "exact"]
  <2>1. row \in settlements' /\ row.evidence = f /\ row.kind = "exact"
    BY <1>3 DEF MarkPaymentVerified, Settle
  <2>2. Confirmed(w, "payment_verified", f)
    BY <1>2, <2>1 DEF Confirmed
  <2> QED
    BY <1>1, <1>3, <2>2, AnswerGrounded DEF Statuses, States
<1>4. CASE VerifyRetry(f) /\ Answer(w, "payment_verified", f)
  <2>1. PICK s \in settlements : s.id = f.id /\ s.evidence = f
    BY <1>4 DEF VerifyRetry
  <2>2. s.kind = "exact"
    BY <1>4, <2>1
    DEF VerifyRetry, GroundInv, SettlementInv, StateMatchesSettlement
  <2>3. settlements' = settlements
    BY <1>4 DEF Answer, Only, ledgerVars
  <2>4. Confirmed(w, "payment_verified", f)
    BY <1>2, <2>1, <2>2, <2>3 DEF Confirmed
  <2> QED
    BY <1>1, <1>4, <2>4, AnswerGrounded DEF Answer, Only, Statuses, States
<1>5. CASE Only(w, Failed(w))
  BY <1>5, FailGrounded DEF Only
<1> QED
  BY <1>3, <1>4, <1>5 DEF Verify

LEMMA RecordGrounded ==
  ASSUME GroundInv, GrownNow, NEW w \in Workers, Record(w)
  PROVE  Founded(w)
<1> DEFINE f == worker[w].found
<1>1. /\ worker[w].pc = "record" /\ worker[w].pc \in Checking
      /\ GroundedNow(worker[w])
      /\ f \in Evidence /\ f \in Fingerprint
  BY AtWork, FoundEvidence DEF Record, At, Checking, GroundInv
<1>2. f.id = worker[w].id /\ f.id \in Receivables
  BY <1>1, EvidenceFields DEF GroundedNow, Grounded
<1>3. CASE MarkReviewCandidate(f) /\ Become(w, Answered(w, "needs_review", f))
  <2>1. /\ candidates[f.id] \in Seq(Evidence)
        /\ candidates'[f.id] = Append(candidates[f.id], f)
    BY <1>2, <1>3
    DEF MarkReviewCandidate, GroundInv, SettlementInv, TypeInv, TypeOK
  <2>2. \E i \in DOMAIN candidates'[f.id] : candidates'[f.id][i] = f
    <3> DEFINE list == candidates[f.id]
    <3>1. candidates'[f.id] = Append(list, f) /\ list \in Seq(Evidence)
      BY <2>1
    <3> HIDE DEF list
    <3>2. /\ Len(list) + 1 \in DOMAIN Append(list, f)
          /\ Append(list, f)[Len(list) + 1] = f
      BY <1>1, <3>1
    <3> QED
      BY <3>1, <3>2
  <2>3. Confirmed(w, "needs_review", f)
    BY <1>2, <2>2 DEF Confirmed
  <2> QED
    BY <1>1, <1>3, <2>3, AnswerGrounded DEF Statuses, States
<1>4. CASE Only(w, Failed(w))
  BY <1>4, FailGrounded DEF Only
<1> QED
  BY <1>3, <1>4 DEF Record

LEMMA CheckGrounded ==
  ASSUME GroundInv, GrownNow, NEW w \in Workers, Check(w)
  PROVE  Founded(w) /\ sent' = sent
<1>1. Founded(w)
  BY ReadGrounded, ReadCandidateGrounded, ValueGrounded, FetchGrounded,
     ReadResolvedGrounded, UnreadGrounded, AssessGrounded, AssessedAllGrounded,
     VerifyGrounded, RecordGrounded DEF Check
<1>2. CASE Read(w)
  BY <1>1, <1>2, ReadIsQuiet DEF GroundInv
<1>3. CASE ReadCandidate(w) \/ Value(w) \/ Verify(w) \/ Record(w)
  BY <1>1, <1>3 DEF ReadCandidate, Value, Verify, Record, Answer, Only
<1>4. CASE \/ Fetch(w) \/ ReadResolved(w) \/ AssessUnreadable(w)
           \/ Assess(w) \/ AssessedAll(w)
  BY <1>1, <1>4 DEF Fetch, ReadResolved, AssessUnreadable, Assess, AssessedAll,
       Answer, Only
<1> QED
  BY <1>2, <1>3, <1>4 DEF Check

\* Only Send sends.
LEMMA PassGrounded ==
  ASSUME GroundInv, GrownNow, NEW w \in Workers,
         \/ Acquire(w) \/ StartCheck(w) \/ Proceed(w)
         \/ RpcFails(w) \/ SendFails(w) \/ Crash(w)
  PROVE  /\ Founded(w)
         /\ \A m \in sent' :
              m \in sent \/ TrueMessage(m, outbox, candidates, settlements)
<1>1. CASE Check(w)
  BY <1>1, CheckGrounded
<1>2. CASE Send(w)
  BY <1>2, SendGrounded
<1>3. CASE SendFails(w) \/ Crash(w)
  BY <1>3, IdleNext DEF SendFails, Crash, Founded
<1>4. CASE Acquire(w) \/ StartCheck(w)
  BY <1>4, StartGrounded DEF Acquire, StartCheck, Only
<1>5. CASE RpcFails(w)
  BY <1>5, UnreadGrounded DEF RpcFails
<1>6. CASE List(w) \/ ReadPending(w)
  BY <1>6, ListGrounded DEF List, ReadPending, Only
<1>7. CASE NextReceivable(w)
  BY <1>7, NextReceivableGrounded DEF NextReceivable, Only
<1>8. CASE NextNotice(w)
  BY <1>8, NextNoticeGrounded DEF NextNotice, Only
<1>9. CASE Release(w)
  BY <1>9, ReleaseGrounded DEF Release
<1>10. CASE Acknowledge(w) \/ Receipt(w)
  BY <1>10, AcknowledgeGrounded DEF Acknowledge, Receipt, Only
<1> QED
  BY <1>1, <1>2, <1>3, <1>4, <1>5, <1>6, <1>7, <1>8, <1>9, <1>10
  DEF Proceed

LEMMA GroundInit == Init => GroundInv
<1> SUFFICES ASSUME Init PROVE GroundInv
  OBVIOUS
<1>1. SettlementInv
  BY SettlementInit DEF Init
<1>2. ReferencesAreOwn
  BY DEF Init, LedgerInit, ReferencesAreOwn
<1>3. \A w \in Workers : GroundedNow(worker[w])
  BY IdleNext DEF Init
<1> QED
  BY <1>1, <1>2, <1>3, RunInit DEF Init, GroundInv

LEMMA GroundStep == GroundInv /\ [Next]_vars => GroundInv'
<1> SUFFICES ASSUME GroundInv, [Next]_vars PROVE GroundInv'
  OBVIOUS
<1>1. GrownNow
  BY RunGrows DEF GroundInv
<1>2. RunInv' /\ SettlementInv' /\ ReferencesAreOwn'
  BY RunStep, RunStepIsLedgerStep, SettlementStep, ReferenceStep
  DEF GroundInv, SettlementInv
<1> DEFINE Rest ==
             /\ \A w \in Workers : GroundedNext(worker'[w])
             /\ \A m \in sent' :
                  TrueMessage(m, outbox', candidates', settlements')
<1>3. ASSUME NEW w \in Workers,
             \/ Acquire(w) \/ StartCheck(w) \/ Proceed(w)
             \/ RpcFails(w) \/ SendFails(w) \/ Crash(w)
      PROVE  Rest
  BY <1>1, <1>3, PassGrounded, FoundedStep
<1>4. ASSUME UNCHANGED <<worker, sent>>
      PROVE  Rest
  <2>1. \A w \in Workers : GroundedNext(worker[w])
    BY <1>1, GroundedStays DEF GroundInv, GroundedNow, GroundedNext, GrownNow
  <2>2. \A m \in sent : TrueMessage(m, outbox', candidates', settlements')
    BY <1>1, MessageStays DEF GroundInv, GrownNow, Grown
  <2> QED
    BY <1>4, <2>1, <2>2
<1> HIDE DEF Rest
<1>5. Rest
  BY <1>3, <1>4
  DEF Next, Issue, Age, Finalize, Resolve, Expire, vars, processVars
<1> QED
  BY <1>2, <1>5 DEF Rest, GroundInv, GroundedNow, GroundedNext

\* What a message tells is what its notification was written for, and the
\* ledger holds the evidence it names with that status, however long the
\* notification waited and whatever settled, reopened or crashed meanwhile
\* (pending_terminal_notifications).
THEOREM MessagesAreAlwaysTrue == Spec => []MessagesAreTrue
<1>1. GroundInv => MessagesAreTrue
  BY DEF GroundInv, TrueMessage, MessagesAreTrue
<1> QED
  BY <1>1, GroundInit, GroundStep, PTL DEF Spec

\* An anomaly is recorded only when every exact transaction that was fetched
\* with it has settled a receivable (check_open).
THEOREM ExactPaymentsWin == Spec => ExactPaymentWins
<1> DEFINE Wins ==
             \A id \in Receivables, w \in Workers :
               /\ state[id] = "open" /\ state'[id] = "needs_review"
               /\ worker[w].id = id /\ At(w, "record") /\ worker'[w] # worker[w]
               => \A n \in worker[w].fetched :
                    Verdict[id][chain[n]] = "exact" =>
                      \E q \in settlements : q.evidence.signature = chain[n]
<1>1. GroundInv => Wins
  <2> SUFFICES ASSUME GroundInv, NEW id \in Receivables, NEW w \in Workers,
                      state[id] = "open", worker[w].id = id, At(w, "record"),
                      NEW n \in worker[w].fetched,
                      Verdict[id][chain[n]] = "exact"
               PROVE  \E q \in settlements : q.evidence.signature = chain[n]
    OBVIOUS
  <2>1. /\ worker[w].left = {}
        /\ NoneMissed(id, worker[w].fetched \ worker[w].left,
                      chain, settlements, state)
    BY AtWork DEF At, GroundedNow, Grounded
  <2> QED
    BY <2>1 DEF NoneMissed, Settled
<1>2. GroundInv /\ [Next]_vars => [Wins]_vars
  BY <1>1
<1> HIDE DEF Wins
<1>3. Spec => [][Wins]_vars
  BY <1>2, GroundInit, GroundStep, PTL DEF Spec
<1> QED
  BY <1>3 DEF ExactPaymentWins, Wins

=============================================================================
