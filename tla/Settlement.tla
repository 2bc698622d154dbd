----------------------------- MODULE Settlement -----------------------------
(***************************************************************************)
(* From one answer of an RPC node to a verdict on one receivable:          *)
(* parse_transaction (apps/recebi-mcp/src/rpc.rs), decode_transaction and  *)
(* assess_settlement_once (crates/recebi-core).  The transaction is        *)
(* written here with the keys themselves, in the order a message lists     *)
(* them; the node's answer has indices and counts instead, as the wire     *)
(* format has, and the code must find out again who moved what to whom.    *)
(*                                                                         *)
(* Four checks of assess_settlement cannot fail on a decoded answer and    *)
(* are left out: parse_transaction says finalized, check compared the      *)
(* cluster before, the decoder resolved the address tables, and prints     *)
(* signatures of 64 bytes.                                                 *)
(***************************************************************************)
EXTENDS Naturals, Sequences, FiniteSetsExt

CONSTANTS
  ClassicToken,     \* CLASSIC_TOKEN_PROGRAM
  Token2022,        \* TOKEN_2022_PROGRAM
  MerchantAta,      \* derive_classic_ata of the merchant's wallet and Mint
  Mint,             \* expected.mint
  Reference,        \* expected.reference
  Amount,           \* expected.amount
  Decimals,         \* expected.token_decimals
  MaxAccountKeys,   \* MAX_ACCOUNT_KEYS
  MaxInstructions,  \* MAX_INSTRUCTIONS
  MaxAccounts,      \* MAX_ACCOUNTS_PER_INSTRUCTION
  MaxData,          \* MAX_INSTRUCTION_DATA_BYTES
  Keys,             \* public keys
  Transactions,     \* the transactions a node may be asked for
  None

\* What goes wrong between the chain and this program.
Faults ==
  {"none", "tables_missing", "tables_unasked", "mints_missing",
   "mints_conflict", "mint_of_no_account", "garbled", "other_transaction"}

VARIABLES
  tx,        \* the transaction as it is on the chain
  response,  \* the node's answer
  snapshot,  \* TransactionSnapshot
  outcome    \* the assessment, or why there is none

vars == <<tx, response, snapshot, outcome>>

-----------------------------------------------------------------------------
(***************************************************************************)
(* The chain and the node.  A transaction has the six sections of its      *)
(* account list (signers, then others, then addresses loaded from tables,  *)
(* each writable before read-only), its instructions by key, and the mint  *)
(* of each of its token accounts.                                          *)
(***************************************************************************)
StaticKeys(t) ==
  t.writableSigners \o t.readonlySigners \o t.writable \o t.readonly

KeysIn(keys) == {keys[i] : i \in DOMAIN keys}

AllKeys(t) == StaticKeys(t) \o t.loadedWritable \o t.loadedReadonly

\* What the chain guarantees: nothing is listed twice, a legacy message has no
\* tables, and whatever an instruction or a balance refers to is listed.
IsTransaction(t) ==
  /\ \A section \in {t.writableSigners, t.readonlySigners, t.writable,
                     t.readonly, t.loadedWritable, t.loadedReadonly} :
       section \in Seq(Keys)
  /\ \A i, j \in DOMAIN AllKeys(t) : AllKeys(t)[i] = AllKeys(t)[j] => i = j
  /\ t.version \in {"legacy", "v0"}
  /\ t.version = "legacy" => t.loadedWritable \o t.loadedReadonly = <<>>
  /\ t.succeeded \in BOOLEAN
  /\ \A k \in DOMAIN t.mints : k \in KeysIn(AllKeys(t)) /\ t.mints[k] \in Keys
  /\ t.instructions \in
       Seq([program : KeysIn(AllKeys(t)), accounts : Seq(KeysIn(AllKeys(t))),
            op : {"malformed", "transfer", "transfer_checked", "other"},
            amount : Nat, decimals : Nat, size : Nat])

\* A request for nothing is refused when it is created (from_decimal).
ASSUME SettlementAssumption ==
  /\ None \notin Keys
  /\ {Reference, Mint} \subseteq Keys
  /\ Amount \in Nat \ {0}
  /\ {Decimals, MaxAccountKeys, MaxInstructions, MaxAccounts, MaxData}
       \subseteq Nat
  /\ \A t \in Transactions : IsTransaction(t)

\* Indices count from 0, as in the message.
Index(t, k) == (CHOOSE i \in DOMAIN AllKeys(t) : AllKeys(t)[i] = k) - 1

\* A message and the metadata of its execution, with what the node got wrong.
\* Balances list each token account before and after the transaction.
Answer(t, fault) ==
  [valid |-> fault # "garbled",
   agrees |-> fault # "other_transaction",
   version |-> t.version,
   succeeded |-> t.succeeded,
   keys |-> StaticKeys(t),
   required |-> Len(t.writableSigners \o t.readonlySigners),
   readonlySigned |-> Len(t.readonlySigners),
   readonlyUnsigned |-> Len(t.readonly),
   lookups |-> <<Len(t.loadedWritable), Len(t.loadedReadonly)>>,
   loadedWritable |->
     IF fault = "tables_missing" THEN <<>>
     ELSE IF fault = "tables_unasked" THEN t.loadedWritable \o <<Reference>>
     ELSE t.loadedWritable,
   loadedReadonly |->
     IF fault = "tables_missing" THEN <<>> ELSE t.loadedReadonly,
   instructions |->
     [p \in DOMAIN t.instructions |->
        [t.instructions[p] EXCEPT
           !.program = Index(t, @),
           !.accounts = [i \in DOMAIN @ |-> Index(t, @[i])]]],
   balances |->
     IF fault = "mints_missing" THEN {}
     ELSE {[index |-> Index(t, k), mint |-> t.mints[k]] : k \in DOMAIN t.mints}
          \cup IF fault = "mints_conflict"
               THEN {[index |-> Index(t, k), mint |-> None] : k \in DOMAIN t.mints}
               ELSE IF fault = "mint_of_no_account"
               THEN {[index |-> Len(AllKeys(t)), mint |-> Mint]}
               ELSE {}]

-----------------------------------------------------------------------------
(***************************************************************************)
(* parse_transaction and decode_transaction.                               *)
(***************************************************************************)

\* parse_transaction folds the balances into a map by index and refuses two
\* mints for one index.
BalancesAgree(r) ==
  \A b, c \in r.balances : b.index = c.index => b.mint = c.mint

\* The addresses that were loaded are as many as the message looks up.
TablesResolved(r) ==
  IF r.version = "legacy"
  THEN r.loadedWritable = <<>> /\ r.loadedReadonly = <<>>
  ELSE <<Len(r.loadedWritable), Len(r.loadedReadonly)>> = r.lookups

HeaderFits(r) ==
  /\ r.required <= Len(r.keys)
  /\ r.readonlySigned <= r.required
  /\ r.readonlyUnsigned <= Len(r.keys) - r.required

\* Fault: the readonly accounts are counted from the start.
StaticAccountFromStart(r, i) ==
  [key |-> r.keys[i + 1],
   signer |-> i < r.required,
   writable |-> \/ i < r.required - r.readonlySigned
                \/ i >= r.required /\ i >= r.required + r.readonlyUnsigned]

\* static_account_keys: the role of index i from the counts of the header.
StaticAccount(r, i) ==
  [key |-> r.keys[i + 1],
   signer |-> i < r.required,
   writable |-> \/ i < r.required - r.readonlySigned
                \/ i >= r.required /\ i < Len(r.keys) - r.readonlyUnsigned]

Loaded(keys, writable) ==
  [i \in DOMAIN keys |->
     [key |-> keys[i], signer |-> FALSE, writable |-> writable]]

Accounts(r) ==
  [i \in 1..Len(r.keys) |-> StaticAccount(r, i - 1)]
    \o Loaded(r.loadedWritable, TRUE) \o Loaded(r.loadedReadonly, FALSE)

Decodable(r) ==
  /\ BalancesAgree(r)
  /\ r.valid
  /\ TablesResolved(r)
  /\ HeaderFits(r)
  /\ \A b \in r.balances : b.index < Len(Accounts(r))

\* The decoded transaction.
Snapshot(r) ==
  [succeeded |-> r.succeeded,
   accounts |-> Accounts(r),
   instructions |-> r.instructions,
   balances |-> r.balances]

-----------------------------------------------------------------------------
(***************************************************************************)
(* assess_settlement of a snapshot s.                                      *)
(***************************************************************************)

\* The first of a list of checks that fails, else the default.
Ruling(checks, default) ==
  LET failed == {i \in DOMAIN checks : checks[i].fails} IN
    IF failed = {} THEN default ELSE checks[Min(failed)].verdict

Check(fails, verdict) == [fails |-> fails, verdict |-> verdict]

KeyAt(s, i) == IF i < Len(s.accounts) THEN s.accounts[i + 1].key ELSE None

\* Transfer lists source, destination and owner; TransferChecked has the mint
\* in second place.  What follows them is where a reference may be.
Required(ix) == IF ix.op = "transfer" THEN 3 ELSE 4

Extras(ix) == {i \in DOMAIN ix.accounts : i > Required(ix)}

AccountOf(s, ix, i) ==
  IF i <= Len(ix.accounts) THEN KeyAt(s, ix.accounts[i]) ELSE None

DestinationOf(s, ix) == AccountOf(s, ix, Required(ix) - 1)

\* The mint of the first token account with this address.
MintOf(s, key) ==
  LET there == {b \in s.balances : KeyAt(s, b.index) = key} IN
    IF there = {} THEN None
    ELSE (CHOOSE b \in there : b.index = Min({c.index : c \in there})).mint

\* Fault: any mention of the reference will do.
NamesReferenceAnyhow(s, ix, safe) ==
  /\ safe
  /\ \E i \in Extras(ix) : KeyAt(s, ix.accounts[i]) = Reference

\* The reference is among the extra accounts with a safe role (neither signer
\* nor writable), or with another one.
NamesReference(s, ix, safe) ==
  \E i \in Extras(ix) :
    /\ KeyAt(s, ix.accounts[i]) = Reference
    /\ LET account == s.accounts[ix.accounts[i] + 1] IN
         safe <=> ~account.signer /\ ~account.writable

\* decode_transfer and the loop body around it, check by check.  "skipped" is
\* no error: the instruction moves nothing.  An op is "malformed" when the data
\* are empty, unknown or of another length.
Checks(s, ix) ==
  LET program == KeyAt(s, ix.program)
      checked == ix.op = "transfer_checked"
      source == AccountOf(s, ix, 1)
      destination == DestinationOf(s, ix)
  IN  <<Check(\/ Len(ix.accounts) > MaxAccounts
              \/ ix.size > MaxData, "bounds_exceeded"),
        Check(program = None, "malformed_instruction"),
        Check(program = Token2022, "unsupported_token_2022"),
        Check(program # ClassicToken, "skipped"),
        Check(ix.op = "malformed", "malformed_instruction"),
        Check(ix.op = "other", "skipped"),
        Check(checked /\ ix.decimals # Decimals, "wrong_decimals"),
        Check(\/ Len(ix.accounts) < Required(ix)
              \/ None \in {source, destination}, "malformed_instruction"),
        Check(source = destination, "self_transfer"),
        Check(destination # MerchantAta, "wrong_recipient"),
        Check(checked /\ AccountOf(s, ix, 2) # Mint,
              IF AccountOf(s, ix, 2) = None THEN "malformed_instruction"
              ELSE "wrong_mint"),
        Check(MintOf(s, source) = None, "missing_token_account"),
        Check(MintOf(s, source) # Mint, "wrong_mint"),
        Check(MintOf(s, destination) = None, "missing_token_account"),
        Check(MintOf(s, destination) # Mint, "wrong_mint"),
        Check(NamesReference(s, ix, FALSE), "unsafe_reference"),
        Check(~NamesReference(s, ix, TRUE), "missing_reference")>>

\* A transfer to the merchant is a candidate.
InstructionRuling(s, ix) == Ruling(Checks(s, ix), "candidate")

Exact(n, p) ==
  [kind |-> "exact", verdict |-> None, received |-> n, position |-> p]

\* Fault: received and shortfall change places.
ShortOfReceived(n, p) ==
  [kind |-> "underpayment", verdict |-> "wrong_amount", received |-> Amount - n,
   position |-> p]

Short(n, p) ==
  [kind |-> "underpayment", verdict |-> "wrong_amount", received |-> n,
   position |-> p]

Rejected(verdict) ==
  [kind |-> "rejected", verdict |-> verdict, received |-> 0, position |-> 0]

\* Fault: one transfer is taken and the others are not looked at again.
RepeatsNothing(candidates) == {}

\* A second candidate is an error.
Repeats(candidates) ==
  {p \in candidates : \E q \in candidates : q < p}

\* The loop ends at the first error or second candidate; then the amount of
\* the only candidate is compared.
Judge(s, amount) ==
  LET ruling == [p \in DOMAIN s.instructions |->
                   InstructionRuling(s, s.instructions[p])]
      candidates == {p \in DOMAIN ruling : ruling[p] = "candidate"}
      stops == Repeats(candidates) \cup
               {p \in DOMAIN ruling : ruling[p] \notin {"candidate", "skipped"}}
  IN  IF stops # {}
      THEN Rejected(IF Min(stops) \in candidates
                    THEN "multiple_candidate_transfers"
                    ELSE ruling[Min(stops)])
      ELSE IF candidates = {} THEN Rejected("no_exact_transfer")
      ELSE LET p == CHOOSE q \in candidates : TRUE
               n == s.instructions[p].amount
           IN  IF n > amount \/ n = 0 THEN Rejected("wrong_amount")
               ELSE IF n < amount THEN Short(n, p) ELSE Exact(n, p)

AssessSettlement(s, amount) ==
  IF ~s.succeeded THEN Rejected("transaction_failed")
  ELSE IF \/ Len(s.accounts) > MaxAccountKeys
          \/ Len(s.instructions) > MaxInstructions
  THEN Rejected("bounds_exceeded")
  ELSE Judge(s, amount)

\* assess_settlement_once with the answers of replay_state.
AssessOnce(s, signatureUsed, referenceUsed) ==
  IF signatureUsed THEN Rejected("duplicate_signature")
  ELSE IF referenceUsed THEN Rejected("reference_reused")
  ELSE AssessSettlement(s, Amount)

-----------------------------------------------------------------------------
Init ==
  /\ tx \in Transactions
  /\ response = None
  /\ snapshot = None
  /\ outcome = None

\* The RPC call.
Fetch ==
  /\ response = None
  /\ \E fault \in Faults : response' = Answer(tx, fault)
  /\ UNCHANGED <<tx, snapshot, outcome>>

\* Parsed, decoded, and compared with the entry of the signature list; a
\* failure ends the whole check and records nothing.
Decode ==
  /\ response # None
  /\ snapshot = None
  /\ outcome = None
  /\ IF Decodable(response) /\ response.agrees
     THEN /\ snapshot' = Snapshot(response)
          /\ UNCHANGED outcome
     ELSE /\ outcome' = Rejected("malformed_evidence")
          /\ UNCHANGED snapshot
  /\ UNCHANGED <<tx, response>>

Assess ==
  /\ snapshot # None
  /\ outcome = None
  /\ \E signatureUsed, referenceUsed \in BOOLEAN :
       outcome' = AssessOnce(snapshot, signatureUsed, referenceUsed)
  /\ UNCHANGED <<tx, response, snapshot>>

Next == Fetch \/ Decode \/ Assess

Spec == Init /\ [][Next]_vars

-----------------------------------------------------------------------------
(***************************************************************************)
(* Properties, in terms of the transaction and its keys alone.             *)
(***************************************************************************)
Transfers == {"transfer", "transfer_checked"}

Source(ix) == ix.accounts[1]

Destination(ix) == ix.accounts[IF ix.op = "transfer" THEN 2 ELSE 3]

Named(ix) ==
  {ix.accounts[i] : i \in (IF ix.op = "transfer" THEN 4 ELSE 5)..Len(ix.accounts)}

\* The transfers of the classic program that change a balance.
Movements(t) ==
  {p \in DOMAIN t.instructions :
     LET ix == t.instructions[p] IN
       /\ ix.program = ClassicToken
       /\ ix.op \in Transfers
       /\ Len(ix.accounts) >= 3
       /\ Source(ix) # Destination(ix)
       /\ ix.amount > 0}

\* Keys that can only be looked at.
Inert(t) == KeysIn(t.readonly \o t.loadedReadonly)

\* A wallet's payment of the request: one transfer of this amount, other
\* programs beside it, and nothing the verifier refuses by policy.
Pays(t, amount) ==
  /\ t.succeeded
  /\ Len(AllKeys(t)) <= MaxAccountKeys
  /\ Len(t.instructions) <= MaxInstructions
  /\ \A p \in DOMAIN t.instructions :
       /\ Len(t.instructions[p].accounts) <= MaxAccounts
       /\ t.instructions[p].size <= MaxData
       /\ t.instructions[p].program # Token2022
  /\ \E p \in DOMAIN t.instructions :
       LET ix == t.instructions[p] IN
         /\ ix.program = ClassicToken
         /\ ix.op \in Transfers
         /\ Len(ix.accounts) > Required(ix)
         /\ ix.amount = amount
         /\ Source(ix) # MerchantAta
         /\ Destination(ix) = MerchantAta
         /\ {Source(ix), MerchantAta} \subseteq {k \in DOMAIN t.mints : t.mints[k] = Mint}
         /\ ix.op = "transfer_checked" =>
              ix.decimals = Decimals /\ ix.accounts[2] = Mint
         /\ Reference \in Named(ix) \cap Inert(t)
         /\ \A q \in DOMAIN t.instructions \ {p} :
              t.instructions[q].program = ClassicToken
                => t.instructions[q].op = "other"

\* Nothing else is ever taken for a payment: when the verdict is exact or an
\* underpayment the transaction succeeded and moved classic tokens exactly
\* once, the received amount from another account to the merchant's, and the
\* reference is named by that transfer and has no say in the transaction;
\* whatever the node left out (assess_settlement).
AcceptedMeansPaid ==
  outcome # None /\ outcome.kind # "rejected" =>
    /\ tx.succeeded
    /\ Movements(tx) = {outcome.position}
    /\ LET ix == tx.instructions[outcome.position] IN
         /\ Destination(ix) = MerchantAta
         /\ ix.amount = outcome.received
         /\ Reference \in Named(ix) \cap Inert(tx)
    /\ outcome.received <= Amount
    /\ outcome.kind = "exact" <=> outcome.received = Amount

\* A customer who pays as asked is never sent to review: a payment that was
\* reported in full and is no replay is exact, whatever its account layout,
\* the order of its instructions and the other programs it calls.
PaymentsAreAccepted ==
  /\ outcome # None
  /\ response = Answer(tx, "none")
  /\ outcome.verdict \notin {"duplicate_signature", "reference_reused"}
  => (outcome.kind = "exact" <=> Pays(tx, Amount))

\* "An underpayment passes every exact settlement invariant except amount":
\* the verdict is an underpayment of n, with n below the amount due, when and
\* only when a request for n would have been paid exactly.
UnderpaymentsLackOnlyTheAmount ==
  snapshot # None /\ outcome # None
    /\ outcome.verdict \notin {"duplicate_signature", "reference_reused"} =>
    \A n \in 1..(Amount - 1) :
      AssessSettlement(snapshot, n).kind = "exact"
        <=> outcome.kind = "underpayment" /\ outcome.received = n

\* Every key has the role the chain gave it, for every header and table, or
\* there is no snapshot; and what the chain executed and the node reports in
\* full is never refused as malformed, which would end the whole pass.
DecodingIsFaithful ==
  /\ snapshot # None =>
       /\ [i \in DOMAIN snapshot.accounts |-> snapshot.accounts[i].key]
            = AllKeys(tx)
       /\ \A i \in DOMAIN snapshot.accounts :
            LET account == snapshot.accounts[i] IN
              /\ account.signer <=>
                   account.key \in KeysIn(tx.writableSigners \o tx.readonlySigners)
              /\ account.writable <=>
                   account.key \in KeysIn(tx.writableSigners \o tx.writable
                                            \o tx.loadedWritable)
  /\ response = Answer(tx, "none") =>
       outcome = None \/ outcome # Rejected("malformed_evidence")

=============================================================================
