---------------------------- MODULE MCSettlement ----------------------------
(***************************************************************************)
(* Transactions of up to three instructions, and of one too many: every    *)
(* single instruction in every layout, also when it failed or its mints    *)
(* are wrong; and, in two layouts, pairs and triples of the instructions   *)
(* that can interfere.                                                     *)
(***************************************************************************)
EXTENDS Settlement

MCKeys ==
  {"payer", "owner", "source", "ata", "other", "ref", "mint", "other_mint",
   "token", "token_2022", "memo", "more", "even_more"}

Layout(ws, rs, w, r, lw, lr) ==
  [version |-> IF lw \o lr = <<>> THEN "legacy" ELSE "v0",
   writableSigners |-> ws, readonlySigners |-> rs, writable |-> w,
   readonly |-> r, loadedWritable |-> lw, loadedReadonly |-> lr]

Programs == <<"mint", "other_mint", "token", "token_2022", "memo">>

\* The reference last, in each of the six sections, and in a long list.
Usual == Layout(<<"payer">>, <<>>, <<"source", "ata", "other">>,
                <<"ref">> \o Programs, <<>>, <<>>)

Tabled == Layout(<<"payer">>, <<"owner">>, <<"source">>, Programs,
                 <<"ata", "other">>, <<"ref">>)

Layouts ==
  {Usual, Tabled,
   Layout(<<"payer", "ref">>, <<>>, <<"source", "ata", "other">>, Programs, <<>>, <<>>),
   Layout(<<"payer">>, <<"ref">>, <<"source", "ata", "other">>, Programs, <<>>, <<>>),
   Layout(<<"payer">>, <<>>, <<"source", "ata", "other", "ref">>, Programs, <<>>, <<>>),
   Layout(<<"payer">>, <<>>, <<"source", "ata", "other">>, Programs, <<"ref">>, <<>>),
   Layout(<<"payer">>, <<>>, <<"source", "ata", "other">>,
          Programs \o <<"ref", "more", "even_more">>, <<>>, <<>>)}

Instruction(program, op, accounts, amount, decimals, size) ==
  [program |-> program, op |-> op, accounts |-> accounts, amount |-> amount,
   decimals |-> decimals, size |-> size]

Ends ==
  {<<"source", "ata">>, <<"ata", "other">>, <<"source", "other">>,
   <<"ata", "ata">>, <<"other", "ata">>}

Tails == {<<>>, <<"ref">>, <<"mint", "ref">>}

Plain(e, n, tail) ==
  Instruction("token", "transfer", e \o <<"payer">> \o tail, n, 0, 9)

Checked(e, mint, n, decimals, tail) ==
  Instruction("token", "transfer_checked",
              <<e[1], mint, e[2], "payer">> \o tail, n, decimals, 10)

Memo == Instruction("memo", "other", <<"ref">>, 0, 0, 9)

Odd ==
  {Memo, Instruction("memo", "other", <<>>, 0, 0, MaxData + 1),
   Instruction("token", "other", <<"source">>, 0, 0, 1),
   Instruction("token", "malformed", <<"source", "ata", "payer">>, 0, 0, 10),
   Instruction("token", "transfer", <<"source", "ata">>, Amount, 0, 9),
   Instruction("token_2022", "transfer", <<"source", "ata", "payer", "ref">>, Amount, 0, 9),
   Plain(<<"source", "ata">>, Amount, <<"ref", "ref", "ref", "ref">>)}

Singles ==
  {Plain(e, n, tail) : e \in Ends, n \in 0..(Amount + 1), tail \in Tails}
  \cup {Checked(e, mint, n, decimals, tail) :
          e \in Ends, mint \in {"mint", "other_mint"}, n \in 1..Amount,
          decimals \in {Decimals, Decimals + 1}, tail \in Tails}
  \cup Odd

Mixed ==
  Odd \cup {Plain(e, n, <<"ref">>) : e \in Ends, n \in 0..Amount}
      \cup {Plain(<<"source", "ata">>, Amount, <<>>),
            Checked(<<"source", "ata">>, "mint", Amount, Decimals, <<"ref">>)}

Mints(source, ata) == [k \in {"source", "ata"} |-> IF k = "ata" THEN ata ELSE source]

With(layout, instructions, mints, succeeded) ==
  [version |-> layout.version,
   writableSigners |-> layout.writableSigners,
   readonlySigners |-> layout.readonlySigners,
   writable |-> layout.writable,
   readonly |-> layout.readonly,
   loadedWritable |-> layout.loadedWritable,
   loadedReadonly |-> layout.loadedReadonly,
   instructions |-> instructions,
   mints |-> mints,
   succeeded |-> succeeded]

MCTransactions ==
  {With(layout, <<ix>>, mints, TRUE) :
     layout \in Layouts, ix \in Singles,
     mints \in {Mints("mint", "mint"), Mints("other_mint", "mint"), Mints("mint", "other_mint")}}
  \cup {With(layout, ixs, Mints("mint", "mint"), TRUE) :
          layout \in {Usual, Tabled}, ixs \in Mixed \X Mixed}
  \cup {With(Usual, ixs, Mints("mint", "mint"), TRUE) :
          ixs \in {Memo, Plain(<<"source", "ata">>, Amount, <<"ref">>),
                   Plain(<<"source", "ata">>, 1, <<"ref">>)} \X Mixed \X Mixed}
  \cup {With(Usual, <<ix>>, Mints("mint", "mint"), FALSE) : ix \in Singles}
  \cup {With(Usual, <<Memo, Memo, Memo, ix>>, Mints("mint", "mint"), TRUE) :
          ix \in Mixed}

=============================================================================
