----------------------------- MODULE MCValuation -----------------------------
(***************************************************************************)
(* One era of the calendar, 400 years, of days of two seconds.  Amounts    *)
(* have two places and quotes one, in integers of 11, 10 and 22 bits.      *)
(***************************************************************************)
EXTENDS Valuation

Fractions == {<<>>, <<0>>, <<5>>, <<0, 1>>, <<0, 5>>, <<5, 0>>, <<9, 9>>, <<0, 0, 1>>}

MCAmounts ==
  {Decimal(whole, TRUE, fraction) : whole \in {0, 1, 2, 9, 10, 11, 20, 21}, fraction \in Fractions}
  \cup {Decimal(whole, FALSE, <<>>) : whole \in {0, 1, 10, 21}}
  \cup {[Decimal(1, FALSE, <<>>) EXCEPT !.form = form] : form \in {"signed", "exponent"}}

Rows(days, bulletins, sales) ==
  [date : days, bulletin : bulletins, purchase : {Decimal(5, FALSE, <<>>)}, sale : sales]

Sales ==
  {Decimal(whole, TRUE, fraction) : whole \in {0, 1, 5, 10, 204}, fraction \in {<<>>, <<1>>, <<5>>, <<7>>}}
  \cup {Decimal(205, FALSE, <<>>), Decimal(5, TRUE, <<1, 1>>)}

OneSale == {Decimal(5, TRUE, <<1>>)}

Body(rows) == [failure |-> None, rows |-> rows]

MCAnswers ==
  {[failure |-> failure, rows |-> <<>>] :
     failure \in {"source_unavailable", "response_too_large", "response_invalid"}}
  \cup {Body(<<row>>) :
          row \in Rows({"same"}, {None}, Sales)
                  \cup Rows({"same", "next", "impossible"}, {None, "closing", "opening"}, OneSale)}
  \cup {Body(rows) : rows \in {<<>>} \cup Rows({"same", "next"}, {None}, OneSale) \X Rows({"same"}, {None}, OneSale)}

\* The epoch, the ends of February of 1970, 1972, 2000 and 2100, the end of
\* 2369 and the first day that has no operation date.
MCBusinessDays == {0, 58, 789, 11016, 47540, 146096, 146097}

=============================================================================
