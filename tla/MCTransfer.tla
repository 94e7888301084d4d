----------------------------- MODULE MCTransfer -----------------------------
(* Small instances of transfer detection for TLC.                           *)
EXTENDS TransferProperties

CONSTANTS fop, black, white

Text(prefix, known, multiHop, names) ==
    [prefix |-> prefix, known |-> known, multiHop |-> multiHop, names |-> names]

Name       == Text("other", FALSE, FALSE, {})
Phrase     == Text("other", TRUE, FALSE, Accounts)
ToBlack    == Text("to", TRUE, FALSE, {black})
ToFopOn    == Text("to", TRUE, TRUE, {fop})
ToUnknown  == Text("to", FALSE, FALSE, {})
FromFop    == Text("from", TRUE, FALSE, {fop})

Leg(direction, account, iban, text, amount, op, time) ==
    [transfer |-> TRUE, source |-> "monobank", direction |-> direction,
     account |-> account, cpIban |-> iban, description |-> text,
     amount |-> amount, opAmount |-> op, time |-> time]

Expenses == {
    Leg("expense", fop, black, ToBlack, 1, 1, 0),
    Leg("expense", fop, white, ToFopOn, 1, 1, 2),
    Leg("expense", fop, NoIban, Name, 2, 1, 0),
    Leg("expense", fop, Stranger, ToUnknown, 1, 1, 0)}

Incomes == {
    Leg("income", black, fop, FromFop, 1, 1, 0),
    Leg("income", black, NoIban, Name, 1, 1, 2)}

Shopping == [Leg("expense", black, NoIban, Name, 1, 1, 0) EXCEPT !.transfer = FALSE]

ByHand ==
    [Leg("income", white, NoIban, Name, 1, 1, 0) EXCEPT !.source = "manual"]

\* One expense, one income, and a third leg that competes with either or with none.
ThreeLegs ==
    {<<e, i, x>> : e \in Expenses, i \in Incomes,
                   x \in {Leg("expense", white, NoIban, Phrase, 1, 1, 2),
                          Leg("income", white, NoIban, Name, 1, 1, 0), Shopping}}

\* A leg that the bank reports and one that the user has entered.
HalfByHand ==
    {<<Leg("expense", fop, NoIban, Name, 2, 1, 0), i, ByHand>> : i \in Incomes}

\* A pair and a rival of either leg.
PairAndRival ==
    {<<Leg("expense", fop, black, ToBlack, 1, 1, 0),
       Leg("income", black, NoIban, FromFop, 1, 1, 2), x>> :
        x \in {Leg("expense", white, NoIban, Phrase, 1, 1, 2),
               Leg("income", black, NoIban, FromFop, 1, 1, 0)}}

\* Beside which the table is reprocessed.
TwoExpenses == {s \in PairAndRival : s[3].direction = "expense"}

AllStatements == ThreeLegs \cup HalfByHand \cup PairAndRival
=============================================================================
