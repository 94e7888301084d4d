----------------------------- MODULE MCMonobank -----------------------------
(* One user with two customers of the bank, each with one card.             *)
EXTENDS MonobankProperties

CONSTANTS c1, c2, black, white

TwoCustomers == {c1, c2}
OneCardEach == [c \in TwoCustomers |-> IF c = c1 THEN {black} ELSE {white}]
=============================================================================
