------------------------------- MODULE MCRates -------------------------------
(* Two rates that differ in the buying rate only.                            *)
EXTENDS RatesProperties

TwoRates == {[mid |-> 1, buy |-> 1], [mid |-> 1, buy |-> 2]}
=============================================================================
