---------------------------- MODULE MCConversion ----------------------------
(* A pair with and without a direct rate, two pivots, three chains.          *)
EXTENDS ConversionProperties

CONSTANTS mono, nbu, none, usd, eur, uah, gbp

Entry(fallback, bases) == [fallback |-> fallback, bases |-> bases]

\* As migrated, with another base; a cycle, which outgrows every cap; an unknown source.
Chains ==
    { (mono :> Entry(nbu, <<uah>>)) @@ (nbu :> Entry(none, <<uah, gbp>>)),
      (mono :> Entry(nbu, <<uah>>)) @@ (nbu :> Entry(mono, <<gbp>>)),
      nbu :> Entry(none, <<uah>>) }

Rate(id, source, of, in, buy, mid, sell, from) ==
    [id |-> id, source |-> source, of |-> of, in |-> in,
     buy |-> buy, mid |-> mid, sell |-> sell, from |-> from]

SmallMenu ==
    { Rate(1, mono, usd, eur, 3, 4, 6, 1),
      Rate(2, mono, usd, eur, 4, 5, 7, 4),
      Rate(3, nbu, eur, usd, Null, 2, Null, 2),
      Rate(4, mono, usd, uah, Null, 8, 11, 3),
      Rate(5, mono, eur, uah, Null, 9, 11, 2),
      Rate(6, nbu, usd, gbp, Null, 4, Null, 4),
      Rate(7, nbu, gbp, eur, Null, 6, Null, 3) }

Try(to, at) == [entry |-> mono, of |-> usd, in |-> to, at |-> at, amount |-> 10]

Tries == {Try(eur, 3), Try(eur, 4), Try(usd, 3)}
=============================================================================
