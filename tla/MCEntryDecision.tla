-------------------------- MODULE MCEntryDecision ---------------------------
(***************************************************************************)
(* EntryDecision for TLC: two setups of one symbol and a ticket of another,*)
(* and a plain breakout, one that was missed and its retest.               *)
(* Prices in half cents: a resistance of ten dollars.                      *)
(***************************************************************************)
EXTENDS EntryDecision

MCListed == <<"s1", "s2">>
MCSymbolOf == [a \in {"s1", "s2", "k"} |-> IF a = "k" THEN "y" ELSE "x"]

\* Fifteen dollars of risk, 250 of a position; a limit between two ticks.
MCConfigOf ==
    [s \in {"s1", "s2"} |->
        [resistance |-> 2000, limit |-> IF s = "s2" THEN 2009 ELSE None,
         maxRisk |-> 3000, maxPosition |-> 50000]]
MCTicketOf == [k \in {"k"} |-> [limit |-> 2010, stop |-> 1900, quantity |-> 20]]

Plain ==
    [bid |-> 2000, ask |-> 2002, atr15 |-> 60, atr1h |-> 100, low |-> 1998, close |-> 2004,
     wick |-> FALSE, ratio |-> 160, ratio2 |-> None, bars |-> 1, higherLow |-> FALSE,
     broken |-> FALSE, supports |-> {1900}]
MCMarkets ==
    {Plain,
     [Plain EXCEPT !.bid = 2100, !.ask = 2102],                   \* missed
     [Plain EXCEPT !.ratio = 110, !.broken = TRUE, !.higherLow = TRUE,
                   !.supports = {1700}]}                          \* a retest, a wide stop

=============================================================================
