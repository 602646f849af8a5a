------------------------------- MODULE MCBooks -------------------------------
(***************************************************************************)
(* Prices in units of 2880, of which commissions are a sixtieth: every     *)
(* average and every share of a commission the runs reach is exact.        *)
(***************************************************************************)
EXTENDS Books, TLC

CONSTANTS sber, gazp

Unit == 2880
Prices == {Unit, 4 * Unit}
Targets == -2..2
Lots == [t \in Ticker |-> 1]
OneSector == {[names |-> {sber, gazp}, cap |-> 9 * Unit]}
GrossCap == 10 * Unit
DirectionCap == 8 * Unit
Limit == 6 * Unit

Tickers == Permutations(Ticker)
=============================================================================
