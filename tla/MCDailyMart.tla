----------------------------- MODULE MCDailyMart -----------------------------
(* Two symbols, sessions 1 to 3; day 5 is in the future, symbol 9 unknown. *)
EXTENDS DailyMart

Tick(symbol, session, tick, price, volume) ==
    [symbol |-> symbol, session |-> session, tick |-> tick, price |-> price,
     volume |-> volume]

\* Symbol 2 has no session 2 and no volume on session 3.
Regular == {Tick(1, 1, 1, 10, 5), Tick(1, 2, 1, 13, 2), Tick(1, 2, 2, 11, 4),
            Tick(1, 3, 1, 12, 6), Tick(2, 1, 1, 20, 3), Tick(2, 3, 1, 21, 0)}
\* Rows the staging view turns down, among others of the same symbols.
Irregular == {Tick(1, 1, 1, 0, 5), Tick(1, 2, 1, 14, 5), Tick(1, 3, 1, 15, 5),
              Tick(2, 2, 1, 22, -1), Tick(2, 3, 1, 23, 7), Tick(1, 5, 1, 16, 5),
              Tick(9, 2, 1, 90, 5)}

MCDates == {2, 3}
MCStagings == {Regular, Irregular, {}}
MCDimSymbol == {1, 2}
MCDimSession == 1 .. 5
=============================================================================
