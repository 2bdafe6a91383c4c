------------------------------ MODULE MCBacktest ------------------------------
(* Four sessions, two instruments.  The first carries every dividend and   *)
(* every kind of quote, the second is traded next to it and competes for   *)
(* cash, caps and turnover.                                                *)
EXTENDS Backtest

MCInstruments == {1, 2}
MCSessions == 4

Plain(price, vol) == [open |-> price, close |-> price, volume |-> vol, suspended |-> FALSE,
                      down |-> price - 20, up |-> price + 20]
Moving(open, close) == [Plain(open, 12) EXCEPT !.close = close]
AtTop == [Plain(110, 12) EXCEPT !.up = 110]
AtBottom == [Plain(80, 12) EXCEPT !.down = 80]
Unlimited == [Plain(120, 12) EXCEPT !.up = 0, !.down = 0]
Lost == [NoRow EXCEPT !.suspended = FALSE]

MCQuotes ==
  << <<{Plain(100, 12)}, {Plain(100, 12)}>>,
     <<{Plain(100, 12), AtTop}, {Plain(100, 12)}>>,
     <<{Plain(80, 12), Moving(100, 60), NoRow}, {Plain(100, 4), Unlimited}>>,
     <<{Plain(80, 12), AtBottom, NoRow, Lost}, {Plain(100, 12)}>> >>

MCWeights == {<<60, 30>>, <<10, 70>>}
MCGate == {0, 3, 100}
MCLots == [i \in MCInstruments |-> 2]
MCSellLot == [i \in MCInstruments |-> 2]
MCMinBuy == <<2, 4>>
MCIndustry == <<"bank", "bank">>

Free == [participation |-> 50, slippage |-> 1, impact |-> 20, maxImpact |-> 5,
         minCommission |-> 5, commission |-> 1, stamp |-> 1, limit |-> 10,
         single |-> 100, industry |-> NoCap, reserve |-> 0, turnover |-> NoCap,
         stop |-> NoCap, terminal |-> FALSE]
Capped == [Free EXCEPT !.single = 45, !.industry = 70, !.reserve = 20]
Stopped == [Free EXCEPT !.stop = 10, !.turnover = 35, !.terminal = TRUE]
MCConfigs == {Free, Capped, Stopped}

Dividend(i, record, ex, pay, list, money, stock) ==
  [instrument |-> i, record |-> record, ex |-> ex, pay |-> pay, list |-> list,
   cash |-> money, stock |-> stock]
MCEvents ==
  { <<>>,
    <<Dividend(1, 2, 3, 6, 6, 10, 1)>>,
    <<Dividend(1, 2, 3, 7, 8, 10, 1)>>,
    <<Dividend(1, 2, 4, 9, 8, 10, 1)>>,
    <<Dividend(1, 2, 3, 6, 6, 10, 1), Dividend(1, 3, 4, 8, 8, 0, 1)>>,
    <<Dividend(1, 3, 3, 6, 6, 10, 0)>>,
    <<Dividend(1, 2, 3, 8, 6, 0, 1), Dividend(2, 3, 4, 8, 8, 5, 1)>> }
MCVersions == {2, 4}
=============================================================================
