----------------------------- MODULE BacktestBook -----------------------------
(***************************************************************************)
(* What the two generations of the backtest engine share: the calendar,    *)
(* the market the panel shows one session at a time, the book of shares    *)
(* and cash, and the orders of one session.  Money is counted in cents,    *)
(* rates in percent; a price, a volume and a quantity are naturals.        *)
(***************************************************************************)
EXTENDS Integers, FiniteSets, Functions

CONSTANTS Instruments,   \* the instruments, naturals: the engines work in name order
          Sessions,      \* the trading calendar 1 .. Sessions
          Quotes,        \* what the panel of a session may show of an instrument
          Weights,       \* the target weights (percent) a decision may publish
          GateAnswers,   \* the shares the pre-trade risk gate may allow, 0 when it blocks
          Capital,       \* initial_capital
          NoTargets,     \* no decision is executed in this session
          None,          \* a price that is not known
          BuyLot, SellLot, MinBuy,   \* the lot rules of each instrument
          Configs,       \* the cost models and risk constraints a run may have
          NoCap          \* a constraint the config leaves out

ASSUME MarketAssumption ==
  /\ Instruments \subseteq Nat /\ IsFiniteSet(Instruments)
  /\ Sessions \in Nat \ {0, 1} /\ Capital \in Nat \ {0}
  /\ \A d \in 1..Sessions, i \in Instruments :
       Quotes[d][i] \subseteq [open: Nat, close: Nat, volume: Nat, suspended: BOOLEAN,
                              down: Nat, up: Nat]
  /\ \A w \in Weights : w \in [Instruments -> 0..100] /\ SumFunction(w) <= 100
  /\ GateAnswers \subseteq Nat
  /\ None \notin Int

\* A bar with an open has a close: both engines refuse a held name without one.
BarAssumption ==
  \A d \in 1..Sessions, i \in Instruments : \A q \in Quotes[d][i] : q.open > 0 => q.close > 0

\* The lot rules of the execution facts and the bounds of the config schemas.
LotAssumption ==
  /\ BuyLot \in [Instruments -> Nat \ {0}] /\ SellLot \in [Instruments -> Nat \ {0}]
  /\ MinBuy \in [Instruments -> Nat]
ConfigAssumption ==
  Configs \subseteq [participation: Nat, slippage: Nat, impact: Nat, maxImpact: Nat,
                    minCommission: Nat, commission: Nat, stamp: Nat, limit: Nat,
                    single: Nat, industry: Nat \cup {NoCap}, reserve: 0..100,
                    turnover: Nat \cup {NoCap}, stop: Nat \cup {NoCap}, terminal: BOOLEAN]
ASSUME BookAssumption == BarAssumption /\ LotAssumption /\ ConfigAssumption

VARIABLES config,
          day,        \* the session being replayed, 0 before the first
          phase,      \* "close" between sessions, "orders", "done" or "failed"
          quote,      \* the panel row of each instrument in this session
          volume,     \* the volume of the decision session
          lastClose,  \* the last close each instrument printed
          shares,     \* holdings
          cash,
          desired,    \* the share counts the orders of this session aim at
          pending,    \* the instruments whose order has not been tried yet
          arrived,    \* history: the shares that entered the book in this session
          reference   \* prev_close_prices: the close the next limit test compares with

market == <<day, quote, volume, lastClose>>
book == <<shares, cash>>

Calendar == 1..Sessions
Row(i) == quote[i].open > 0                \* the panel carries the name
Nothing == [i \in Instruments |-> 0]
NoRow == [open |-> 0, close |-> 0, volume |-> 0, suspended |-> TRUE, down |-> 0, up |-> 0]
Pct(amount, rate) == (amount * rate) \div 100
FloorLot(n, lot) == (n \div lot) * lot
Least(a, b) == IF a < b THEN a ELSE b
Most(a, b) == IF a > b THEN a ELSE b

\* The order that is tried next: sells before buys, each group in name order.
Selling(i) == desired[i] < shares[i]
Turn(i) ==
  /\ i \in pending
  /\ \A j \in pending \ {i} : IF Selling(i) = Selling(j) THEN i < j ELSE Selling(i)

Panel(d) == {q \in [Instruments -> UNION {Quotes[d][i] : i \in Instruments}] :
               \A i \in Instruments : q[i] \in Quotes[d][i]}
NoPanel == [i \in Instruments |-> NoRow]
PanelAfter(d) == IF d < Sessions THEN Panel(d + 1) ELSE {NoPanel}

\* The closes known once a panel has been seen.
Seen(q, known) == [i \in Instruments |-> IF q[i].open > 0 THEN q[i].close ELSE known[i]]

BookInit ==
  /\ config \in Configs
  /\ day = 0 /\ phase = "close"
  /\ quote = NoPanel
  /\ volume = Nothing /\ lastClose = [i \in Instruments |-> None]
  /\ shares = Nothing /\ cash = Capital
  /\ desired = Nothing /\ pending = {} /\ arrived = Nothing
  /\ reference = [i \in Instruments |-> None]
=============================================================================
