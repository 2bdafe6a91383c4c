--------------------------- MODULE PaperExecution ---------------------------
(***************************************************************************)
(* The decision-date loop of the paper-execution stage: the order planner  *)
(* (execution/planner.py), the execution engine (execution/engine.py) and  *)
(* the portfolio-state builder (execution/state.py), run one after the     *)
(* other by PaperExecutionStageAdapter.run, each book feeding the next     *)
(* date.                                                                   *)
(*                                                                         *)
(* Instruments are 1..N in the order the code sorts them.  Money is an     *)
(* integer number of fee-precision units (a fen when currency_precision is *)
(* 2), so a gross amount, a rounded fee and a cash balance are exact.  A   *)
(* loop over the instruments or over the ordered plan rows is an action    *)
(* per instrument, driven by cursor; every raise ends in phase "halted".   *)
(***************************************************************************)
EXTENDS Integers, FiniteSetsExt

CONSTANTS
  N,              \* number of instruments
  Lot,            \* board_lot = minimum_order_quantity = lot_size
  MinCommission,  \* fee_policy.minimum_commission
  BuyRate,        \* buy commission + transfer fee, in RateScale-ths
  SellRate,       \* sell commission + transfer fee + stamp tax
  RateScale,      \* the denominator of the two rates
  LimitTolerance, \* the allowance around a price limit
  Basis,          \* order_pricing_basis
  HoldingRule,    \* minimum_holding_rule
  CashPolicy,     \* insufficient_cash_policy
  InitialBooks,   \* the initial states a template may declare
  DecisionRows,   \* rows the decision session's panel may hold
  Quotes,         \* rows the execution session's panel may hold
  MaxTarget,      \* BOUND: largest target quantity enumerated
  MaxRounds       \* BOUND: number of decision dates

Instruments == 1..N
Quantities == [Instruments -> Nat]
Sides == {"none", "sell", "buy"}

Book == [qty : Quantities, locked : Quantities, cash : Nat]
DecisionRow == [present : BOOLEAN, close : Nat, open : Nat]
Quote == [status : {"absent", "halted", "excluded", "trading"},
          open : Nat, close : Nat, up : Nat, down : Nat,
          range : {"valid", "missing", "crossed"}]

ASSUME SizeAssumption == N \in Nat \ {0} /\ Lot \in Nat \ {0}
ASSUME FeeAssumption ==
  /\ MinCommission \in Nat /\ BuyRate \in Nat /\ SellRate \in Nat
  /\ RateScale \in Nat \ {0} /\ LimitTolerance \in Nat
ASSUME PolicyAssumption ==
  /\ Basis \in {"decision_close_estimate", "execution_open_replay"}
  /\ HoldingRule \in {"preserve_one_lot", "allow_zero"}
  /\ CashPolicy \in {"reject", "round_down_to_lot"}
ASSUME InputAssumption ==
  /\ InitialBooks \subseteq Book
  /\ \A b \in InitialBooks : \A i \in Instruments : b.locked[i] <= b.qty[i]
  /\ DecisionRows \subseteq DecisionRow /\ Quotes \subseteq Quote
  /\ MaxTarget \in Nat /\ MaxRounds \in Nat

VARIABLES
  phase,      \* which loop of the date is running
  cursor,     \* the instrument the loop has reached
  halt,       \* the ContractError that stopped the stage, or "none"
  round,      \* books published so far
  session,    \* state_date of the last book (0: the template's initial state)
  execDate,   \* execution_date of the date in hand
  qty,        \* quantity of each holding of the last book (0: not listed)
  locked,     \* buy_locked_quantity
  cash,       \* cash of the last book
  mark,       \* market_value / quantity, the carried price (0: none)
  order,      \* the plan row of each instrument
  budget,     \* the planner's available_cash
  quote,      \* the execution session's panel
  fill,       \* the execution event of each plan row
  purse,      \* the engine's available_cash
  heldAtOpen, \* history: shares held when the current session opened
  soldToday   \* history: shares sold during the current session

bookVars == <<round, session, qty, locked, cash, mark>>
historyVars == <<heldAtOpen, soldToday>>
vars == <<phase, cursor, halt, execDate, bookVars, order, budget, quote, fill,
          purse, historyVars>>

-----------------------------------------------------------------------------
(* Fees: the commission and taxes, at least the minimum, rounded half up.  *)

HalfUp(amount, rate) == (2 * amount * rate + RateScale) \div (2 * RateScale)

Fee(side, gross) ==
  LET rated == HalfUp(gross, IF side = "sell" THEN SellRate ELSE BuyRate)
  IN  IF rated > MinCommission THEN rated ELSE MinCommission

BuyCost(q, price) == IF q = 0 THEN 0 ELSE q * price + Fee("buy", q * price)
SellNet(q, price) == q * price - Fee("sell", q * price)

-----------------------------------------------------------------------------
(* The opening book.                                                       *)

Initial == session = 0
SameSession == ~Initial /\ session >= execDate
Held(i) == qty[i] > 0

\* Mutant: every lock lapses when a book is opened, same session or not.
OpenLockLapses(i) == 0
\* The lock that survives into the session being executed.
OpenLock(i) == IF SameSession THEN locked[i] ELSE 0

\* The planner honours the locks of an initial state; the engine and the
\* state builder only those of a same-session continuation.
PlannerSellable(i) == IF Initial THEN qty[i] - locked[i] ELSE qty[i] - OpenLock(i)
EngineSellable(i) == qty[i] - OpenLock(i)

-----------------------------------------------------------------------------
(* PaperOrderPlanner.plan                                                  *)

NoOrder == [side |-> "none", requested |-> 0, limit |-> 0, wanted |-> FALSE]
NoOrders == [i \in Instruments |-> NoOrder]

\* A held name with no panel row is sized at the carried price; only the
\* close is carried, the row it stands for has no open.
DecisionClose(panel, i) == IF panel[i].present THEN panel[i].close ELSE mark[i]
LimitPrice(panel, i) ==
  IF Basis = "decision_close_estimate" THEN DecisionClose(panel, i)
  ELSE IF panel[i].present THEN panel[i].open ELSE 0

Relevant(targeted) == targeted \cup {i \in Instruments : Held(i)}

MissingClose(panel, targeted) ==
  \E i \in Relevant(targeted) :
    IF panel[i].present THEN panel[i].close = 0
                        ELSE i \in targeted \/ mark[i] = 0

DecisionNav(panel) ==
  cash + MapThenSumSet(LAMBDA i : qty[i] * DecisionClose(panel, i), Instruments)

\* The target quantities floor(weight * nav / close) that weights summing to
\* at most one can produce; only a positive weight gives a positive target.
Attainable(panel, wanted, target) ==
  /\ \A i \in Instruments : target[i] > 0 => i \in wanted
  /\ MapThenSumSet(LAMBDA i : target[i] * DecisionClose(panel, i), wanted)
       <= DecisionNav(panel)

WholeLots(q) == (q \div Lot) * Lot
AtMost(q, bound) == IF q < bound THEN q ELSE bound

\* A sell that would leave less than a lot is resized to leave exactly one.
SellQuantity(i, target) ==
  LET asked == AtMost(WholeLots(qty[i] - target), PlannerSellable(i))
      remaining == qty[i] - asked
  IN  IF HoldingRule = "preserve_one_lot" /\ 0 < remaining /\ remaining < Lot
        THEN IF qty[i] > Lot THEN qty[i] - Lot ELSE 0
        ELSE asked

PlanRow(panel, wanted, target, i) ==
  LET row(side, q, limit) == [side |-> side, requested |-> q, limit |-> limit,
                              wanted |-> i \in wanted]
  IN  IF target = qty[i] THEN row("none", 0, 0)
      ELSE IF target < qty[i]
        THEN row("sell", SellQuantity(i, target), LimitPrice(panel, i))
      ELSE row("buy", WholeLots(target - qty[i]), LimitPrice(panel, i))

Halt(why) == phase' = "halted" /\ halt' = why

PlanFault(panel, targeted, rows) ==
  IF \E i \in Relevant(targeted) : LimitPrice(panel, i) = 0 THEN "missing_limit_price"
  ELSE IF \E i \in Relevant(targeted) :
            /\ rows[i].side = "sell" /\ rows[i].requested > 0
            /\ SellNet(rows[i].requested, rows[i].limit) < 0
    THEN "fees_exceed_proceeds"
  ELSE "none"

\* The adapter composes the date's config.  The execution date is the one of the
\* input state (a second rebalance of its session) or the following session.
\* The history restarts when a session opens; what the template's initial state
\* declares locked was bought in the session it opens, not held before it.
Configure(date) ==
  /\ phase = "ready" /\ round < MaxRounds
  /\ date \in IF Initial THEN {1} ELSE {session, session + 1}
  /\ phase' = "configured" /\ execDate' = date
  /\ IF date = session THEN UNCHANGED historyVars
     ELSE /\ heldAtOpen' = [i \in Instruments |->
                              IF Initial THEN qty[i] - locked[i] ELSE qty[i]]
          /\ soldToday' = [i \in Instruments |-> 0]
  /\ UNCHANGED <<cursor, halt, bookVars, order, budget, quote, fill, purse>>

\* The rows are sized independently of one another, in one pass.
Plan(panel, targeted, wanted) ==
  /\ phase = "configured"
  /\ wanted \subseteq targeted
  /\ IF MissingClose(panel, targeted)
       THEN Halt("missing_close") /\ UNCHANGED <<order, budget>>
       ELSE \E target \in [Instruments -> 0..MaxTarget] :
              /\ Attainable(panel, wanted, target)
              /\ LET rows == [i \in Instruments |-> PlanRow(panel, wanted, target[i], i)]
                     fault == PlanFault(panel, targeted, rows)
                 IN  IF fault # "none" THEN Halt(fault) /\ UNCHANGED <<order, budget>>
                     ELSE /\ order' = rows /\ budget' = cash
                          /\ phase' = "fundSells" /\ UNCHANGED halt
  /\ UNCHANGED <<cursor, execDate, bookVars, quote, fill, purse, historyVars>>

\* One turn of a loop over the instruments; the last one moves to the next loop.
Advance(next) ==
  /\ UNCHANGED halt
  /\ IF cursor < N THEN cursor' = cursor + 1 /\ UNCHANGED phase
                   ELSE cursor' = 1 /\ phase' = next

\* The planner's cash simulation: what every sell would bring in.
FundSell ==
  /\ phase = "fundSells"
  /\ LET row == order[cursor] IN
     budget' = IF row.side = "sell" /\ row.requested > 0
                 THEN budget + SellNet(row.requested, row.limit) ELSE budget
  /\ Advance("fundBuys")
  /\ UNCHANGED <<execDate, bookVars, order, quote, fill, purse, historyVars>>

\* Mutant: the buy is booked as planned, funded or not.
ReducedNever(row, q) == q = row.requested

\* The first quantity the lot-by-lot reduction of a buy of q reaches that is
\* affordable; at zero lots the loop stops unconditionally.
Reduced(row, q) ==
  /\ q % Lot = row.requested % Lot
  /\ q > 0 => BuyCost(q, row.limit) <= budget
  /\ \A more \in (q + 1)..row.requested :
       more % Lot = row.requested % Lot => BuyCost(more, row.limit) > budget

FundBuy ==
  /\ phase = "fundBuys"
  /\ LET row == order[cursor] IN
     IF row.side # "buy"
       THEN Advance("planned") /\ UNCHANGED <<order, budget>>
       ELSE \E q \in 0..row.requested :
              /\ Reduced(row, q)
              /\ IF q < row.requested /\ CashPolicy = "reject"
                   THEN Halt("insufficient_cash") /\ UNCHANGED <<cursor, order, budget>>
                   ELSE /\ order' = [order EXCEPT ![cursor].requested = q]
                        /\ budget' = budget - BuyCost(q, row.limit)
                        /\ Advance("planned")
  /\ UNCHANGED <<execDate, bookVars, quote, fill, purse, historyVars>>

-----------------------------------------------------------------------------
(* PaperExecutionEngine.execute                                            *)

NoFill == [reason |-> "none", filled |-> 0, price |-> 0, net |-> 0]
NoFills == [i \in Instruments |-> NoFill]
NoQuote == [status |-> "absent", open |-> 0, close |-> 0, up |-> 0, down |-> 0,
            range |-> "missing"]
NoQuotes == [i \in Instruments |-> NoQuote]

OrderedSell(i) == order[i].side = "sell"
OrderedBuy(i) == order[i].side = "buy"

\* The engine checks the plan against the holdings, then reads the market.
StartExecution(market) ==
  /\ phase = "planned"
  /\ quote' = market /\ purse' = cash
  /\ IF \E i \in Instruments : OrderedSell(i) /\ order[i].requested > EngineSellable(i)
       THEN Halt("sell_exceeds_sellable")
       ELSE phase' = "selling" /\ UNCHANGED halt
  /\ UNCHANGED <<cursor, execDate, bookVars, order, budget, fill, historyVars>>

ExecutionPrice(i) ==
  IF Basis = "execution_open_replay" THEN quote[i].open ELSE order[i].limit

\* The first market reason to reject the row, in the engine's order.
MarketReason(i) ==
  LET q == quote[i] p == ExecutionPrice(i) limit == order[i].limit
  IN  IF q.status # "trading" THEN "suspended"
      ELSE IF q.range = "missing" \/ 0 \in {p, q.up, q.down} THEN "no_market_data"
      ELSE IF q.down > q.up \/ q.range = "crossed" THEN "price"
      ELSE IF (OrderedBuy(i) /\ p > limit) \/ (OrderedSell(i) /\ p < limit) THEN "price"
      ELSE IF OrderedBuy(i) /\ p >= q.up + LimitTolerance THEN "limit_up"
      ELSE IF OrderedSell(i) /\ p <= q.down - LimitTolerance THEN "limit_down"
      ELSE IF order[i].requested = 0 THEN "quantity"
      ELSE "none"

\* Mutant: the engine trusts the plan's own cash simulation.
UnaffordableNever(i) == FALSE
Unaffordable(i) ==
  OrderedBuy(i) /\ BuyCost(order[i].requested, ExecutionPrice(i)) > purse

\* _evaluate_event.  A row rejected for cash (or for fees above its proceeds)
\* keeps the price it was evaluated at.
Event(i) ==
  LET reason == MarketReason(i)
      p == ExecutionPrice(i)
      q == order[i].requested
      rejected(why, price) ==
        [reason |-> why, filled |-> 0, price |-> price, net |-> 0]
  IN  IF reason # "none" THEN rejected(reason, 0)
      ELSE IF Unaffordable(i) THEN rejected("insufficient_cash", p)
      ELSE IF OrderedSell(i) /\ SellNet(q, p) < 0 THEN rejected("price", p)
      ELSE [reason |-> "none", filled |-> q, price |-> p,
            net |-> IF OrderedBuy(i) THEN -BuyCost(q, p) ELSE SellNet(q, p)]

\* One row of the sells-first loop; rows of the other side wait for their pass.
Execute(side, next) ==
  /\ IF order[cursor].side = side
       THEN /\ fill' = [fill EXCEPT ![cursor] = Event(cursor)]
            /\ purse' = purse + Event(cursor).net
       ELSE UNCHANGED <<fill, purse>>
  /\ Advance(next)
  /\ UNCHANGED <<execDate, bookVars, order, budget, quote, historyVars>>

ExecuteSell == phase = "selling" /\ Execute("sell", "buying")
ExecuteBuy == phase = "buying" /\ Execute("buy", "executed")

Sold(i) == IF OrderedSell(i) THEN fill[i].filled ELSE 0
Bought(i) == IF OrderedBuy(i) THEN fill[i].filled ELSE 0
ClosingQty(i) == qty[i] - Sold(i) + Bought(i)

\* Mutant: the locks already held are dropped.
ClosingLockBoughtOnly(i) == Bought(i)
ClosingLock(i) == OpenLock(i) + Bought(i)

\* Mutant: no carried price.
ClosingMarkNoCarry(i) == quote[i].close
\* The execution close, or the price the previous state recorded.
ClosingMark(i) == IF quote[i].close > 0 THEN quote[i].close ELSE mark[i]

\* The closing book, its valuation and the aggregate reconciliation.
Settle ==
  /\ phase = "executed"
  /\ IF \E i \in Instruments : ClosingQty(i) < 0 THEN Halt("oversold")
     ELSE IF purse < 0 THEN Halt("negative_cash")
     ELSE IF \E i \in Instruments : ClosingQty(i) > 0 /\ ClosingMark(i) = 0
       THEN Halt("missing_execution_close")
     ELSE IF \E i \in Instruments : order[i].wanted /\ order[i].side = "none" /\ ~Held(i)
       THEN Halt("missing_target")
     ELSE phase' = "settled" /\ UNCHANGED halt
  /\ UNCHANGED <<cursor, execDate, bookVars, order, budget, quote, fill, purse,
                 historyVars>>

-----------------------------------------------------------------------------
(* PaperPortfolioStateBuilder.build                                        *)

\* The builder replays the events over the input holdings with its own T+1
\* check, then publishes the book the next date continues from.
BuildState ==
  /\ phase = "settled"
  /\ IF \E i \in Instruments : Sold(i) > qty[i] - OpenLock(i)
       THEN /\ Halt("t1_locked")
            /\ UNCHANGED <<bookVars, order, budget, quote, fill, purse, soldToday>>
     ELSE IF \E i \in Instruments : ClosingLock(i) > ClosingQty(i)
       THEN /\ Halt("invalid_lock")
            /\ UNCHANGED <<bookVars, order, budget, quote, fill, purse, soldToday>>
     ELSE /\ phase' = "ready" /\ UNCHANGED halt
          /\ qty' = [i \in Instruments |-> ClosingQty(i)]
          /\ locked' = [i \in Instruments |-> ClosingLock(i)]
          /\ mark' = [i \in Instruments |->
                        IF ClosingQty(i) > 0 THEN ClosingMark(i) ELSE 0]
          /\ cash' = purse /\ session' = execDate /\ round' = round + 1
          /\ soldToday' = [i \in Instruments |-> soldToday[i] + Sold(i)]
          /\ order' = NoOrders /\ quote' = NoQuotes /\ fill' = NoFills
          /\ budget' = 0 /\ purse' = 0
  /\ UNCHANGED <<cursor, execDate, heldAtOpen>>

-----------------------------------------------------------------------------
Init ==
  /\ phase = "ready" /\ cursor = 1 /\ halt = "none"
  /\ round = 0 /\ session = 0 /\ execDate = 0
  /\ \E b \in InitialBooks :
       /\ qty = b.qty /\ locked = b.locked /\ cash = b.cash
       /\ heldAtOpen = b.qty
  /\ mark = [i \in Instruments |-> 0]
  /\ order = NoOrders /\ quote = NoQuotes /\ fill = NoFills
  /\ budget = 0 /\ purse = 0
  /\ soldToday = [i \in Instruments |-> 0]

\* The stage ends after its last decision date or with the error it raised.
Ended == phase = "halted" \/ (phase = "ready" /\ round = MaxRounds)
Done == Ended /\ UNCHANGED vars

ConfigureDate == \E date \in 1..(session + 1) : Configure(date)
PlanDate == \E panel \in [Instruments -> DecisionRows],
               targeted, wanted \in SUBSET Instruments : Plan(panel, targeted, wanted)
ExecuteDate == \E market \in [Instruments -> Quotes] : StartExecution(market)

Step == \/ ConfigureDate \/ PlanDate \/ FundSell \/ FundBuy
        \/ ExecuteDate \/ ExecuteSell \/ ExecuteBuy \/ Settle \/ BuildState
Next == Step \/ Done

Spec == Init /\ [][Next]_vars

-----------------------------------------------------------------------------
(* Properties                                                              *)

Halts == {"none", "missing_close", "missing_limit_price", "fees_exceed_proceeds",
          "insufficient_cash", "sell_exceeds_sellable", "oversold", "negative_cash",
          "missing_execution_close", "missing_target", "t1_locked", "invalid_lock"}
Reasons == {"none", "suspended", "no_market_data", "price", "limit_up",
            "limit_down", "quantity", "insufficient_cash"}
Phases == {"ready", "configured", "fundSells", "fundBuys", "planned", "selling",
           "buying", "executed", "settled", "halted"}

\* Every variable holds a value the code can produce.
TypeOK ==
  /\ phase \in Phases /\ cursor \in Instruments /\ halt \in Halts
  /\ round \in Nat /\ session \in Nat /\ execDate \in Nat
  /\ qty \in Quantities /\ locked \in Quantities /\ cash \in Nat
  /\ mark \in Quantities
  /\ order \in [Instruments ->
       [side : Sides, requested : Nat, limit : Nat, wanted : BOOLEAN]]
  /\ budget \in Nat
  /\ quote \in [Instruments -> Quote]
  /\ fill \in [Instruments -> [reason : Reasons, filled : Nat, price : Nat, net : Int]]
  /\ purse \in Nat
  /\ heldAtOpen \in Quantities /\ soldToday \in Quantities

\* The planner, the engine and the builder each recompute what may be sold and
\* what cash is left, over different inputs; on a plan the planner itself made
\* none of their defensive checks ever fires (engine.py:92,238,552;
\* state.py:556,558,617).
StagesAgree ==
  halt \notin {"sell_exceeds_sellable", "oversold", "negative_cash", "t1_locked",
               "invalid_lock"}

\* T+1 over a whole session, however many times it is rebalanced: all that is
\* sold was held when the session opened (buy_locked_quantity is not sellable
\* that session).
SoldWithinHeldAtOpen ==
  \A i \in Instruments : soldToday[i] <= heldAtOpen[i]

\* The planner funds buys from the proceeds it expects of the sells, the engine
\* from those it got.  When every planned sell was filled, no buy lacks cash:
\* fees, rounding and the order of the rows are the same in both simulations.
FundedBuysFill ==
  phase = "executed" /\ (\A i \in Instruments :
      OrderedSell(i) /\ order[i].requested > 0 => fill[i].reason = "none")
    => \A i \in Instruments : fill[i].reason # "insufficient_cash"

\* A suspended name must not abort the stage: once a book is published, only a
\* name bought that very session can be left without a closing price.
CarryKeepsStageAlive ==
  halt = "missing_execution_close" /\ ~Initial =>
    \E i \in Instruments : ~Held(i) /\ Bought(i) > 0 /\ quote[i].close = 0

\* The strengthening that makes the properties above inductive: the book is
\* sound, a plan row is only ever sized within what its holding may sell, an event
\* fills at most its row, and each row is evaluated once, against the purse the
\* rows before it left.
BookSound == \A i \in Instruments : locked[i] <= qty[i]
RowsSound ==
  \A i \in Instruments :
    /\ OrderedSell(i) =>
         /\ order[i].requested <= EngineSellable(i)
         /\ order[i].requested > 0 => SellNet(order[i].requested, order[i].limit) >= 0
    /\ fill[i].filled <= order[i].requested
RowsFresh ==
  /\ phase \in {"ready", "configured"} => order = NoOrders
  /\ phase \in {"ready", "configured", "fundSells", "fundBuys", "planned"} =>
       fill = NoFills
  /\ phase = "selling" =>
       \A i \in Instruments : i >= cursor \/ ~OrderedSell(i) => fill[i] = NoFill
  /\ phase = "buying" =>
       \A i \in Instruments : i >= cursor /\ OrderedBuy(i) => fill[i] = NoFill
PurseExplained ==
  phase \in {"selling", "buying", "executed", "settled"} =>
    /\ purse < cash => \E i \in Instruments : Bought(i) > 0
    /\ purse > cash => \E i \in Instruments : Sold(i) > 0
DateSound ==
  /\ phase # "ready" => execDate \in {session, session + 1} /\ execDate > 0
  /\ phase # "halted" => halt = "none"
IInv == TypeOK /\ StagesAgree /\ BookSound /\ RowsSound /\ RowsFresh
        /\ PurseExplained /\ DateSound

\* The published books obey the ledger's rules.
Ledger == INSTANCE PaperLedger
LedgerSpec == Ledger!Spec
=============================================================================
