----------------------------- MODULE PaperProofs -----------------------------
(***************************************************************************)
(* Proofs about the paper stage.                                           *)
(*                                                                         *)
(* PaperExecution, for every number of instruments, fee schedule, policy   *)
(* and panel: IInv is inductive, and from it the planner, the engine and   *)
(* the builder agree, T+1 holds over a whole session, what is held is      *)
(* carried through a suspension, the buys the planner funded are paid for  *)
(* when its sells were filled, and the published books implement           *)
(* PaperLedger.                                                            *)
(*                                                                         *)
(* PaperPublication, for any number of runners, dates, sets of risk        *)
(* documents and attempts: the inductive invariant PublicationSound, the   *)
(* safety properties that are its conjuncts, and that the stores implement *)
(* PaperChain.  The argument: what is on disk only grows (Grows), so what  *)
(* a runner knows of it stays true while others move (OthersCourse), and   *)
(* only the step that installs an artifact has to re-establish the         *)
(* invariants of the chain (InstallSound).                                 *)
(***************************************************************************)
EXTENDS PaperExecution, PaperPublication, TLAPS

-----------------------------------------------------------------------------
(* Arithmetic of the fees and of the lots.                                 *)

\* A rounded fee is a non-negative integer: the minimum commission is a floor.
LEMMA FeeType ==
  ASSUME NEW side, NEW gross \in Nat
  PROVE  Fee(side, gross) \in Nat
<1> DEFINE rate == IF side = "sell" THEN SellRate ELSE BuyRate
           rated == HalfUp(gross, rate)
<1>1. rate \in Nat
  BY FeeAssumption
<1>2. 2 * gross * rate \in Int /\ 2 * RateScale \in Nat /\ 2 * RateScale > 0
  BY <1>1, FeeAssumption
<1>3. rated \in Int
  BY <1>2, FeeAssumption DEF HalfUp
<1>4. Fee(side, gross) = IF rated > MinCommission THEN rated ELSE MinCommission
  BY DEF Fee
<1> QED
  BY <1>3, <1>4, FeeAssumption

\* What a buy costs is a non-negative integer.
LEMMA BuyCostType ==
  ASSUME NEW q \in Nat, NEW price \in Nat
  PROVE  BuyCost(q, price) \in Nat
<1>1. q * price \in Nat
  OBVIOUS
<1> QED
  BY <1>1, FeeType DEF BuyCost

\* What a sell brings in is an integer (negative when the fees exceed it).
LEMMA SellNetType ==
  ASSUME NEW q \in Nat, NEW price \in Nat
  PROVE  SellNet(q, price) \in Int
<1>1. q * price \in Nat
  OBVIOUS
<1> QED
  BY <1>1, FeeType DEF SellNet

\* Rounding a quantity down to whole lots keeps it a quantity.
LEMMA WholeLotsType ==
  ASSUME NEW q \in Nat
  PROVE  WholeLots(q) \in Nat
<1>1. q \div Lot \in Nat
  BY SizeAssumption
<1> QED
  BY <1>1, SizeAssumption DEF WholeLots

\* The planner never lets more go than the engine and the builder allow.
LEMMA SellableOrder ==
  ASSUME TypeOK, BookSound, NEW i \in Instruments
  PROVE  /\ OpenLock(i) \in Nat /\ OpenLock(i) <= locked[i]
         /\ PlannerSellable(i) \in Nat
         /\ PlannerSellable(i) <= EngineSellable(i)
         /\ EngineSellable(i) <= qty[i]
<1>1. qty[i] \in Nat /\ locked[i] \in Nat /\ locked[i] <= qty[i]
  BY DEF TypeOK, Quantities, BookSound
<1>2. OpenLock(i) \in {0, locked[i]}
  BY DEF OpenLock
<1>3. Initial => OpenLock(i) = 0
  BY DEF Initial, OpenLock, SameSession
<1> QED
  BY <1>1, <1>2, <1>3 DEF PlannerSellable, EngineSellable

\* A sell is sized within the sellable quantity, the fragment rule included.
LEMMA SellQuantityBound ==
  ASSUME TypeOK, BookSound, NEW i \in Instruments,
         NEW target \in Nat, target < qty[i]
  PROVE  /\ SellQuantity(i, target) \in Nat
         /\ SellQuantity(i, target) <= EngineSellable(i)
<1> DEFINE asked == AtMost(WholeLots(qty[i] - target), PlannerSellable(i))
<1>1. qty[i] \in Nat
  BY DEF TypeOK, Quantities
<1>2. PlannerSellable(i) \in Nat /\ PlannerSellable(i) <= EngineSellable(i)
      /\ EngineSellable(i) \in Int
  BY <1>1, SellableOrder DEF EngineSellable
<1>3. WholeLots(qty[i] - target) \in Nat
  BY <1>1, WholeLotsType
<1>4. asked \in Nat /\ asked <= PlannerSellable(i)
  BY <1>2, <1>3 DEF AtMost
<1>5. SellQuantity(i, target) =
        IF HoldingRule = "preserve_one_lot" /\ 0 < qty[i] - asked /\ qty[i] - asked < Lot
          THEN IF qty[i] > Lot THEN qty[i] - Lot ELSE 0
          ELSE asked
  BY DEF SellQuantity
<1> HIDE DEF asked
<1> QED
  BY <1>1, <1>2, <1>4, <1>5, SizeAssumption

-----------------------------------------------------------------------------
(* The records the planner and the engine produce.                         *)

OrderRow == [side : Sides, requested : Nat, limit : Nat, wanted : BOOLEAN]
FillRow == [reason : Reasons, filled : Nat, price : Nat, net : Int]

\* The initial records have the types of a row, an event and a quote.
LEMMA EmptyRecords ==
  /\ NoOrder \in OrderRow /\ NoFill \in FillRow /\ NoQuote \in Quote
  /\ NoOrders \in [Instruments -> OrderRow]
  /\ NoFills \in [Instruments -> FillRow]
  /\ NoQuotes \in [Instruments -> Quote]
BY DEF NoOrder, NoFill, NoQuote, NoOrders, NoFills, NoQuotes, OrderRow, FillRow,
       Quote, Sides, Reasons

\* A planned row is well formed, and a sell row stays within what may be sold.
LEMMA PlanRowSound ==
  ASSUME TypeOK, BookSound, NEW i \in Instruments, NEW target \in Nat,
         NEW panel \in [Instruments -> DecisionRow], NEW wanted
  PROVE  LET row == PlanRow(panel, wanted, target, i)
         IN  /\ row \in OrderRow
             /\ row.side = "sell" => qty[i] > 0 /\ row.requested <= EngineSellable(i)
<1> DEFINE limit == LimitPrice(panel, i)
<1>1. qty[i] \in Nat /\ mark[i] \in Nat
  BY DEF TypeOK, Quantities
<1>2. limit \in Nat
  BY <1>1 DEF LimitPrice, DecisionClose, DecisionRow
<1> HIDE DEF limit
<1>3. CASE target = qty[i]
  <2>1. PlanRow(panel, wanted, target, i) =
          [side |-> "none", requested |-> 0, limit |-> 0, wanted |-> i \in wanted]
    BY <1>1, <1>3 DEF PlanRow
  <2> QED
    BY <2>1 DEF OrderRow, Sides
<1>4. CASE target < qty[i]
  <2>1. PlanRow(panel, wanted, target, i) =
          [side |-> "sell", requested |-> SellQuantity(i, target),
           limit |-> limit, wanted |-> i \in wanted]
    BY <1>1, <1>4 DEF PlanRow, limit
  <2>2. SellQuantity(i, target) \in Nat /\ SellQuantity(i, target) <= EngineSellable(i)
    BY <1>4, SellQuantityBound
  <2> QED
    BY <1>1, <1>2, <1>4, <2>1, <2>2 DEF OrderRow, Sides
<1>5. CASE target > qty[i]
  <2>1. PlanRow(panel, wanted, target, i) =
          [side |-> "buy", requested |-> WholeLots(target - qty[i]),
           limit |-> limit, wanted |-> i \in wanted]
    BY <1>1, <1>5 DEF PlanRow, limit
  <2>2. WholeLots(target - qty[i]) \in Nat
    BY <1>1, <1>5, WholeLotsType
  <2> QED
    BY <1>2, <2>1, <2>2 DEF OrderRow, Sides
<1> QED
  BY <1>1, <1>3, <1>4, <1>5

\* An event fills at most its row, never overdraws the purse, and moves the purse
\* down only by a filled buy and up only by a filled sell.
LEMMA EventSound ==
  ASSUME TypeOK, NEW i \in Instruments, OrderedBuy(i) \/ OrderedSell(i)
  PROVE  /\ Event(i) \in FillRow
         /\ Event(i).filled <= order[i].requested
         /\ purse + Event(i).net \in Nat
         /\ Event(i).net < 0 => OrderedBuy(i) /\ Event(i).filled > 0
         /\ Event(i).net > 0 => OrderedSell(i) /\ Event(i).filled > 0
         /\ OrderedBuy(i) => Event(i).net <= 0
         /\ OrderedSell(i) => Event(i).net >= 0
<1> DEFINE q == order[i].requested
           p == ExecutionPrice(i)
           reason == MarketReason(i)
<1>1. /\ order[i] \in OrderRow /\ quote[i] \in Quote /\ purse \in Nat
  BY DEF TypeOK, OrderRow
<1>2. q \in Nat /\ p \in Nat
  BY <1>1 DEF ExecutionPrice, OrderRow, Quote
<1>3. reason \in Reasons /\ (reason = "none" => q # 0)
  BY DEF MarketReason, Reasons
<1>4. BuyCost(q, p) \in Nat /\ SellNet(q, p) \in Int
  BY <1>2, BuyCostType, SellNetType
<1>5. ~(OrderedBuy(i) /\ OrderedSell(i))
  BY DEF OrderedBuy, OrderedSell
<1>6. Event(i) =
        IF reason # "none"
          THEN [reason |-> reason, filled |-> 0, price |-> 0, net |-> 0]
        ELSE IF OrderedBuy(i) /\ BuyCost(q, p) > purse
          THEN [reason |-> "insufficient_cash", filled |-> 0, price |-> p, net |-> 0]
        ELSE IF OrderedSell(i) /\ SellNet(q, p) < 0
          THEN [reason |-> "price", filled |-> 0, price |-> p, net |-> 0]
        ELSE [reason |-> "none", filled |-> q, price |-> p,
              net |-> IF OrderedBuy(i) THEN -BuyCost(q, p) ELSE SellNet(q, p)]
  BY DEF Event, Unaffordable
<1> HIDE DEF q, p, reason
<1>7. CASE reason # "none"
  <2>1. Event(i) = [reason |-> reason, filled |-> 0, price |-> 0, net |-> 0]
    BY <1>6, <1>7
  <2> QED
    BY <1>1, <1>2, <1>3, <2>1 DEF FillRow, q
<1>8. CASE reason = "none" /\ OrderedBuy(i)
  <2>1. CASE BuyCost(q, p) > purse
    <3>1. Event(i) = [reason |-> "insufficient_cash", filled |-> 0, price |-> p, net |-> 0]
      BY <1>6, <1>8, <2>1
    <3> QED
      BY <1>1, <1>2, <3>1 DEF FillRow, Reasons, q
  <2>2. CASE ~(BuyCost(q, p) > purse)
    <3>1. Event(i) = [reason |-> "none", filled |-> q, price |-> p, net |-> -BuyCost(q, p)]
      BY <1>5, <1>6, <1>8, <2>2
    <3> QED
      BY <1>1, <1>2, <1>3, <1>4, <1>5, <1>8, <2>2, <3>1 DEF FillRow, Reasons, q
  <2> QED
    BY <2>1, <2>2
<1>9. CASE reason = "none" /\ OrderedSell(i)
  <2>1. CASE SellNet(q, p) < 0
    <3>1. Event(i) = [reason |-> "price", filled |-> 0, price |-> p, net |-> 0]
      BY <1>5, <1>6, <1>9, <2>1
    <3> QED
      BY <1>1, <1>2, <3>1 DEF FillRow, Reasons, q
  <2>2. CASE ~(SellNet(q, p) < 0)
    <3>1. Event(i) = [reason |-> "none", filled |-> q, price |-> p, net |-> SellNet(q, p)]
      BY <1>5, <1>6, <1>9, <2>2
    <3> QED
      BY <1>1, <1>2, <1>3, <1>4, <1>5, <1>9, <2>2, <3>1 DEF FillRow, Reasons, q
  <2> QED
    BY <2>1, <2>2
<1> QED
  BY <1>7, <1>8, <1>9

-----------------------------------------------------------------------------
(* IInv is inductive.                                                      *)

\* Every initial state of a template satisfies the strengthening.
LEMMA InitSound == Init => IInv
<1> SUFFICES ASSUME Init PROVE IInv
  OBVIOUS
<1>1. PICK b \in InitialBooks : qty = b.qty /\ locked = b.locked /\ cash = b.cash
                                /\ heldAtOpen = b.qty
  BY DEF Init
<1>2. /\ qty \in Quantities /\ locked \in Quantities /\ cash \in Nat
      /\ heldAtOpen \in Quantities
      /\ \A i \in Instruments : locked[i] <= qty[i]
  BY <1>1, InputAssumption DEF Book
<1>3. /\ mark \in Quantities /\ soldToday \in Quantities
      /\ order = NoOrders /\ quote = NoQuotes /\ fill = NoFills
  BY DEF Init, Quantities
<1>4. TypeOK
  <2>1. /\ order \in [Instruments -> OrderRow] /\ fill \in [Instruments -> FillRow]
        /\ quote \in [Instruments -> Quote]
    BY <1>3, EmptyRecords
  <2>2. /\ phase \in Phases /\ cursor \in Instruments /\ halt \in Halts
        /\ round \in Nat /\ session \in Nat /\ execDate \in Nat
        /\ budget \in Nat /\ purse \in Nat
    BY <1>2, SizeAssumption DEF Init, Phases, Halts, Instruments
  <2> QED
    BY <1>2, <1>3, <2>1, <2>2 DEF TypeOK, OrderRow, FillRow
<1>5. RowsSound
  BY <1>3 DEF RowsSound, OrderedSell, NoOrders, NoOrder, NoFills, NoFill
<1>6. StagesAgree /\ BookSound /\ RowsFresh /\ PurseExplained /\ DateSound
  BY <1>2, <1>3 DEF Init, StagesAgree, BookSound, RowsFresh, PurseExplained, DateSound
<1> QED
  BY <1>4, <1>5, <1>6 DEF IInv

\* Configuring a date only moves execDate and the history.
LEMMA ConfigureKeeps == IInv /\ ConfigureDate => IInv'
<1> SUFFICES ASSUME IInv, NEW date \in 1..(session + 1), Configure(date) PROVE IInv'
  BY DEF ConfigureDate
<1> USE DEF IInv
<1>1. /\ phase = "ready" /\ phase' = "configured" /\ execDate' = date
      /\ UNCHANGED <<cursor, halt, bookVars, order, budget, quote, fill, purse>>
  BY DEF Configure
<1>2. date \in {session, session + 1} /\ date > 0 /\ date \in Nat
  BY SizeAssumption DEF Configure, Initial, TypeOK
<1>3. heldAtOpen' \in Quantities /\ soldToday' \in Quantities
  <2>1. CASE date = session
    BY <2>1 DEF Configure, historyVars, TypeOK
  <2>2. CASE date # session
    <3>1. \A i \in Instruments : qty[i] \in Nat /\ qty[i] - locked[i] \in Nat
      BY DEF TypeOK, Quantities, BookSound
    <3> QED
      BY <2>2, <3>1 DEF Configure, Quantities
  <2> QED
    BY <2>1, <2>2
<1>4. TypeOK'
  BY <1>1, <1>2, <1>3 DEF TypeOK, bookVars, Phases
<1>5. order' = NoOrders /\ fill' = NoFills
  BY <1>1 DEF RowsFresh
<1>6. RowsSound'
  BY <1>5 DEF RowsSound, OrderedSell, NoOrders, NoOrder, NoFills, NoFill
<1>7. StagesAgree' /\ BookSound' /\ RowsFresh' /\ PurseExplained' /\ DateSound'
  BY <1>1, <1>2, <1>5
     DEF StagesAgree, BookSound, RowsFresh, PurseExplained, DateSound, bookVars
<1> QED
  BY <1>4, <1>6, <1>7

\* A refused plan changes nothing but the phase; an accepted one records rows that
\* each stay within their holding.
LEMMA PlanKeeps == IInv /\ PlanDate => IInv'
<1> SUFFICES ASSUME IInv,
                    NEW panel \in [Instruments -> DecisionRows],
                    NEW targeted \in SUBSET Instruments,
                    NEW wanted \in SUBSET Instruments,
                    Plan(panel, targeted, wanted)
             PROVE  IInv'
  BY DEF PlanDate
<1> USE DEF IInv
<1>1. /\ phase = "configured"
      /\ UNCHANGED <<cursor, execDate, bookVars, quote, fill, purse, historyVars>>
  BY DEF Plan
<1>2. panel \in [Instruments -> DecisionRow]
  BY InputAssumption
<1>3. order = NoOrders /\ fill = NoFills
  BY <1>1 DEF RowsFresh
<1>4. CASE /\ phase' = "halted" /\ UNCHANGED <<order, budget>>
           /\ halt' \in {"missing_close", "missing_limit_price", "fees_exceed_proceeds"}
  <2>1. TypeOK'
    BY <1>1, <1>4 DEF TypeOK, bookVars, historyVars, Phases, Halts
  <2>2. RowsSound'
    BY <1>3, <1>1, <1>4 DEF RowsSound, OrderedSell, NoOrders, NoOrder, NoFills, NoFill
  <2>3. StagesAgree' /\ BookSound' /\ RowsFresh' /\ PurseExplained' /\ DateSound'
    BY <1>1, <1>4
       DEF StagesAgree, BookSound, RowsFresh, PurseExplained, DateSound, bookVars
  <2> QED
    BY <2>1, <2>2, <2>3
<1>5. ASSUME NEW target \in [Instruments -> 0..MaxTarget],
             order' = [i \in Instruments |-> PlanRow(panel, wanted, target[i], i)],
             PlanFault(panel, targeted, order') = "none",
             budget' = cash, phase' = "fundSells", UNCHANGED halt
      PROVE  IInv'
  <2>1. \A i \in Instruments :
          /\ order'[i] \in OrderRow
          /\ order'[i].side = "sell" =>
               qty[i] > 0 /\ order'[i].requested <= EngineSellable(i)
    <3> TAKE i \in Instruments
    <3>1. target[i] \in Nat
      BY InputAssumption
    <3> QED
      BY <1>2, <1>5, <3>1, PlanRowSound
  <2>2. \A i \in Instruments :
          order'[i].side = "sell" /\ order'[i].requested > 0 =>
            SellNet(order'[i].requested, order'[i].limit) >= 0
    <3> SUFFICES ASSUME NEW i \in Instruments,
                        order'[i].side = "sell", order'[i].requested > 0
                 PROVE  SellNet(order'[i].requested, order'[i].limit) >= 0
      OBVIOUS
    <3>1. i \in Relevant(targeted)
      BY <2>1 DEF Relevant, Held
    <3>2. ~(SellNet(order'[i].requested, order'[i].limit) < 0)
      BY <1>5, <3>1 DEF PlanFault
    <3>3. SellNet(order'[i].requested, order'[i].limit) \in Int
      BY <2>1, SellNetType DEF OrderRow
    <3> QED
      BY <3>2, <3>3
  <2>3. order' \in [Instruments -> OrderRow]
    BY <1>5, <2>1
  <2>4. TypeOK'
    BY <1>1, <1>5, <2>3 DEF TypeOK, bookVars, historyVars, Phases, OrderRow
  <2>5. RowsSound'
    <3> SUFFICES ASSUME NEW i \in Instruments
                 PROVE  /\ OrderedSell(i)' =>
                             /\ order'[i].requested <= EngineSellable(i)'
                             /\ order'[i].requested > 0 =>
                                  SellNet(order'[i].requested, order'[i].limit) >= 0
                        /\ fill'[i].filled <= order'[i].requested
      BY DEF RowsSound, SellNet, Fee, HalfUp
    <3>1. EngineSellable(i)' = EngineSellable(i)
      BY <1>1 DEF EngineSellable, OpenLock, SameSession, Initial, bookVars
    <3>2. fill'[i].filled = 0 /\ order'[i].requested \in Nat
      BY <1>1, <1>3, <2>1 DEF NoFills, NoFill, OrderRow
    <3> QED
      BY <2>1, <2>2, <3>1, <3>2 DEF OrderedSell
  <2>6. StagesAgree' /\ BookSound' /\ RowsFresh' /\ PurseExplained' /\ DateSound'
    BY <1>1, <1>3, <1>5
       DEF StagesAgree, BookSound, RowsFresh, PurseExplained, DateSound, bookVars
  <2> QED
    BY <2>4, <2>5, <2>6
<1>6. PlanFault(panel, targeted, order') \in
        {"none", "missing_limit_price", "fees_exceed_proceeds"}
  BY DEF PlanFault
<1>7. CASE MissingClose(panel, targeted)
  BY <1>4, <1>7 DEF Plan, Halt
<1>8. CASE ~MissingClose(panel, targeted)
  <2>1. PICK target \in [Instruments -> 0..MaxTarget] :
          LET rows == [i \in Instruments |-> PlanRow(panel, wanted, target[i], i)]
              fault == PlanFault(panel, targeted, rows)
          IN  IF fault # "none" THEN Halt(fault) /\ UNCHANGED <<order, budget>>
              ELSE /\ order' = rows /\ budget' = cash
                   /\ phase' = "fundSells" /\ UNCHANGED halt
    BY <1>8 DEF Plan
  <2> DEFINE rows == [i \in Instruments |-> PlanRow(panel, wanted, target[i], i)]
  <2>2. CASE PlanFault(panel, targeted, rows) = "none"
    BY <1>5, <2>1, <2>2
  <2>3. CASE PlanFault(panel, targeted, rows) # "none"
    <3>1. PlanFault(panel, targeted, rows) \in
            {"missing_limit_price", "fees_exceed_proceeds"}
      BY <2>3 DEF PlanFault
    <3> QED
      BY <1>4, <2>1, <2>3, <3>1 DEF Halt
  <2> QED
    BY <2>2, <2>3
<1> QED
  BY <1>7, <1>8

\* A loop step stays within the instruments and only moves on to its next loop.
LEMMA AdvanceSound ==
  ASSUME NEW next, cursor \in Instruments, Advance(next)
  PROVE  /\ cursor' \in Instruments /\ halt' = halt
         /\ \/ phase' = phase /\ cursor' = cursor + 1
            \/ phase' = next /\ cursor = N
  BY SizeAssumption DEF Advance, Instruments

\* The simulated sells only add to the budget.
LEMMA FundSellKeeps == IInv /\ FundSell => IInv'
<1> SUFFICES ASSUME IInv, FundSell PROVE IInv'
  OBVIOUS
<1> USE DEF IInv
<1>1. /\ phase = "fundSells" /\ Advance("fundBuys")
      /\ UNCHANGED <<execDate, bookVars, order, quote, fill, purse, historyVars>>
  BY DEF FundSell
<1>2. /\ cursor' \in Instruments /\ halt' = halt
      /\ phase' \in {"fundSells", "fundBuys"}
  BY <1>1, AdvanceSound DEF TypeOK
<1>3. budget' \in Nat
  <2>1. order[cursor].requested \in Nat /\ order[cursor].limit \in Nat /\ budget \in Nat
    BY DEF TypeOK
  <2>2. SellNet(order[cursor].requested, order[cursor].limit) \in Int
    BY <2>1, SellNetType
  <2>3. order[cursor].side = "sell" /\ order[cursor].requested > 0 =>
          SellNet(order[cursor].requested, order[cursor].limit) >= 0
    BY DEF RowsSound, OrderedSell, TypeOK
  <2> QED
    BY <2>1, <2>2, <2>3 DEF FundSell
<1>4. TypeOK'
  BY <1>1, <1>2, <1>3 DEF TypeOK, bookVars, historyVars, Phases
<1>5. RowsSound'
  BY <1>1 DEF RowsSound, OrderedSell, EngineSellable, OpenLock, SameSession, Initial,
              bookVars, SellNet, Fee, HalfUp
<1>6. StagesAgree' /\ BookSound' /\ RowsFresh' /\ PurseExplained' /\ DateSound'
  BY <1>1, <1>2
     DEF StagesAgree, BookSound, RowsFresh, PurseExplained, DateSound, bookVars
<1> QED
  BY <1>4, <1>5, <1>6

\* A funded buy is reduced within its row and paid for within the budget.
LEMMA FundBuyKeeps == IInv /\ FundBuy => IInv'
<1> SUFFICES ASSUME IInv, FundBuy PROVE IInv'
  OBVIOUS
<1> USE DEF IInv
<1>1. /\ phase = "fundBuys" /\ fill = NoFills
      /\ UNCHANGED <<execDate, bookVars, quote, fill, purse, historyVars>>
      /\ order \in [Instruments -> OrderRow] /\ cursor \in Instruments
  BY DEF FundBuy, RowsFresh, TypeOK, OrderRow
<1>2. ASSUME order' \in [Instruments -> OrderRow],
             \A i \in Instruments : order'[i].side = order[i].side,
             \A i \in Instruments : OrderedSell(i) => order'[i] = order[i],
             budget' \in Nat, cursor' \in Instruments,
             \/ halt' = halt /\ phase' \in {"fundBuys", "planned"}
             \/ halt' = "insufficient_cash" /\ phase' = "halted"
      PROVE  IInv'
  <2>1. TypeOK'
    BY <1>1, <1>2 DEF TypeOK, bookVars, historyVars, Phases, Halts, OrderRow
  <2>2. RowsSound'
    <3> SUFFICES ASSUME NEW i \in Instruments
                 PROVE  /\ OrderedSell(i)' =>
                             /\ order'[i].requested <= EngineSellable(i)'
                             /\ order'[i].requested > 0 =>
                                  SellNet(order'[i].requested, order'[i].limit) >= 0
                        /\ fill'[i].filled <= order'[i].requested
      BY DEF RowsSound, SellNet, Fee, HalfUp
    <3>1. EngineSellable(i)' = EngineSellable(i)
      BY <1>1 DEF EngineSellable, OpenLock, SameSession, Initial, bookVars
    <3>2. fill'[i].filled = 0 /\ order'[i].requested \in Nat
      BY <1>1, <1>2 DEF NoFills, NoFill, OrderRow
    <3>3. OrderedSell(i)' => OrderedSell(i) /\ order'[i] = order[i]
      BY <1>2 DEF OrderedSell
    <3> QED
      BY <3>1, <3>2, <3>3 DEF RowsSound
  <2>3. StagesAgree' /\ BookSound' /\ RowsFresh' /\ PurseExplained' /\ DateSound'
    BY <1>1, <1>2
       DEF StagesAgree, BookSound, RowsFresh, PurseExplained, DateSound, bookVars
  <2> QED
    BY <2>1, <2>2, <2>3
<1>3. ASSUME Advance("planned")
      PROVE  cursor' \in Instruments /\ halt' = halt /\ phase' \in {"fundBuys", "planned"}
  BY <1>1, <1>3, AdvanceSound
<1>4. CASE order[cursor].side # "buy"
  <2>1. Advance("planned") /\ UNCHANGED <<order, budget>>
    BY <1>4 DEF FundBuy
  <2> QED
    BY <1>1, <1>2, <1>3, <2>1 DEF TypeOK
<1>5. CASE order[cursor].side = "buy"
  <2>1. PICK q \in 0..order[cursor].requested :
          /\ Reduced(order[cursor], q)
          /\ IF q < order[cursor].requested /\ CashPolicy = "reject"
               THEN Halt("insufficient_cash") /\ UNCHANGED <<cursor, order, budget>>
               ELSE /\ order' = [order EXCEPT ![cursor].requested = q]
                    /\ budget' = budget - BuyCost(q, order[cursor].limit)
                    /\ Advance("planned")
    BY <1>5 DEF FundBuy
  <2>2. CASE q < order[cursor].requested /\ CashPolicy = "reject"
    BY <1>1, <1>2, <2>1, <2>2 DEF Halt, TypeOK
  <2>3. CASE ~(q < order[cursor].requested /\ CashPolicy = "reject")
    <3>1. /\ order' = [order EXCEPT ![cursor].requested = q]
          /\ budget' = budget - BuyCost(q, order[cursor].limit)
          /\ Advance("planned")
      BY <2>1, <2>3
    <3>2. q \in Nat /\ order[cursor].limit \in Nat /\ budget \in Nat
      BY <1>1, <2>1 DEF TypeOK, OrderRow
    <3>3. BuyCost(q, order[cursor].limit) \in Nat
      BY <3>2, BuyCostType
    <3>4. q > 0 => BuyCost(q, order[cursor].limit) <= budget
      BY <2>1 DEF Reduced
    <3>5. q = 0 => BuyCost(q, order[cursor].limit) = 0
      BY DEF BuyCost
    <3>6. budget' \in Nat
      BY <3>1, <3>2, <3>3, <3>4, <3>5
    <3>7. order' \in [Instruments -> OrderRow]
      BY <1>1, <3>1, <3>2 DEF OrderRow
    <3>8. \A i \in Instruments : order'[i].side = order[i].side
      BY <1>1, <3>1 DEF OrderRow
    <3>9. \A i \in Instruments : OrderedSell(i) => order'[i] = order[i]
      BY <1>1, <1>5, <3>1 DEF OrderedSell
    <3> QED
      BY <1>2, <1>3, <3>1, <3>6, <3>7, <3>8, <3>9
  <2> QED
    BY <2>2, <2>3
<1> QED
  BY <1>4, <1>5

\* The engine's check of the plan against the holdings always passes.
LEMMA StartKeeps == IInv /\ ExecuteDate => IInv'
<1> SUFFICES ASSUME IInv, NEW market \in [Instruments -> Quotes], StartExecution(market)
             PROVE  IInv'
  BY DEF ExecuteDate
<1> USE DEF IInv
<1>1. /\ phase = "planned" /\ fill = NoFills /\ quote' = market /\ purse' = cash
      /\ UNCHANGED <<cursor, execDate, bookVars, order, budget, fill, historyVars>>
  BY DEF StartExecution, RowsFresh
<1>2. ~\E i \in Instruments : OrderedSell(i) /\ order[i].requested > EngineSellable(i)
  <2>1. \A i \in Instruments : order[i].requested \in Nat /\ EngineSellable(i) \in Int
    BY SellableOrder DEF TypeOK, Quantities, EngineSellable
  <2> QED
    BY <2>1 DEF RowsSound
<1>3. phase' = "selling" /\ halt' = halt
  BY <1>2 DEF StartExecution
<1>4. market \in [Instruments -> Quote]
  BY InputAssumption
<1>5. TypeOK'
  BY <1>1, <1>3, <1>4 DEF TypeOK, bookVars, historyVars, Phases
<1>6. RowsSound'
  BY <1>1 DEF RowsSound, OrderedSell, EngineSellable, OpenLock, SameSession, Initial,
              bookVars, SellNet, Fee, HalfUp
<1>7. PurseExplained'
  BY <1>1 DEF PurseExplained, TypeOK, bookVars
<1>8. StagesAgree' /\ BookSound' /\ RowsFresh' /\ DateSound'
  BY <1>1, <1>3 DEF StagesAgree, BookSound, RowsFresh, DateSound, bookVars, NoFills
<1> QED
  BY <1>5, <1>6, <1>7, <1>8

\* One row of the engine's sells-first loop: it is evaluated once, fills at most
\* what it asked for and leaves a purse its fills explain.
LEMMA ExecuteRow ==
  ASSUME IInv, NEW side, NEW next,
         \/ phase = "selling" /\ side = "sell" /\ next = "buying"
         \/ phase = "buying" /\ side = "buy" /\ next = "executed",
         Execute(side, next)
  PROVE  IInv'
<1> USE DEF IInv
<1>1. /\ cursor \in Instruments /\ fill \in [Instruments -> FillRow] /\ purse \in Nat
      /\ UNCHANGED <<execDate, bookVars, order, budget, quote, historyVars>>
      /\ Advance(next)
  BY DEF TypeOK, FillRow, Execute
<1>2. /\ cursor' \in Instruments /\ halt' = halt
      /\ \/ phase' = phase /\ cursor' = cursor + 1
         \/ phase' = next /\ cursor = N
  BY <1>1, AdvanceSound
<1>3. order[cursor].side = side =>
        /\ Event(cursor) \in FillRow
        /\ Event(cursor).filled <= order[cursor].requested
        /\ purse + Event(cursor).net \in Nat
        /\ Event(cursor).net < 0 => OrderedBuy(cursor) /\ Event(cursor).filled > 0
        /\ Event(cursor).net > 0 => OrderedSell(cursor) /\ Event(cursor).filled > 0
        /\ fill[cursor] = NoFill
        /\ fill' = [fill EXCEPT ![cursor] = Event(cursor)]
        /\ purse' = purse + Event(cursor).net
  <2> SUFFICES ASSUME order[cursor].side = side
               PROVE  /\ Event(cursor) \in FillRow
                      /\ Event(cursor).filled <= order[cursor].requested
                      /\ purse + Event(cursor).net \in Nat
                      /\ Event(cursor).net < 0 => OrderedBuy(cursor) /\ Event(cursor).filled > 0
                      /\ Event(cursor).net > 0 => OrderedSell(cursor) /\ Event(cursor).filled > 0
                      /\ fill[cursor] = NoFill
                      /\ fill' = [fill EXCEPT ![cursor] = Event(cursor)]
                      /\ purse' = purse + Event(cursor).net
    OBVIOUS
  <2>1. OrderedBuy(cursor) \/ OrderedSell(cursor)
    BY DEF OrderedBuy, OrderedSell
  <2>2. fill[cursor] = NoFill
    BY <1>1 DEF RowsFresh, OrderedBuy, Instruments
  <2> QED
    BY <1>1, <2>1, <2>2, EventSound DEF Execute
<1>4. order[cursor].side # side => fill' = fill /\ purse' = purse
  BY DEF Execute
<1>5. fill' \in [Instruments -> FillRow] /\ purse' \in Nat
  BY <1>1, <1>3, <1>4
<1>6. TypeOK'
  BY <1>1, <1>2, <1>5 DEF TypeOK, bookVars, historyVars, Phases, FillRow
<1>7. RowsSound'
  <2> SUFFICES ASSUME NEW i \in Instruments
               PROVE  fill'[i].filled <= order[i].requested
    BY <1>1 DEF RowsSound, OrderedSell, EngineSellable, OpenLock, SameSession, Initial,
                bookVars, SellNet, Fee, HalfUp
  <2> QED
    BY <1>1, <1>3, <1>4 DEF RowsSound
<1>8. RowsFresh'
  <2>1. CASE phase = "selling"
    <3>1. \A i \in Instruments :
            (i >= cursor + 1 \/ ~OrderedSell(i)) => fill'[i] = NoFill
      <4> SUFFICES ASSUME NEW i \in Instruments, i >= cursor + 1 \/ ~OrderedSell(i)
                   PROVE  fill'[i] = NoFill
        OBVIOUS
      <4>1. fill[i] = NoFill
        BY <1>1, <2>1, SizeAssumption DEF RowsFresh, Instruments
      <4>2. order[cursor].side = side => i # cursor
        BY <1>1, <2>1, SizeAssumption DEF OrderedSell, Instruments
      <4> QED
        BY <1>1, <1>3, <1>4, <4>1, <4>2
    <3>2. CASE phase' = phase /\ cursor' = cursor + 1
      BY <1>1, <2>1, <3>1, <3>2 DEF RowsFresh, OrderedSell
    <3>3. CASE phase' = next /\ cursor = N
      BY <1>1, <2>1, <3>1, <3>3 DEF RowsFresh, OrderedSell, OrderedBuy
    <3> QED
      BY <1>2, <3>2, <3>3
  <2>2. CASE phase = "buying"
    <3>1. \A i \in Instruments : (i >= cursor + 1 /\ OrderedBuy(i)) => fill'[i] = NoFill
      BY <1>1, <1>3, <1>4, <2>2, SizeAssumption DEF RowsFresh, Instruments
    <3>2. CASE phase' = phase /\ cursor' = cursor + 1
      BY <1>1, <2>2, <3>1, <3>2 DEF RowsFresh, OrderedBuy
    <3>3. CASE phase' = next /\ cursor = N
      BY <2>2, <3>3 DEF RowsFresh
    <3> QED
      BY <1>2, <3>2, <3>3
  <2> QED
    BY <2>1, <2>2
<1>9. PurseExplained'
  <2> SUFFICES /\ purse' < cash => \E i \in Instruments : Bought(i)' > 0
               /\ purse' > cash => \E i \in Instruments : Sold(i)' > 0
    BY <1>1 DEF PurseExplained, bookVars
  <2>1. /\ purse < cash => \E i \in Instruments : Bought(i) > 0
        /\ purse > cash => \E i \in Instruments : Sold(i) > 0
        /\ cash \in Nat
    BY DEF PurseExplained, TypeOK
  <2>2. \A i \in Instruments : /\ Bought(i) > 0 => Bought(i)' > 0
                               /\ Sold(i) > 0 => Sold(i)' > 0
    BY <1>1, <1>3, <1>4 DEF Bought, Sold, OrderedBuy, OrderedSell, NoFill
  <2>3. Event(cursor) \in FillRow => Event(cursor).net \in Int
    BY DEF FillRow
  <2>4. purse' < purse => \E i \in Instruments : Bought(i)' > 0
    <3> SUFFICES ASSUME purse' < purse PROVE \E i \in Instruments : Bought(i)' > 0
      OBVIOUS
    <3>1. order[cursor].side = side /\ Event(cursor).net < 0
      BY <1>1, <1>3, <1>4, <2>3
    <3>2. OrderedBuy(cursor) /\ fill'[cursor].filled > 0
      BY <1>1, <1>3, <3>1
    <3> QED
      BY <1>1, <3>2 DEF Bought, OrderedBuy
  <2>5. purse' > purse => \E i \in Instruments : Sold(i)' > 0
    <3> SUFFICES ASSUME purse' > purse PROVE \E i \in Instruments : Sold(i)' > 0
      OBVIOUS
    <3>1. order[cursor].side = side /\ Event(cursor).net > 0
      BY <1>1, <1>3, <1>4, <2>3
    <3>2. OrderedSell(cursor) /\ fill'[cursor].filled > 0
      BY <1>1, <1>3, <3>1
    <3> QED
      BY <1>1, <3>2 DEF Sold, OrderedSell
  <2>6. CASE purse' < cash
    <3>1. purse' < purse \/ purse < cash
      BY <1>1, <1>5, <2>1, <2>6
    <3> QED
      BY <1>5, <2>1, <2>2, <2>4, <2>6, <3>1
  <2>7. CASE purse' > cash
    <3>1. purse' > purse \/ purse > cash
      BY <1>1, <1>5, <2>1, <2>7
    <3> QED
      BY <1>5, <2>1, <2>2, <2>5, <2>7, <3>1
  <2> QED
    BY <2>6, <2>7
<1>10. StagesAgree' /\ BookSound' /\ DateSound'
  BY <1>1, <1>2 DEF StagesAgree, BookSound, DateSound, bookVars
<1> QED
  BY <1>6, <1>7, <1>8, <1>9, <1>10

\* Neither an oversold holding nor a negative balance reaches the closing book.
LEMMA SettleKeeps == IInv /\ Settle => IInv'
<1> SUFFICES ASSUME IInv, Settle PROVE IInv'
  OBVIOUS
<1> USE DEF IInv
<1>1. /\ phase = "executed"
      /\ UNCHANGED <<cursor, execDate, bookVars, order, budget, quote, fill, purse,
                     historyVars>>
  BY DEF Settle
<1>2. \A i \in Instruments : ~(ClosingQty(i) < 0)
  <2> TAKE i \in Instruments
  <2>1. /\ qty[i] \in Nat /\ fill[i].filled \in Nat /\ order[i].requested \in Nat
        /\ EngineSellable(i) \in Int /\ EngineSellable(i) <= qty[i]
    BY SellableOrder DEF TypeOK, Quantities, EngineSellable
  <2>2. Sold(i) \in Nat /\ Sold(i) <= qty[i] /\ Bought(i) \in Nat
    BY <2>1 DEF RowsSound, Sold, Bought
  <2> QED
    BY <2>1, <2>2 DEF ClosingQty
<1>3. ~(purse < 0)
  BY DEF TypeOK
<1>4. \/ phase' = "settled" /\ halt' = halt
      \/ phase' = "halted" /\ halt' \in {"missing_execution_close", "missing_target"}
  BY <1>2, <1>3 DEF Settle, Halt
<1>5. TypeOK'
  BY <1>1, <1>4 DEF TypeOK, bookVars, historyVars, Phases, Halts
<1>6. RowsSound'
  BY <1>1 DEF RowsSound, OrderedSell, EngineSellable, OpenLock, SameSession, Initial,
              bookVars, SellNet, Fee, HalfUp
<1>7. PurseExplained'
  BY <1>1 DEF PurseExplained, bookVars, Bought, Sold, OrderedBuy, OrderedSell
<1>8. StagesAgree' /\ BookSound' /\ RowsFresh' /\ DateSound'
  BY <1>1, <1>4 DEF StagesAgree, BookSound, RowsFresh, DateSound, bookVars
<1> QED
  BY <1>5, <1>6, <1>7, <1>8

\* What the builder publishes from a sound date: its T+1 check passes and the lock
\* of each closing holding is within the holding.
LEMMA BuildPublishes ==
  ASSUME IInv, BuildState
  PROVE  /\ \A i \in Instruments :
              /\ Sold(i) \in Nat /\ Bought(i) \in Nat
              /\ Sold(i) <= qty[i] - OpenLock(i)
              /\ Sold(i) = 0 \/ Bought(i) = 0
              /\ ClosingQty(i) \in Nat /\ ClosingLock(i) \in Nat
              /\ ClosingLock(i) <= ClosingQty(i)
         /\ phase = "settled" /\ phase' = "ready" /\ halt' = halt
         /\ qty' = [i \in Instruments |-> ClosingQty(i)]
         /\ locked' = [i \in Instruments |-> ClosingLock(i)]
         /\ cash' = purse /\ session' = execDate
         /\ soldToday' = [i \in Instruments |-> soldToday[i] + Sold(i)]
         /\ heldAtOpen' = heldAtOpen
<1> USE DEF IInv
<1>1. \A i \in Instruments :
        /\ Sold(i) \in Nat /\ Bought(i) \in Nat
        /\ Sold(i) <= qty[i] - OpenLock(i)
        /\ Sold(i) = 0 \/ Bought(i) = 0
        /\ ClosingQty(i) \in Nat /\ ClosingLock(i) \in Nat
        /\ ClosingLock(i) <= ClosingQty(i)
  <2> TAKE i \in Instruments
  <2>1. /\ qty[i] \in Nat /\ fill[i].filled \in Nat /\ order[i].requested \in Nat
        /\ OpenLock(i) \in Nat /\ OpenLock(i) <= qty[i]
    BY SellableOrder DEF TypeOK, Quantities, EngineSellable
  <2>2. /\ OrderedSell(i) => order[i].requested <= qty[i] - OpenLock(i)
        /\ fill[i].filled <= order[i].requested
    BY DEF RowsSound, EngineSellable
  <2>3. ~(OrderedSell(i) /\ OrderedBuy(i))
    BY DEF OrderedSell, OrderedBuy
  <2>4. /\ Sold(i) \in Nat /\ Bought(i) \in Nat
        /\ Sold(i) <= qty[i] - OpenLock(i)
        /\ Sold(i) = 0 \/ Bought(i) = 0
    BY <2>1, <2>2, <2>3 DEF Sold, Bought
  <2> QED
    BY <2>1, <2>4 DEF ClosingQty, ClosingLock
<1>2. ~\E i \in Instruments : Sold(i) > qty[i] - OpenLock(i)
  BY <1>1, SellableOrder DEF TypeOK, Quantities
<1>3. ~\E i \in Instruments : ClosingLock(i) > ClosingQty(i)
  BY <1>1
<1> QED
  BY <1>1, <1>2, <1>3 DEF BuildState

\* The next date starts from a sound book with nothing left over from this one.
LEMMA BuildKeeps == IInv /\ BuildState => IInv'
<1> SUFFICES ASSUME IInv, BuildState PROVE IInv'
  OBVIOUS
<1>1. /\ \A i \in Instruments : /\ Sold(i) \in Nat
                                /\ ClosingQty(i) \in Nat /\ ClosingLock(i) \in Nat
                                /\ ClosingLock(i) <= ClosingQty(i)
      /\ phase = "settled" /\ phase' = "ready" /\ halt' = halt
      /\ qty' = [i \in Instruments |-> ClosingQty(i)]
      /\ locked' = [i \in Instruments |-> ClosingLock(i)]
      /\ cash' = purse /\ session' = execDate
      /\ soldToday' = [i \in Instruments |-> soldToday[i] + Sold(i)]
      /\ heldAtOpen' = heldAtOpen
  BY BuildPublishes
<1> USE DEF IInv
<1>2. /\ order' = NoOrders /\ quote' = NoQuotes /\ fill' = NoFills
      /\ budget' = 0 /\ purse' = 0 /\ round' = round + 1
      /\ mark' = [i \in Instruments |-> IF ClosingQty(i) > 0 THEN ClosingMark(i) ELSE 0]
      /\ UNCHANGED <<cursor, execDate>>
  BY <1>1 DEF BuildState, Halt
<1>3. qty' \in Quantities /\ locked' \in Quantities
  BY <1>1 DEF Quantities
<1>4. mark' \in Quantities
  BY <1>2 DEF ClosingMark, TypeOK, Quantities, Quote
<1>5. soldToday' \in Quantities
  BY <1>1 DEF TypeOK, Quantities
<1>6. TypeOK'
  BY <1>1, <1>2, <1>3, <1>4, <1>5, EmptyRecords DEF TypeOK, Phases, OrderRow, FillRow
<1>7. RowsSound'
  BY <1>2 DEF RowsSound, OrderedSell, NoOrders, NoOrder, NoFills, NoFill
<1>8. BookSound'
  BY <1>1 DEF BookSound
<1>9. StagesAgree' /\ RowsFresh' /\ PurseExplained' /\ DateSound'
  BY <1>1, <1>2 DEF StagesAgree, RowsFresh, PurseExplained, DateSound
<1> QED
  BY <1>6, <1>7, <1>8, <1>9

\* A step that changes nothing changes no conjunct.
LEMMA StutterKeeps == IInv /\ UNCHANGED vars => IInv'
BY DEF IInv, vars, bookVars, historyVars, TypeOK, StagesAgree, BookSound, RowsSound,
       RowsFresh, PurseExplained, DateSound, OrderedSell, OrderedBuy, EngineSellable,
       OpenLock, SameSession, Initial, SellNet, Fee, HalfUp, Bought, Sold

\* Every step of the specification preserves the strengthening.
LEMMA StepKeeps == IInv /\ [Next]_vars => IInv'
<1> SUFFICES ASSUME IInv, [Next]_vars PROVE IInv'
  OBVIOUS
<1>1. CASE ConfigureDate BY <1>1, ConfigureKeeps
<1>2. CASE PlanDate BY <1>2, PlanKeeps
<1>3. CASE FundSell BY <1>3, FundSellKeeps
<1>4. CASE FundBuy BY <1>4, FundBuyKeeps
<1>5. CASE ExecuteDate BY <1>5, StartKeeps
<1>6. CASE ExecuteSell BY <1>6, ExecuteRow DEF ExecuteSell
<1>7. CASE ExecuteBuy BY <1>7, ExecuteRow DEF ExecuteBuy
<1>8. CASE Settle BY <1>8, SettleKeeps
<1>9. CASE BuildState BY <1>9, BuildKeeps
<1>10. CASE Done \/ UNCHANGED vars BY <1>10, StutterKeeps DEF Done
<1> QED
  BY <1>1, <1>2, <1>3, <1>4, <1>5, <1>6, <1>7, <1>8, <1>9, <1>10 DEF Next, Step

\* The strengthening holds in every reachable state.
THEOREM Invariance == Spec => []IInv
<1>1. Init => IInv
  BY InitSound
<1>2. IInv /\ [Next]_vars => IInv'
  BY StepKeeps
<1> QED
  BY <1>1, <1>2, PTL DEF Spec

\* Every variable of the paper loop keeps its type, for any number of instruments:
\* in particular the planner's budget and the engine's purse never go below zero.
THEOREM TypeCorrect == Spec => []TypeOK
<1>1. IInv => TypeOK
  BY DEF IInv
<1> QED
  BY <1>1, Invariance, PTL

\* On a plan of the planner's own making, no defensive check of the engine or of
\* the state builder ever fires.
THEOREM StagesAlwaysAgree == Spec => []StagesAgree
<1>1. IInv => StagesAgree
  BY DEF IInv
<1> QED
  BY <1>1, Invariance, PTL

-----------------------------------------------------------------------------
(* T+1 over a session.                                                     *)

\* What may still be sold, with what was sold, was held when the session opened.
SessionSound ==
  /\ Initial => \A i \in Instruments : locked[i] = 0
  /\ \A i \in Instruments :
       IF phase = "ready"
         THEN soldToday[i] + qty[i] - locked[i] <= heldAtOpen[i]
         ELSE soldToday[i] + qty[i] - OpenLock(i) <= heldAtOpen[i]

\* When no template declares locked inventory, whatever is sold during a session,
\* however often the session is rebalanced, was held when it opened.
THEOREM SessionSafety ==
  ASSUME \A b \in InitialBooks : \A i \in Instruments : b.locked[i] = 0
  PROVE  Spec => []SoldWithinHeldAtOpen
<1>1. Init => SessionSound
  <2> SUFFICES ASSUME Init PROVE SessionSound
    OBVIOUS
  <2>1. PICK b \in InitialBooks : qty = b.qty /\ locked = b.locked /\ heldAtOpen = b.qty
    BY DEF Init
  <2>2. \A i \in Instruments : qty[i] \in Nat /\ locked[i] = 0
    BY <2>1, InputAssumption DEF Book, Quantities
  <2> QED
    BY <2>1, <2>2 DEF Init, SessionSound
<1>2. SessionSound /\ IInv /\ IInv' /\ [Next]_vars => SessionSound'
  <2> SUFFICES ASSUME SessionSound, IInv, IInv', [Next]_vars PROVE SessionSound'
    OBVIOUS
  <2>1. \A i \in Instruments :
          /\ qty[i] \in Nat /\ locked[i] \in Nat /\ locked[i] <= qty[i]
          /\ soldToday[i] \in Nat /\ heldAtOpen[i] \in Nat
          /\ OpenLock(i) \in Nat
    BY SellableOrder DEF IInv, TypeOK, Quantities, BookSound
  <2>2. CASE BuildState
    <3>1. session' > 0 /\ session' \in Nat
      BY <2>2, BuildPublishes DEF IInv, DateSound, TypeOK
    <3>2. \A i \in Instruments : soldToday'[i] + qty'[i] - locked'[i] <= heldAtOpen'[i]
      <4> TAKE i \in Instruments
      <4>1. /\ Sold(i) \in Nat /\ Bought(i) \in Nat
            /\ qty'[i] = qty[i] - Sold(i) + Bought(i)
            /\ locked'[i] = OpenLock(i) + Bought(i)
            /\ soldToday'[i] = soldToday[i] + Sold(i) /\ heldAtOpen'[i] = heldAtOpen[i]
            /\ soldToday[i] + qty[i] - OpenLock(i) <= heldAtOpen[i]
        BY <2>2, BuildPublishes DEF ClosingQty, ClosingLock, SessionSound
      <4> QED
        BY <2>1, <4>1
    <3> QED
      BY <2>2, <3>1, <3>2, BuildPublishes DEF SessionSound, Initial
  <2>3. CASE ConfigureDate
    <3> SUFFICES ASSUME NEW date \in 1..(session + 1), Configure(date) PROVE SessionSound'
      BY <2>3 DEF ConfigureDate
    <3>1. /\ phase = "ready" /\ phase' = "configured" /\ execDate' = date
          /\ qty' = qty /\ locked' = locked /\ session' = session
          /\ date \in {session, session + 1} /\ session \in Nat /\ date > 0
      BY DEF Configure, bookVars, Initial, IInv, TypeOK
    <3>2. \A i \in Instruments : soldToday[i] + qty[i] - locked[i] <= heldAtOpen[i]
      BY <3>1 DEF SessionSound
    <3>3. CASE date = session
      <4>1. \A i \in Instruments : OpenLock(i)' = locked[i]
        BY <3>1, <3>3 DEF OpenLock, SameSession, Initial
      <4> QED
        BY <3>1, <3>2, <3>3, <4>1 DEF SessionSound, Initial, Configure, historyVars
    <3>4. CASE date # session
      <4>1. \A i \in Instruments : OpenLock(i)' = 0
        BY <3>1, <3>4 DEF OpenLock, SameSession, Initial
      <4>2. \A i \in Instruments : heldAtOpen'[i] = qty[i] /\ soldToday'[i] = 0
        BY <2>1, <3>4 DEF Configure, SessionSound
      <4> QED
        BY <2>1, <3>1, <4>1, <4>2 DEF SessionSound, Initial
    <3> QED
      BY <3>3, <3>4
  <2>4. CASE /\ (phase = "ready") = (phase' = "ready")
             /\ UNCHANGED <<session, execDate, qty, locked, historyVars>>
    BY <2>4 DEF SessionSound, Initial, OpenLock, SameSession, historyVars
  <2>5. CASE \/ PlanDate \/ FundSell \/ FundBuy \/ ExecuteDate \/ ExecuteSell
             \/ ExecuteBuy \/ Settle \/ Done \/ UNCHANGED vars
    <3>1. UNCHANGED <<session, execDate, qty, locked, historyVars>>
      BY <2>5 DEF PlanDate, Plan, FundSell, FundBuy, ExecuteDate, StartExecution,
                  ExecuteSell, ExecuteBuy, Execute, Settle, Done, vars, bookVars
    <3>2. (phase = "ready") = (phase' = "ready")
      BY <2>5 DEF PlanDate, Plan, FundSell, FundBuy, ExecuteDate, StartExecution,
                  ExecuteSell, ExecuteBuy, Execute, Settle, Done, vars, Halt, Advance
    <3> QED
      BY <2>4, <3>1, <3>2
  <2> QED
    BY <2>2, <2>3, <2>5 DEF Next, Step
<1>3. SessionSound /\ IInv => SoldWithinHeldAtOpen
  <2> SUFFICES ASSUME SessionSound, IInv, NEW i \in Instruments
               PROVE  soldToday[i] <= heldAtOpen[i]
    BY DEF SoldWithinHeldAtOpen
  <2>1. /\ qty[i] \in Nat /\ locked[i] \in Nat /\ locked[i] <= qty[i]
        /\ soldToday[i] \in Nat /\ heldAtOpen[i] \in Nat
        /\ OpenLock(i) \in Nat /\ OpenLock(i) <= locked[i]
    BY SellableOrder DEF IInv, TypeOK, Quantities, BookSound
  <2> QED
    BY <2>1 DEF SessionSound
<1> QED
  BY <1>1, <1>2, <1>3, Invariance, PTL DEF Spec

-----------------------------------------------------------------------------
(* A held name always has a price to be carried at.                        *)

\* Each holding of a published book carries a price, and a book that is about to be
\* published gives each of its holdings one.
MarksSound ==
  /\ ~Initial => \A i \in Instruments : Held(i) => mark[i] > 0
  /\ phase = "settled" => \A i \in Instruments : ClosingQty(i) > 0 => ClosingMark(i) > 0
  /\ CarryKeepsStageAlive

\* The steps before the closing book touch neither the book nor its prices, and
\* none of them stops for a closing price.
LEMMA EarlierStepsKeepMarks ==
  ASSUME IInv, MarksSound,
         \/ ConfigureDate \/ PlanDate \/ FundSell \/ FundBuy \/ ExecuteDate
         \/ ExecuteSell \/ ExecuteBuy
  PROVE  MarksSound'
<1>1. UNCHANGED <<session, qty, mark>>
  BY DEF ConfigureDate, Configure, PlanDate, Plan, FundSell, FundBuy, ExecuteDate,
         StartExecution, ExecuteSell, ExecuteBuy, Execute, bookVars
<1>2. phase' # "settled"
  BY DEF ConfigureDate, Configure, PlanDate, Plan, FundSell, FundBuy, ExecuteDate,
         StartExecution, ExecuteSell, ExecuteBuy, Execute, Advance, Halt
<1>3. halt = "none"
  BY DEF IInv, DateSound, ConfigureDate, Configure, PlanDate, Plan, FundSell, FundBuy,
         ExecuteDate, StartExecution, ExecuteSell, ExecuteBuy, Execute
<1>4. halt' # "missing_execution_close"
  BY <1>3 DEF ConfigureDate, Configure, PlanDate, Plan, PlanFault, FundSell, FundBuy,
       ExecuteDate, StartExecution, ExecuteSell, ExecuteBuy, Execute, Advance, Halt
<1> QED
  BY <1>1, <1>2, <1>4 DEF MarksSound, CarryKeepsStageAlive, Initial, Held

\* The closing book is refused for a missing price only on account of a name that
\* was not held before: a held name has its carried price to fall back on.
LEMMA SettleKeepsMarks ==
  ASSUME IInv, MarksSound, Settle
  PROVE  MarksSound'
<1>1. /\ phase = "executed" /\ halt = "none"
      /\ UNCHANGED <<session, qty, mark, order, quote, fill>>
  BY DEF Settle, bookVars, IInv, DateSound
<1>2. \A i \in Instruments :
        /\ ClosingQty(i)' = ClosingQty(i) /\ ClosingMark(i)' = ClosingMark(i)
        /\ Held(i)' = Held(i) /\ Bought(i)' = Bought(i)
  BY <1>1 DEF ClosingQty, ClosingMark, Held, Bought, Sold, OrderedBuy, OrderedSell
<1>3. \A i \in Instruments :
        /\ qty[i] \in Nat /\ mark[i] \in Nat /\ quote[i].close \in Nat
        /\ Bought(i) \in Nat /\ Sold(i) \in Nat
  BY DEF IInv, TypeOK, Quantities, Quote, Bought, Sold
<1>4. Initial' = Initial
  BY <1>1 DEF Initial
<1>5. CASE phase' = "settled"
  <2>1. \A i \in Instruments : ClosingQty(i) > 0 => ClosingMark(i) > 0
    BY <1>3, <1>5 DEF Settle, Halt, ClosingMark
  <2>2. halt' = "none"
    BY <1>1, <1>5 DEF Settle, Halt
  <2> QED
    BY <1>1, <1>2, <1>4, <2>1, <2>2 DEF MarksSound, CarryKeepsStageAlive
<1>6. CASE phase' # "settled" /\ halt' = "missing_execution_close"
  <2>1. PICK i \in Instruments : ClosingQty(i) > 0 /\ ClosingMark(i) = 0
    BY <1>6 DEF Settle, Halt
  <2>2. quote[i].close = 0 /\ mark[i] = 0
    BY <1>3, <2>1 DEF ClosingMark
  <2>3. ~Initial => ~Held(i) /\ Bought(i) > 0
    <3> SUFFICES ASSUME ~Initial PROVE ~Held(i) /\ Bought(i) > 0
      OBVIOUS
    <3>1. ~Held(i)
      BY <2>2 DEF MarksSound
    <3> QED
      BY <1>3, <2>1, <3>1 DEF Held, ClosingQty
  <2> QED
    BY <1>1, <1>2, <1>4, <1>6, <2>2, <2>3 DEF MarksSound, CarryKeepsStageAlive
<1>7. CASE phase' # "settled" /\ halt' # "missing_execution_close"
  BY <1>1, <1>2, <1>4, <1>7 DEF MarksSound, CarryKeepsStageAlive
<1> QED
  BY <1>5, <1>6, <1>7

\* The published book keeps the price of each of its holdings.
LEMMA BuildKeepsMarks ==
  ASSUME IInv, MarksSound, BuildState
  PROVE  MarksSound'
<1>1. /\ phase = "settled" /\ phase' = "ready" /\ halt' = halt
      /\ qty' = [i \in Instruments |-> ClosingQty(i)]
      /\ ~\E i \in Instruments : Sold(i) > qty[i] - OpenLock(i)
      /\ ~\E i \in Instruments : ClosingLock(i) > ClosingQty(i)
  <2>1. \A i \in Instruments : OpenLock(i) \in Nat /\ qty[i] \in Nat
    BY SellableOrder DEF IInv, TypeOK, Quantities
  <2> QED
    BY <2>1, BuildPublishes
<1>2. mark' = [i \in Instruments |-> IF ClosingQty(i) > 0 THEN ClosingMark(i) ELSE 0]
  BY <1>1 DEF BuildState
<1>3. halt' = "none"
  BY <1>1 DEF IInv, DateSound
<1>4. \A i \in Instruments : qty'[i] > 0 => mark'[i] > 0
  BY <1>1, <1>2 DEF MarksSound
<1> QED
  BY <1>1, <1>3, <1>4 DEF MarksSound, CarryKeepsStageAlive, Held

\* A suspended name does not abort the stage: once a book is published, the closing
\* book is refused for want of a price only when a name bought that very session has
\* no close; whatever was held before is carried at its recorded price.
THEOREM HoldingsAreCarried == Spec => []CarryKeepsStageAlive
<1>1. Init => MarksSound
  BY DEF Init, MarksSound, CarryKeepsStageAlive, Initial
<1>2. MarksSound /\ IInv /\ [Next]_vars => MarksSound'
  <2> SUFFICES ASSUME MarksSound, IInv, [Next]_vars PROVE MarksSound'
    OBVIOUS
  <2>1. CASE \/ ConfigureDate \/ PlanDate \/ FundSell \/ FundBuy \/ ExecuteDate
             \/ ExecuteSell \/ ExecuteBuy
    BY <2>1, EarlierStepsKeepMarks
  <2>2. CASE Settle
    BY <2>2, SettleKeepsMarks
  <2>3. CASE BuildState
    BY <2>3, BuildKeepsMarks
  <2>4. CASE UNCHANGED vars
    BY <2>4 DEF vars, bookVars, MarksSound, CarryKeepsStageAlive, Initial, Held, ClosingQty,
                ClosingMark, Sold, Bought, OrderedSell, OrderedBuy
  <2> QED
    BY <2>1, <2>2, <2>3, <2>4 DEF Next, Step, Done
<1>3. MarksSound => CarryKeepsStageAlive
  BY DEF MarksSound
<1> QED
  BY <1>1, <1>2, <1>3, Invariance, PTL DEF Spec
-----------------------------------------------------------------------------
(* The planner's cash simulation bounds the engine's purse from below.     *)

\* Of two multiples of a positive number, the larger has the larger factor.
LEMMA FactorOrder ==
  ASSUME NEW d \in Nat \ {0}, NEW x \in Int, NEW y \in Int, d * x < d * y + d
  PROVE  x <= y
<1> SUFFICES ASSUME x >= y + 1 PROVE FALSE
  OBVIOUS
<1>1. d * (x - (y + 1)) >= 0
  OBVIOUS
<1> QED
  BY <1>1

\* What rounding half up means.
LEMMA HalfUpBounds ==
  ASSUME NEW amount \in Nat, NEW rate \in Nat
  PROVE  /\ HalfUp(amount, rate) \in Int
         /\ (2 * RateScale) * HalfUp(amount, rate) <= 2 * amount * rate + RateScale
         /\ 2 * amount * rate < (2 * RateScale) * HalfUp(amount, rate) + RateScale
<1> DEFINE d == 2 * RateScale
           a == 2 * amount * rate + RateScale
<1>1. d \in Nat \ {0} /\ a \in Nat /\ RateScale \in Nat /\ 2 * amount * rate = a - RateScale
      /\ d = 2 * RateScale
  BY FeeAssumption
<1>2. HalfUp(amount, rate) = a \div d
  BY DEF HalfUp
<1> HIDE DEF d, a
<1>3. a \div d \in Int /\ d * (a \div d) <= a /\ a < d * (a \div d) + d
  BY <1>1
<1>4. (2 * RateScale) * (a \div d) = d * (a \div d)
  BY <1>1
<1> QED
  BY <1>1, <1>2, <1>3, <1>4

\* A larger amount never has a smaller fee.
LEMMA FeeMonotone ==
  ASSUME NEW side, NEW less \in Nat, NEW more \in Nat, less <= more
  PROVE  Fee(side, less) <= Fee(side, more)
<1> DEFINE rate == IF side = "sell" THEN SellRate ELSE BuyRate
<1>1. rate \in Nat /\ MinCommission \in Nat /\ RateScale \in Nat \ {0}
  BY FeeAssumption
<1>2. /\ Fee(side, less) = IF HalfUp(less, rate) > MinCommission THEN HalfUp(less, rate)
                                                                 ELSE MinCommission
      /\ Fee(side, more) = IF HalfUp(more, rate) > MinCommission THEN HalfUp(more, rate)
                                                                 ELSE MinCommission
  BY DEF Fee
<1> HIDE DEF rate
<1>3. less * rate <= more * rate
  <2>1. (more - less) * rate >= 0
    BY <1>1
  <2> QED
    BY <1>1, <2>1
<1>4. HalfUp(less, rate) <= HalfUp(more, rate)
  <2> DEFINE d == 2 * RateScale
             x == HalfUp(less, rate)
             y == HalfUp(more, rate)
             u == less * rate
             v == more * rate
  <2>1. /\ d \in Nat \ {0} /\ x \in Int /\ y \in Int /\ u \in Int /\ v \in Int
        /\ u <= v /\ d = 2 * RateScale /\ RateScale \in Nat
        /\ d * x <= 2 * u + RateScale /\ 2 * v < d * y + RateScale
    <3>1. 2 * less * rate = 2 * u /\ 2 * more * rate = 2 * v /\ u \in Int /\ v \in Int
      BY <1>1
    <3>2. d * x <= 2 * less * rate + RateScale /\ 2 * more * rate < d * y + RateScale
      BY <1>1, HalfUpBounds
    <3>3. x \in Int /\ y \in Int
      BY <1>1, HalfUpBounds
    <3> QED
      BY <1>1, <1>3, <3>1, <3>2, <3>3
  <2> HIDE DEF d, x, y, u, v
  <2>2. d * x \in Int /\ d * y \in Int
    BY <2>1
  <2>3. d * x < d * y + d
    BY <2>1, <2>2
  <2>4. x <= y
    BY <2>1, <2>3, FactorOrder
  <2> QED
    BY <2>4 DEF x, y
<1>5. HalfUp(less, rate) \in Int /\ HalfUp(more, rate) \in Int
  BY <1>1, HalfUpBounds
<1> QED
  BY <1>1, <1>2, <1>4, <1>5

\* A buy costs no more at a lower price.
LEMMA CheaperBuy ==
  ASSUME NEW q \in Nat, NEW price \in Nat, NEW limit \in Nat, price <= limit
  PROVE  BuyCost(q, price) <= BuyCost(q, limit)
<1>1. q * price \in Nat /\ q * limit \in Nat /\ q * price <= q * limit
  <2>1. q * (limit - price) >= 0
    OBVIOUS
  <2> QED
    BY <2>1
<1>2. Fee("buy", q * price) <= Fee("buy", q * limit)
  BY <1>1, FeeMonotone
<1>3. Fee("buy", q * price) \in Nat /\ Fee("buy", q * limit) \in Nat
  BY <1>1, FeeType
<1> QED
  BY <1>1, <1>2, <1>3 DEF BuyCost

\* A sell brings in no less at a higher price, or it brings in nothing at all.  The
\* fee grows no faster than the amount as long as the rates stay below one; at a rate
\* of one and more the planned proceeds cannot be positive.
LEMMA DearerSell ==
  ASSUME NEW q \in Nat, NEW price \in Nat, NEW limit \in Nat, limit <= price
  PROVE  SellNet(q, limit) <= SellNet(q, price) \/ SellNet(q, limit) <= 0
<1> DEFINE g == q * limit
           h == q * price
           x == HalfUp(g, SellRate)
           y == HalfUp(h, SellRate)
           d == 2 * RateScale
<1>1. g \in Nat /\ h \in Nat /\ g <= h
  <2>1. q * (price - limit) >= 0
    OBVIOUS
  <2> QED
    BY <2>1
<1>2. /\ SellRate \in Nat /\ MinCommission \in Nat /\ RateScale \in Nat \ {0}
      /\ d \in Nat \ {0} /\ d = 2 * RateScale
  BY FeeAssumption
<1>3. /\ SellNet(q, limit) = g - (IF x > MinCommission THEN x ELSE MinCommission)
      /\ SellNet(q, price) = h - (IF y > MinCommission THEN y ELSE MinCommission)
  BY DEF SellNet, Fee
<1> HIDE DEF g, h
<1>4. x \in Int /\ y \in Int
  BY <1>1, <1>2, HalfUpBounds
<1>5. /\ 2 * (g * SellRate) < d * x + RateScale
      /\ d * x <= 2 * (g * SellRate) + RateScale
      /\ d * y <= 2 * (h * SellRate) + RateScale
  <2>1. 2 * g * SellRate = 2 * (g * SellRate) /\ 2 * h * SellRate = 2 * (h * SellRate)
    BY <1>1, <1>2
  <2> QED
    BY <1>1, <1>2, <2>1, HalfUpBounds
<1> HIDE DEF x, y, d
<1>6. CASE SellRate <= RateScale
  <2>1. h * SellRate <= g * SellRate + (h - g) * RateScale
    <3>1. (h - g) * (RateScale - SellRate) >= 0
      BY <1>1, <1>2, <1>6
    <3>2. (h - g) * (RateScale - SellRate) = (h - g) * RateScale - (h * SellRate - g * SellRate)
      BY <1>1, <1>2
    <3> QED
      BY <1>1, <1>2, <3>1, <3>2
  <2> DEFINE u == g * SellRate
             v == h * SellRate
             w == (h - g) * RateScale
             z == x + (h - g)
  <2>2. /\ u \in Int /\ v \in Int /\ w \in Int /\ z \in Int /\ v <= u + w
        /\ 2 * u < d * x + RateScale /\ d * y <= 2 * v + RateScale
        /\ d * z = d * x + 2 * w
    <3>1. d * (x + (h - g)) = d * x + d * (h - g)
      BY <1>1, <1>2, <1>4
    <3>2. d * (h - g) = 2 * ((h - g) * RateScale)
      BY <1>1, <1>2
    <3> QED
      BY <1>1, <1>2, <1>4, <1>5, <2>1, <3>1, <3>2
  <2> HIDE DEF u, v, w, z
  <2>3. d * x \in Int /\ d * y \in Int /\ d * z \in Int
    BY <1>2, <1>4, <2>2
  <2>4. d * y < d * z + d
    BY <1>2, <2>2, <2>3
  <2>5. y <= z
    BY <1>2, <1>4, <2>2, <2>4, FactorOrder
  <2>6. y <= x + (h - g)
    BY <2>5 DEF z
  <2> QED
    BY <1>1, <1>2, <1>3, <1>4, <2>6
<1>7. CASE SellRate > RateScale
  <2>1. g * RateScale <= g * SellRate
    <3>1. g * (SellRate - RateScale) >= 0
      BY <1>1, <1>2, <1>7
    <3> QED
      BY <1>1, <1>2, <3>1
  <2>2. d * g = 2 * (g * RateScale)
    BY <1>1, <1>2
  <2> DEFINE u == g * SellRate
             w == g * RateScale
  <2>3. /\ u \in Int /\ w \in Int /\ w <= u /\ d * g = 2 * w
        /\ 2 * u < d * x + RateScale
    BY <1>1, <1>2, <1>5, <2>1, <2>2
  <2> HIDE DEF u, w
  <2>4. d * x \in Int /\ d * g \in Int
    BY <1>1, <1>2, <1>4
  <2>5. d * g < d * x + d
    BY <1>2, <2>3, <2>4
  <2>6. g <= x
    BY <1>1, <1>2, <1>4, <2>5, FactorOrder
  <2> QED
    BY <1>1, <1>2, <1>3, <1>4, <2>6
<1> QED
  BY <1>2, <1>6, <1>7

\* What the planner's simulation books for a row: the proceeds of a sell, the cost
\* of a buy.
Gain(i) == IF OrderedSell(i) /\ order[i].requested > 0
             THEN SellNet(order[i].requested, order[i].limit) ELSE 0
Cost(i) == IF OrderedBuy(i) THEN BuyCost(order[i].requested, order[i].limit) ELSE 0

\* The balances the simulation went through: s after each sell, b after each buy.
SellsBooked(s, n) == s[0] = cash /\ \A i \in 1..n : s[i] = s[i - 1] + Gain(i)
BuysBooked(b, start, n) == b[0] = start /\ \A i \in 1..n : b[i] = b[i - 1] - Cost(i)
Simulated(s, b) == SellsBooked(s, N) /\ BuysBooked(b, s[N], N)

SellsFilled(n) == \A i \in 1..n : OrderedSell(i) /\ order[i].requested > 0
                                    => fill[i].reason = "none"
NoShortfall == \A i \in Instruments : fill[i].reason # "insufficient_cash"

\* As long as every sell was filled, the purse holds at least what the simulation
\* held at the same row.
FundingSound ==
  /\ phase \in {"ready", "configured", "planned", "executed", "settled"} => cursor = 1
  /\ phase = "fundSells" =>
       \E s \in [0..N -> Int] : SellsBooked(s, cursor - 1) /\ budget = s[cursor - 1]
  /\ phase = "fundBuys" =>
       \E s \in [0..N -> Int], b \in [0..N -> Nat] :
         SellsBooked(s, N) /\ BuysBooked(b, s[N], cursor - 1) /\ budget = b[cursor - 1]
  /\ phase = "planned" => \E s \in [0..N -> Int], b \in [0..N -> Nat] : Simulated(s, b)
  /\ phase = "selling" =>
       \E s \in [0..N -> Int], b \in [0..N -> Nat] :
         /\ Simulated(s, b)
         /\ SellsFilled(cursor - 1) => purse >= s[cursor - 1]
         /\ NoShortfall
  /\ phase = "buying" =>
       \E s \in [0..N -> Int], b \in [0..N -> Nat] :
         /\ Simulated(s, b)
         /\ SellsFilled(N) => purse >= b[cursor - 1] /\ NoShortfall
  /\ phase = "executed" => (SellsFilled(N) => NoShortfall)

\* The simulated balances are integers, row by row.
LEMMA BookedTypes ==
  ASSUME TypeOK, NEW i \in Instruments
  PROVE  Gain(i) \in Int /\ Cost(i) \in Nat /\ order[i] \in OrderRow
<1>1. order[i] \in OrderRow
  BY DEF TypeOK, OrderRow
<1>2. order[i].requested \in Nat /\ order[i].limit \in Nat
  BY <1>1 DEF OrderRow
<1>3. SellNet(order[i].requested, order[i].limit) \in Int
  BY <1>2, SellNetType
<1>4. BuyCost(order[i].requested, order[i].limit) \in Nat
  BY <1>2, BuyCostType
<1> QED
  BY <1>1, <1>3, <1>4 DEF Gain, Cost

\* A filled sell brings in at least what the planner expected of it, and no sell is
\* ever rejected for cash.
LEMMA SellEvent ==
  ASSUME TypeOK, NEW i \in Instruments, OrderedSell(i)
  PROVE  /\ Event(i).net \in Nat
         /\ Event(i).reason # "insufficient_cash"
         /\ order[i].requested = 0 => Gain(i) = 0
         /\ Event(i).reason = "none" => Event(i).net >= Gain(i)
<1> DEFINE q == order[i].requested
           p == ExecutionPrice(i)
           limit == order[i].limit
<1>1. /\ order[i] \in OrderRow /\ quote[i] \in Quote
      /\ Event(i).net \in Int /\ Event(i).net >= 0
  BY EventSound DEF TypeOK, OrderRow, FillRow
<1>2. q \in Nat /\ p \in Nat /\ limit \in Nat
  BY <1>1 DEF ExecutionPrice, OrderRow, Quote
<1>3. ~OrderedBuy(i)
  BY DEF OrderedBuy, OrderedSell
<1>4. Event(i).reason # "insufficient_cash"
  BY <1>3 DEF Event, Unaffordable, MarketReason
<1>5. ASSUME Event(i).reason = "none" PROVE Event(i).net >= Gain(i)
  <2>1. MarketReason(i) = "none" /\ Event(i).net = SellNet(q, p)
    BY <1>3, <1>5 DEF Event, Unaffordable
  <2>2. ~(p < limit)
    BY <2>1 DEF MarketReason
  <2>3. SellNet(q, limit) <= SellNet(q, p) \/ SellNet(q, limit) <= 0
    BY <1>2, <2>2, DearerSell
  <2>4. SellNet(q, limit) \in Int
    BY <1>2, SellNetType
  <2>5. Gain(i) \in {0, SellNet(q, limit)}
    BY DEF Gain
  <2> QED
    BY <1>1, <2>1, <2>3, <2>4, <2>5
<1> QED
  BY <1>1, <1>2, <1>4, <1>5 DEF Gain

\* A purse that covers what the planner booked for a buy covers the buy.
LEMMA BuyEvent ==
  ASSUME TypeOK, NEW i \in Instruments, OrderedBuy(i), purse >= Cost(i)
  PROVE  Event(i).reason # "insufficient_cash" /\ purse + Event(i).net >= purse - Cost(i)
<1> DEFINE q == order[i].requested
           p == ExecutionPrice(i)
           limit == order[i].limit
<1>1. order[i] \in OrderRow /\ quote[i] \in Quote /\ purse \in Nat
  BY DEF TypeOK, OrderRow
<1>2. q \in Nat /\ p \in Nat /\ limit \in Nat
  BY <1>1 DEF ExecutionPrice, OrderRow, Quote
<1>3. Cost(i) = BuyCost(q, limit) /\ Cost(i) \in Nat /\ BuyCost(q, p) \in Nat
  BY <1>2, BuyCostType DEF Cost
<1>4. CASE MarketReason(i) # "none"
  <2>1. Event(i) = [reason |-> MarketReason(i), filled |-> 0, price |-> 0, net |-> 0]
    BY <1>4 DEF Event
  <2>2. MarketReason(i) # "insufficient_cash"
    BY DEF MarketReason
  <2> QED
    BY <1>1, <1>3, <2>1, <2>2
<1>5. CASE MarketReason(i) = "none"
  <2>1. ~(p > limit)
    BY <1>5 DEF MarketReason
  <2>2. BuyCost(q, p) <= BuyCost(q, limit)
    BY <1>2, <2>1, CheaperBuy
  <2>3. ~Unaffordable(i)
    BY <1>1, <1>3, <2>2 DEF Unaffordable
  <2>4. Event(i) = [reason |-> "none", filled |-> q, price |-> p, net |-> -BuyCost(q, p)]
    BY <1>5, <2>3 DEF Event, OrderedBuy, OrderedSell
  <2> QED
    BY <1>1, <1>3, <2>2, <2>4
<1> QED
  BY <1>4, <1>5

\* A step of a loop over the instruments.
LEMMA AdvanceMoves ==
  ASSUME cursor \in Instruments, NEW next, Advance(next)
  PROVE  /\ halt' = halt
         /\ \/ cursor < N /\ phase' = phase /\ cursor' = cursor + 1
            \/ cursor = N /\ phase' = next /\ cursor' = 1
         /\ cursor \in 0..N /\ cursor - 1 \in 0..N /\ N \in 0..N /\ 0 \in 0..N
BY SizeAssumption DEF Advance, Instruments

\* The cash simulation opens with the cash of the book.
LEMMA PlanStartsFunding ==
  ASSUME IInv, IInv', FundingSound, PlanDate
  PROVE  FundingSound'
<1>1. PICK panel \in [Instruments -> DecisionRows],
           targeted \in SUBSET Instruments, wanted \in SUBSET Instruments :
        Plan(panel, targeted, wanted)
  BY DEF PlanDate
<1>2. cursor = 1 /\ cursor' = cursor /\ cash' = cash
  BY <1>1 DEF Plan, FundingSound, bookVars
<1>3. phase' = "halted" \/ (phase' = "fundSells" /\ budget' = cash)
  BY <1>1 DEF Plan, Halt
<1>4. CASE phase' = "halted"
  BY <1>4 DEF FundingSound
<1>5. CASE phase' = "fundSells" /\ budget' = cash
  <2>5. [k \in 0..N |-> cash] \in [0..N -> Int]
    BY DEF IInv, TypeOK
  <2>1. PICK s \in [0..N -> Int] : s = [k \in 0..N |-> cash]
    BY <2>5
  <2>4. s[0] = cash
    BY <2>1, SizeAssumption
  <2>2. SellsBooked(s, cursor - 1)'
    BY <1>2, <2>4 DEF SellsBooked
  <2>3. budget' = s[cursor' - 1]
    BY <1>2, <1>5, <2>4
  <2> QED
    BY <1>5, <2>1, <2>2, <2>3 DEF FundingSound
<1> QED
  BY <1>3, <1>4, <1>5

\* Each sell adds its proceeds to the last balance.
LEMMA FundSellExtends ==
  ASSUME IInv, IInv', FundingSound, FundSell
  PROVE  FundingSound'
<1>1. PICK s \in [0..N -> Int] : SellsBooked(s, cursor - 1) /\ budget = s[cursor - 1]
  BY DEF FundingSound, FundSell
<1>2. /\ cursor \in Instruments /\ phase = "fundSells"
      /\ order' = order /\ cash' = cash
      /\ Advance("fundBuys")
  BY DEF FundSell, bookVars, IInv, TypeOK
<1>3. /\ \/ cursor < N /\ phase' = phase /\ cursor' = cursor + 1
         \/ cursor = N /\ phase' = "fundBuys" /\ cursor' = 1
      /\ cursor \in 0..N /\ cursor - 1 \in 0..N /\ N \in 0..N /\ 0 \in 0..N /\ cursor # 0
      /\ cursor \in Int /\ N \in Nat
  BY <1>2, AdvanceMoves, SizeAssumption DEF Instruments
<1>4. Gain(cursor) \in Int /\ \A i \in Instruments : Gain(i)' = Gain(i)
  BY <1>2, BookedTypes DEF IInv, Gain, OrderedSell, SellNet, Fee, HalfUp
<1>5. budget' = budget + Gain(cursor) /\ budget \in Nat /\ budget' \in Nat
  BY DEF FundSell, Gain, OrderedSell, IInv, TypeOK
<1>12. PICK t \in [0..N -> Int] : t = [s EXCEPT ![cursor] = s[cursor - 1] + Gain(cursor)]
  <2>1. s[cursor - 1] + Gain(cursor) \in Int
    BY <1>3, <1>4
  <2>2. [s EXCEPT ![cursor] = s[cursor - 1] + Gain(cursor)] \in [0..N -> Int]
    BY <2>1
  <2> QED
    BY <2>2
<1>6. /\ t \in [0..N -> Int] /\ t[cursor] = s[cursor - 1] + Gain(cursor)
      /\ \A k \in 0..N : k # cursor => t[k] = s[k]
  BY <1>3, <1>12
<1>7. budget' = t[cursor]
  BY <1>1, <1>5, <1>6
<1>8. t[0] = cash /\ \A i \in 1..cursor : t[i] = t[i - 1] + Gain(i)
  <2>1. t[0] = cash
    BY <1>1, <1>3, <1>6 DEF SellsBooked
  <2>2. ASSUME NEW i \in 1..cursor PROVE t[i] = t[i - 1] + Gain(i)
    <3>1. i \in 0..N /\ i - 1 \in 0..N /\ i - 1 # cursor
      BY <1>3
    <3>2. CASE i = cursor
      BY <1>3, <1>6, <3>1, <3>2
    <3>3. CASE i # cursor
      <4>1. i \in 1..(cursor - 1)
        BY <1>3, <3>3
      <4> QED
        BY <1>1, <1>6, <3>1, <3>3, <4>1 DEF SellsBooked
    <3> QED
      BY <3>2, <3>3
  <2> QED
    BY <2>1, <2>2
<1>9. t[0] = cash' /\ \A i \in 1..cursor : t[i] = t[i - 1] + Gain(i)'
  <2>1. \A i \in 1..cursor : i \in Instruments
    BY <1>3 DEF Instruments
  <2> QED
    BY <1>2, <1>4, <1>8, <2>1
<1>10. CASE cursor < N /\ phase' = phase /\ cursor' = cursor + 1
  <2>1. cursor' - 1 = cursor
    BY <1>3, <1>10
  <2>2. SellsBooked(t, cursor - 1)'
    BY <1>9, <2>1 DEF SellsBooked
  <2> QED
    BY <1>2, <1>6, <1>7, <1>10, <2>1, <2>2 DEF FundingSound
<1>11. CASE cursor = N /\ phase' = "fundBuys" /\ cursor' = 1
  <2>4. PICK b \in [0..N -> Nat] : b = [k \in 0..N |-> budget']
    BY <1>5
  <2>1. b \in [0..N -> Nat] /\ b[0] = t[N] /\ budget' = b[cursor' - 1]
    BY <1>3, <1>5, <1>7, <1>11, <2>4
  <2>2. SellsBooked(t, N)'
    BY <1>9, <1>11 DEF SellsBooked
  <2>3. BuysBooked(b, t[N], cursor - 1)'
    BY <1>11, <2>1 DEF BuysBooked
  <2> QED
    BY <1>6, <1>11, <2>1, <2>2, <2>3 DEF FundingSound
<1> QED
  BY <1>3, <1>10, <1>11

\* Each buy that is kept takes its cost off the last balance, which stays a balance.
LEMMA FundBuyExtends ==
  ASSUME IInv, IInv', FundingSound, FundBuy
  PROVE  FundingSound'
<1>1. PICK s \in [0..N -> Int], b \in [0..N -> Nat] :
        SellsBooked(s, N) /\ BuysBooked(b, s[N], cursor - 1) /\ budget = b[cursor - 1]
  BY DEF FundingSound, FundBuy
<1>2. /\ cursor \in Instruments /\ phase = "fundBuys" /\ cash' = cash
      /\ budget' \in Nat /\ budget \in Nat
      /\ order \in [Instruments -> OrderRow] /\ order' \in [Instruments -> OrderRow]
  BY DEF FundBuy, bookVars, IInv, TypeOK, OrderRow
<1>3. CASE phase' = "halted"
  BY <1>3 DEF FundingSound
<1>4. CASE phase' # "halted"
  <2>1. PICK c \in Instruments : c = cursor
    BY <1>2
  <2>2. /\ Advance("planned") /\ budget' = budget - Cost(c)'
        /\ \A i \in Instruments : i # c => order'[i] = order[i]
        /\ order'[c].side = order[c].side
        /\ order[c].side = "sell" => order' = order
    <3>1. CASE order[c].side # "buy"
      <4>1. Advance("planned") /\ order' = order /\ budget' = budget
        BY <2>1, <3>1 DEF FundBuy
      <4>2. Cost(c)' = 0
        BY <3>1, <4>1 DEF Cost, OrderedBuy
      <4> QED
        BY <1>2, <4>1, <4>2
    <3>2. CASE order[c].side = "buy"
      <4>1. PICK q \in 0..order[c].requested :
              /\ order' = [order EXCEPT ![c].requested = q]
              /\ budget' = budget - BuyCost(q, order[c].limit)
              /\ Advance("planned")
        BY <1>4, <2>1, <3>2 DEF FundBuy, Halt
      <4>2. /\ order'[c].requested = q /\ order'[c].limit = order[c].limit
            /\ order'[c].side = "buy"
            /\ \A i \in Instruments : i # c => order'[i] = order[i]
        BY <1>2, <3>2, <4>1 DEF OrderRow
      <4>3. Cost(c)' = BuyCost(q, order[c].limit)
        BY <4>2 DEF Cost, OrderedBuy, BuyCost, Fee, HalfUp
      <4> QED
        BY <3>2, <4>1, <4>2, <4>3
    <3> QED
      BY <3>1, <3>2
  <2>3. /\ \/ c < N /\ phase' = phase /\ cursor' = c + 1
           \/ c = N /\ phase' = "planned" /\ cursor' = 1
        /\ c \in 0..N /\ c - 1 \in 0..N /\ N \in 0..N /\ 0 \in 0..N /\ c # 0
        /\ c \in Int /\ N \in Nat
    BY <1>2, <2>1, <2>2, AdvanceMoves, SizeAssumption DEF Instruments
  <2>4. ASSUME NEW i \in Instruments
        PROVE  Gain(i)' = Gain(i) /\ (i # c => Cost(i)' = Cost(i))
    <3>1. CASE order'[i] = order[i]
      BY <3>1 DEF Gain, Cost, OrderedSell, OrderedBuy, SellNet, BuyCost, Fee, HalfUp
    <3>2. CASE order'[i] # order[i]
      <4>1. i = c /\ order'[i].side = order[i].side /\ order[i].side # "sell"
        BY <2>2, <3>2
      <4> QED
        BY <4>1 DEF Gain, OrderedSell
    <3> QED
      BY <3>1, <3>2
  <2>5. PICK t \in [0..N -> Nat] : t = [b EXCEPT ![c] = budget']
    <3>1. [b EXCEPT ![c] = budget'] \in [0..N -> Nat]
      BY <1>2
    <3> QED
      BY <3>1
  <2>6. /\ t[c] = budget' /\ \A k \in 0..N : k # c => t[k] = b[k]
        /\ b[c - 1] = budget
    BY <1>1, <2>1, <2>3, <2>5
  <2>7. t[0] = s[N] /\ \A i \in 1..c : t[i] = t[i - 1] - Cost(i)'
    <3>1. t[0] = s[N]
      BY <1>1, <2>3, <2>6 DEF BuysBooked
    <3>2. ASSUME NEW i \in 1..c PROVE t[i] = t[i - 1] - Cost(i)'
      <4>1. i \in 0..N /\ i - 1 \in 0..N /\ i - 1 # c /\ i \in Instruments
        BY <2>3 DEF Instruments
      <4>2. CASE i = c
        BY <2>2, <2>3, <2>6, <4>1, <4>2
      <4>3. CASE i # c
        <5>1. i \in 1..(cursor - 1)
          BY <2>1, <2>3, <4>3
        <5>2. b[i] = b[i - 1] - Cost(i) /\ Cost(i)' = Cost(i)
          BY <1>1, <2>4, <4>1, <4>3, <5>1 DEF BuysBooked
        <5> QED
          BY <2>6, <4>1, <4>3, <5>2
      <4> QED
        BY <4>2, <4>3
    <3> QED
      BY <3>1, <3>2
  <2>8. SellsBooked(s, N)'
    <3>1. \A i \in 1..N : s[i] = s[i - 1] + Gain(i)'
      BY <1>1, <2>4 DEF SellsBooked, Instruments
    <3> QED
      BY <1>1, <1>2, <3>1 DEF SellsBooked
  <2>9. CASE c < N /\ phase' = phase /\ cursor' = c + 1
    <3>1. cursor' - 1 = c
      BY <2>3, <2>9
    <3>2. BuysBooked(t, s[N], cursor - 1)'
      BY <2>7, <3>1 DEF BuysBooked
    <3> QED
      BY <1>2, <2>6, <2>8, <2>9, <3>1, <3>2 DEF FundingSound
  <2>10. CASE c = N /\ phase' = "planned" /\ cursor' = 1
    <3>1. BuysBooked(t, s[N], N)'
      BY <2>7, <2>10 DEF BuysBooked
    <3>2. Simulated(s, t)'
      BY <2>8, <3>1 DEF Simulated
    <3> QED
      BY <2>10, <3>2 DEF FundingSound
  <2> QED
    BY <2>3, <2>9, <2>10
<1> QED
  BY <1>3, <1>4

\* The rows, and with them the simulation, do not change while the engine runs.
LEMMA RowsStay ==
  ASSUME order' = order, cash' = cash, NEW s, NEW b
  PROVE  /\ Simulated(s, b) => Simulated(s, b)'
         /\ \A i \in Instruments : Gain(i)' = Gain(i) /\ Cost(i)' = Cost(i)
BY DEF Simulated, SellsBooked, BuysBooked, Gain, Cost, OrderedSell, OrderedBuy, SellNet,
       BuyCost, Fee, HalfUp

\* The engine starts from the cash the simulation started from.
LEMMA StartOpensPurse ==
  ASSUME IInv, IInv', FundingSound, ExecuteDate
  PROVE  FundingSound'
<1>1. PICK s \in [0..N -> Int], b \in [0..N -> Nat] : Simulated(s, b)
  BY DEF FundingSound, ExecuteDate, StartExecution
<1>2. /\ cursor' = 1 /\ order' = order /\ cash' = cash /\ purse' = cash
      /\ fill' = NoFills /\ cash \in Nat
      /\ phase' \in {"halted", "selling"}
  BY DEF ExecuteDate, StartExecution, Halt, FundingSound, bookVars, IInv, RowsFresh, TypeOK
<1>3. Simulated(s, b)' /\ s[0] = cash
  BY <1>1, <1>2, RowsStay DEF Simulated, SellsBooked
<1>4. purse' >= s[cursor' - 1]
  BY <1>2, <1>3
<1>5. NoShortfall'
  BY <1>2 DEF NoShortfall, NoFills, NoFill
<1> QED
  BY <1>2, <1>3, <1>4, <1>5 DEF FundingSound

\* Each filled sell leaves the purse at or above the simulated balance.
LEMMA SellKeepsPurse ==
  ASSUME IInv, IInv', FundingSound, ExecuteSell
  PROVE  FundingSound'
<1>1. PICK s \in [0..N -> Int], b \in [0..N -> Nat] :
        /\ Simulated(s, b)
        /\ SellsFilled(cursor - 1) => purse >= s[cursor - 1]
        /\ NoShortfall
  BY DEF FundingSound, ExecuteSell
<1>2. PICK c \in Instruments : c = cursor
  BY DEF IInv, TypeOK
<1>3. /\ order' = order /\ cash' = cash /\ phase = "selling" /\ Advance("buying")
      /\ purse \in Nat /\ fill \in [Instruments -> FillRow]
      /\ IF OrderedSell(c)
           THEN fill' = [fill EXCEPT ![c] = Event(c)] /\ purse' = purse + Event(c).net
           ELSE fill' = fill /\ purse' = purse
  BY <1>2 DEF ExecuteSell, Execute, bookVars, IInv, TypeOK, OrderedSell, FillRow
<1>4. /\ \/ c < N /\ phase' = phase /\ cursor' = c + 1
         \/ c = N /\ phase' = "buying" /\ cursor' = 1
      /\ c \in 0..N /\ c - 1 \in 0..N /\ N \in 0..N /\ 0 \in 0..N /\ c # 0
      /\ c \in Int /\ N \in Nat /\ c \in 1..N
  BY <1>2, <1>3, AdvanceMoves, SizeAssumption DEF Instruments
<1>5. Simulated(s, b)'
  BY <1>1, <1>3, RowsStay
<1>6. OrderedSell(c) =>
        /\ Event(c).net \in Nat /\ Event(c).reason # "insufficient_cash"
        /\ order[c].requested = 0 => Gain(c) = 0
        /\ Event(c).reason = "none" => Event(c).net >= Gain(c)
  BY SellEvent DEF IInv
<1>7. NoShortfall'
  BY <1>1, <1>3, <1>6 DEF NoShortfall
<1>8. ASSUME SellsFilled(c)' PROVE purse' >= s[c]
  <2>1. s[c] = s[c - 1] + Gain(c) /\ s[c] \in Int /\ s[c - 1] \in Int
    BY <1>1, <1>4 DEF Simulated, SellsBooked
  <2>2. Gain(c) \in Int /\ order[c].requested \in Nat
    BY BookedTypes DEF IInv, OrderRow
  <2>3. SellsFilled(cursor - 1)
    <3> SUFFICES ASSUME NEW i \in 1..(c - 1), OrderedSell(i), order[i].requested > 0
                 PROVE  fill[i].reason = "none"
      BY <1>2 DEF SellsFilled
    <3>1. i \in 1..c /\ i # c /\ i \in Instruments
      BY <1>4 DEF Instruments
    <3>2. fill'[i].reason = "none"
      BY <1>3, <1>8, <3>1 DEF SellsFilled, OrderedSell
    <3> QED
      BY <1>3, <3>1, <3>2
  <2>4. purse >= s[c - 1]
    BY <1>1, <1>2, <2>3
  <2>5. CASE OrderedSell(c)
    <3>1. CASE order[c].requested > 0
      <4>1. c \in 1..c
        BY <1>4
      <4>2. fill'[c].reason = "none"
        BY <1>3, <1>8, <2>5, <3>1, <4>1 DEF SellsFilled, OrderedSell
      <4>3. Event(c).reason = "none"
        BY <1>3, <2>5, <4>2
      <4> QED
        BY <1>3, <1>6, <2>1, <2>2, <2>4, <2>5, <4>3
    <3>2. CASE order[c].requested = 0
      BY <1>3, <1>6, <2>1, <2>2, <2>4, <2>5, <3>2
    <3> QED
      BY <2>2, <3>1, <3>2
  <2>6. CASE ~OrderedSell(c)
    <3>1. Gain(c) = 0 /\ purse' = purse
      BY <1>3, <2>6 DEF Gain
    <3> QED
      BY <1>3, <2>1, <2>4, <3>1
  <2> QED
    BY <2>5, <2>6
<1>9. CASE c < N /\ phase' = phase /\ cursor' = c + 1
  <2>1. cursor' - 1 = c
    BY <1>4, <1>9
  <2>2. SellsFilled(cursor - 1)' => purse' >= s[cursor' - 1]
    BY <1>8, <2>1 DEF SellsFilled
  <2> QED
    BY <1>3, <1>5, <1>7, <1>9, <2>2 DEF FundingSound
<1>10. CASE c = N /\ phase' = "buying" /\ cursor' = 1
  <2>1. b[cursor' - 1] = s[c]
    BY <1>1, <1>10 DEF Simulated, BuysBooked
  <2>2. SellsFilled(N)' => purse' >= b[cursor' - 1]
    BY <1>8, <1>10, <2>1
  <2> QED
    BY <1>5, <1>7, <1>10, <2>2 DEF FundingSound
<1> QED
  BY <1>4, <1>9, <1>10

\* A purse at or above the simulated balance pays for the next buy and stays there.
LEMMA BuyKeepsPurse ==
  ASSUME IInv, IInv', FundingSound, ExecuteBuy
  PROVE  FundingSound'
<1>1. PICK s \in [0..N -> Int], b \in [0..N -> Nat] :
        /\ Simulated(s, b)
        /\ SellsFilled(N) => purse >= b[cursor - 1] /\ NoShortfall
  BY DEF FundingSound, ExecuteBuy
<1>2. PICK c \in Instruments : c = cursor
  BY DEF IInv, TypeOK
<1>3. /\ order' = order /\ cash' = cash /\ phase = "buying" /\ Advance("executed")
      /\ purse \in Nat /\ fill \in [Instruments -> FillRow]
      /\ IF OrderedBuy(c)
           THEN fill' = [fill EXCEPT ![c] = Event(c)] /\ purse' = purse + Event(c).net
           ELSE fill' = fill /\ purse' = purse
  BY <1>2 DEF ExecuteBuy, Execute, bookVars, IInv, TypeOK, OrderedBuy, FillRow
<1>4. /\ \/ c < N /\ phase' = phase /\ cursor' = c + 1
         \/ c = N /\ phase' = "executed" /\ cursor' = 1
      /\ c \in 0..N /\ c - 1 \in 0..N /\ N \in 0..N /\ 0 \in 0..N /\ c # 0
      /\ c \in Int /\ N \in Nat /\ c \in 1..N
  BY <1>2, <1>3, AdvanceMoves, SizeAssumption DEF Instruments
<1>5. Simulated(s, b)'
  BY <1>1, <1>3, RowsStay
<1>6. ASSUME SellsFilled(N)' PROVE purse' >= b[c] /\ NoShortfall'
  <2>1. SellsFilled(N)
    <3> SUFFICES ASSUME NEW i \in 1..N, OrderedSell(i), order[i].requested > 0
                 PROVE  fill[i].reason = "none"
      BY DEF SellsFilled
    <3>1. fill'[i].reason = "none" /\ i \in Instruments
      BY <1>3, <1>6 DEF SellsFilled, OrderedSell, Instruments
    <3>2. OrderedBuy(c) => i # c
      BY DEF OrderedBuy, OrderedSell
    <3> QED
      BY <1>3, <3>1, <3>2
  <2>2. purse >= b[c - 1] /\ NoShortfall
    BY <1>1, <1>2, <2>1
  <2>3. b[c] = b[c - 1] - Cost(c) /\ b[c] \in Nat /\ b[c - 1] \in Nat
    BY <1>1, <1>4 DEF Simulated, BuysBooked
  <2>4. Cost(c) \in Nat
    BY BookedTypes DEF IInv
  <2>5. CASE OrderedBuy(c)
    <3>1. purse >= Cost(c)
      BY <1>3, <2>2, <2>3, <2>4
    <3>2. Event(c).reason # "insufficient_cash" /\ purse + Event(c).net >= purse - Cost(c)
      BY <2>5, <3>1, BuyEvent DEF IInv
    <3>3. purse' >= purse - Cost(c) /\ purse' \in Nat
      BY <1>3, <2>5, <3>2 DEF IInv, TypeOK
    <3>4. NoShortfall'
      BY <1>3, <2>2, <2>5, <3>2 DEF NoShortfall
    <3> QED
      BY <1>3, <2>2, <2>3, <2>4, <3>3, <3>4
  <2>6. CASE ~OrderedBuy(c)
    <3>1. Cost(c) = 0 /\ purse' = purse /\ fill' = fill
      BY <1>3, <2>6 DEF Cost
    <3> QED
      BY <1>3, <2>2, <2>3, <3>1 DEF NoShortfall
  <2> QED
    BY <2>5, <2>6
<1>7. CASE c < N /\ phase' = phase /\ cursor' = c + 1
  <2>1. cursor' - 1 = c
    BY <1>4, <1>7
  <2> QED
    BY <1>3, <1>5, <1>6, <1>7, <2>1 DEF FundingSound
<1>8. CASE c = N /\ phase' = "executed" /\ cursor' = 1
  BY <1>6, <1>8 DEF FundingSound
<1> QED
  BY <1>4, <1>7, <1>8

\* The planner funds buys from the proceeds it expects of the sells, the engine from
\* those it got: when every planned sell was filled, no buy lacks cash, whatever the
\* fee schedule, the pricing basis and the rows.
THEOREM PlannedBuysAreFunded == Spec => []FundedBuysFill
<1>1. Init => FundingSound
  BY DEF Init, FundingSound
<1>2. FundingSound /\ IInv /\ IInv' /\ [Next]_vars => FundingSound'
  <2> SUFFICES ASSUME FundingSound, IInv, IInv', [Next]_vars PROVE FundingSound'
    OBVIOUS
  <2>1. CASE PlanDate BY <2>1, PlanStartsFunding
  <2>2. CASE FundSell BY <2>2, FundSellExtends
  <2>3. CASE FundBuy BY <2>3, FundBuyExtends
  <2>4. CASE ExecuteDate BY <2>4, StartOpensPurse
  <2>5. CASE ExecuteSell BY <2>5, SellKeepsPurse
  <2>6. CASE ExecuteBuy BY <2>6, BuyKeepsPurse
  <2>7. CASE ConfigureDate \/ Settle \/ BuildState
    <3>1. phase' \in {"ready", "configured", "settled", "halted"} /\ cursor' = cursor
      BY <2>7 DEF ConfigureDate, Configure, Settle, BuildState, Halt
    <3>2. cursor = 1
      BY <2>7 DEF FundingSound, ConfigureDate, Configure, Settle, BuildState
    <3> QED
      BY <3>1, <3>2 DEF FundingSound
  <2>8. CASE UNCHANGED vars
    <3>1. UNCHANGED <<phase, cursor, budget, purse, order, cash, fill>>
      BY <2>8 DEF vars, bookVars
    <3>2. \A i \in Instruments : Gain(i)' = Gain(i) /\ Cost(i)' = Cost(i)
      BY <3>1, RowsStay
    <3>3. NoShortfall' = NoShortfall
      BY <3>1 DEF NoShortfall
    <3> QED
      BY <3>1, <3>3 DEF FundingSound, SellsBooked, BuysBooked, Simulated, SellsFilled, Gain,
           Cost, OrderedSell, OrderedBuy, SellNet, BuyCost, Fee, HalfUp
  <2> QED
    BY <2>1, <2>2, <2>3, <2>4, <2>5, <2>6, <2>7, <2>8 DEF Next, Step, Done
<1>3. FundingSound => FundedBuysFill
  BY DEF FundingSound, FundedBuysFill, SellsFilled, NoShortfall, Instruments
<1> QED
  BY <1>1, <1>2, <1>3, Invariance, PTL DEF Spec

-----------------------------------------------------------------------------
(* The published books implement the ledger.                               *)

\* Each book is published by one step, a rebalance of the ledger; every other
\* step of the planner, the engine and the builder leaves the ledger alone.
THEOREM LedgerRefinement == Spec => LedgerSpec
<1>1. Init => Ledger!Init
  BY DEF Init, Ledger!Init
<1>2. IInv /\ [Next]_vars => [Ledger!Rebalance]_(Ledger!ledger)
  <2> SUFFICES ASSUME IInv, [Next]_vars
               PROVE  [Ledger!Rebalance]_(Ledger!ledger)
    OBVIOUS
  <2>1. CASE BuildState
    <3>1. /\ session' = execDate /\ execDate \in {session, session + 1}
          /\ execDate > 0 /\ session \in Nat /\ cash' = purse /\ purse \in Nat
          /\ cash \in Nat
      BY <2>1, BuildPublishes DEF IInv, DateSound, TypeOK
    <3>2. \A i \in Instruments : Ledger!StillLocked(i) = OpenLock(i)
      BY <3>1 DEF Ledger!StillLocked, OpenLock, SameSession, Initial
    <3>3. \A i \in Instruments :
            /\ Ledger!Arrived(i) = Bought(i) /\ Ledger!Left(i) = Sold(i)
            /\ Sold(i) \in Nat /\ Bought(i) \in Nat
            /\ Sold(i) = 0 \/ Bought(i) = 0
            /\ Sold(i) <= qty[i] - OpenLock(i)
      <4> TAKE i \in Instruments
      <4>1. /\ Sold(i) \in Nat /\ Bought(i) \in Nat
            /\ Sold(i) = 0 \/ Bought(i) = 0
            /\ Sold(i) <= qty[i] - OpenLock(i)
            /\ qty'[i] = qty[i] - Sold(i) + Bought(i)
            /\ locked'[i] = OpenLock(i) + Bought(i)
        BY <2>1, BuildPublishes DEF ClosingQty, ClosingLock
      <4>2. qty[i] \in Nat /\ OpenLock(i) \in Nat
        BY SellableOrder DEF IInv, TypeOK, Quantities
      <4> QED
        BY <3>2, <4>1, <4>2 DEF Ledger!Arrived, Ledger!Left
    <3>4. /\ cash' < cash => \E i \in Instruments : Bought(i) > 0
          /\ cash' > cash => \E i \in Instruments : Sold(i) > 0
      BY <2>1, <3>1, BuildPublishes DEF IInv, PurseExplained
    <3> QED
      BY <3>1, <3>2, <3>3, <3>4 DEF Ledger!Rebalance
  <2>2. CASE \/ ConfigureDate \/ PlanDate \/ FundSell \/ FundBuy \/ ExecuteDate
             \/ ExecuteSell \/ ExecuteBuy \/ Settle \/ Done \/ UNCHANGED vars
    BY <2>2 DEF ConfigureDate, Configure, PlanDate, Plan, FundSell, FundBuy, ExecuteDate,
                StartExecution, ExecuteSell, ExecuteBuy, Execute, Settle, Done, vars,
                bookVars, Ledger!ledger
  <2> QED
    BY <2>1, <2>2 DEF Next, Step
<1> QED
  BY <1>1, <1>2, Invariance, PTL DEF Spec, LedgerSpec, Ledger!Spec

-----------------------------------------------------------------------------
(* The publications                                                        *)

Shared == /\ JudgedByPublisher /\ ExecutableOnly /\ DecisionFirst /\ Gapless
          /\ Linked /\ Reviewed /\ Dated /\ Accepted
Courses == \A r \in Runners : Active(r) => Course(r)

Decisions == {"manifest", "complete"}
Grows ==
  /\ \A n \in Slots : Published(n) => store'[n] = store[n]
  /\ reviews \subseteq reviews'
  /\ \A k \in Keys : decision[k] \in Decisions => decision'[k] \in Decisions
  /\ attempts' \in Nat /\ attempts <= attempts'
  /\ \A a \in 0..attempts : given'[a] = given[a]
Rests(r) ==
  /\ pc'[r] = pc[r] /\ at'[r] = at[r] /\ hand'[r] = hand[r]
  /\ named'[r] = named[r] /\ attempt'[r] = attempt[r]

-----------------------------------------------------------------------------
(* Places of the chain                                                     *)

LEMMA Dates == ASSUME NEW n \in Slots PROVE DateOf(n) \in 1..Days
  BY DaysAssumption DEF Slots, DateOf

\* An artifact that is not a config has the one before it in the same date.
LEMMA SameDate ==
  ASSUME NEW n \in Slots, ~IsConfig(n)
  PROVE  n - 1 \in Slots /\ n # 1 /\ DateOf(n - 1) = DateOf(n)
  BY DaysAssumption DEF Slots, DateOf, IsConfig

\* The place after n, when there is one, starts a date or continues n's.
LEMMA Following ==
  ASSUME NEW n \in Slots
  PROVE  /\ n < 4 * Days => n + 1 \in Slots
         /\ IsPlan(n) => ~IsConfig(n)
         /\ IsConfig(n) => ~IsConfig(n + 1) /\ IsPlan(n + 1)
         /\ ~IsConfig(n) => ~IsPlan(n + 1)
         /\ n = 4 * Days => \A m \in Slots : m < n \/ m = n
         /\ 1 \in Slots /\ IsConfig(1) /\ n >= 1 /\ n \in Int
  BY DaysAssumption DEF Slots, IsConfig, IsPlan

\* What PublicationTypeOK says of one runner.
LEMMA Typed ==
  ASSUME PublicationTypeOK, NEW r \in Runners
  PROVE  /\ at[r] \in Slots /\ pc[r] \in Points
         /\ attempt[r] \in 0..attempts /\ attempts \in 0..MaxAttempts
         /\ hand[r] \in Artifact \union {Absent}
         /\ named[r] \in [Slots -> 0..MaxAttempts]
         /\ given[attempt[r]] \in Documents \union {"none"}
  BY AttemptsAssumption DEF PublicationTypeOK

LEMMA ActiveKey ==
  ASSUME PublicationTypeOK, NEW r \in Runners, Course(r)
  PROVE  Key(r) \in Keys
  <1>1. at[r] \in Slots
    BY Typed
  <1> QED
    BY <1>1, Dates DEF Key, Keys, Course

\* Nothing published is the absent artifact.
LEMMA ArtifactIsPublished ==
  ASSUME NEW a \in Artifact PROVE a # Absent /\ a.by \in Attempts /\ a.documents \in Documents
  BY AttemptsAssumption DEF Artifact, Absent, Attempts

-----------------------------------------------------------------------------
(* What survives the steps of others                                       *)

LEMMA OthersCourse ==
  ASSUME PublicationTypeOK, NEW r \in Runners, Course(r), Grows, Rests(r)
  PROVE  Course(r)'
  <1>1. /\ at[r] \in Slots /\ attempt[r] \in 0..attempts
        /\ given'[attempt[r]] = given[attempt[r]]
    BY Typed DEF Grows
  <1>2. Key(r)' = Key(r) /\ Key(r) \in Keys
    BY <1>1, ActiveKey DEF Key, Rests
  <1>3. /\ (decision[Key(r)] \in Decisions) => (decision'[Key(r)] \in Decisions)
        /\ \A n \in Slots : Published(n) => Published(n)' /\ store'[n] = store[n]
    BY <1>2 DEF Grows, Published
  <1>4. hand[r] = (IF at[r] = 1 THEN Absent ELSE store[at[r] - 1]) =>
          hand[r] = IF at[r] = 1 THEN Absent ELSE store'[at[r] - 1]
    <2>1. CASE at[r] = 1
      BY <2>1
    <2>2. CASE at[r] # 1
      <3>1. at[r] - 1 \in Slots /\ at[r] - 1 < at[r]
        BY <1>1, <2>2, DaysAssumption DEF Slots
      <3> QED
        BY <2>2, <3>1, <1>3 DEF Course
    <2> QED
      BY <2>1, <2>2
  <1> QED
    BY <1>1, <1>2, <1>3, <1>4 DEF Course, Rests, Grows, Decisions

LEMMA SharedGrows ==
  ASSUME PublicationTypeOK, Shared, Grows, store' = store, stage' = stage \/ Accepted'
  PROVE  Shared'
  <1>1. \A n \in Slots : Published(n) => Published(n)' /\ store'[n] = store[n]
    BY DEF Published
  <1>2. \A n \in Slots : Published(n)' => Published(n)
    BY DEF Published
  <1>3. JudgedByPublisher' /\ Dated'
    <2>1. \A n \in Slots : store[n].by \in 0..attempts
      <3> SUFFICES ASSUME NEW n \in Slots PROVE store[n].by \in 0..attempts
        OBVIOUS
      <3>1. store[n] \in Artifact \union {Absent} /\ store[n].by <= attempts
        BY DEF Shared, Dated, PublicationTypeOK
      <3>2. store[n].by \in Nat
        BY <3>1, AttemptsAssumption DEF Artifact, Attempts, Absent
      <3>3. attempts \in Nat
        BY AttemptsAssumption DEF PublicationTypeOK
      <3> QED
        BY <3>1, <3>2, <3>3
    <2>2. JudgedByPublisher'
      BY <2>1 DEF Shared, JudgedByPublisher, Grows, Published
    <2>3. Dated'
      <3>1. attempts \in Nat /\ attempts' \in Nat /\ attempts <= attempts'
        BY AttemptsAssumption DEF PublicationTypeOK, Grows
      <3> QED
        BY <2>1, <3>1 DEF Dated, Grows
    <2> QED
      BY <2>2, <2>3
  <1>4. DecisionFirst'
    <2> SUFFICES ASSUME NEW n \in Slots, Published(n)
                 PROVE  decision'[<<DateOf(n), store[n].documents>>] \in Decisions
      BY <1>2 DEF DecisionFirst, Decisions
    <2>1. <<DateOf(n), store[n].documents>> \in Keys
      BY Dates DEF PublicationTypeOK, Keys, Published, Artifact
    <2> QED
      BY <2>1 DEF Shared, DecisionFirst, Decisions, Grows
  <1>5. ExecutableOnly' /\ Gapless' /\ Linked' /\ Accepted'
    BY <1>1, <1>2 DEF Shared, ExecutableOnly, Gapless, Linked, Accepted, Published
  <1>6. Reviewed'
    BY <1>2 DEF Shared, Reviewed, Grows
  <1> QED
    BY <1>3, <1>4, <1>5, <1>6 DEF Shared
-----------------------------------------------------------------------------
(* The steps of a runner                                                   *)

LEMMA Split == PublicationSound <=> PublicationTypeOK /\ Shared /\ Courses
  BY DEF PublicationSound, Shared, Courses

LEMMA StepSound ==
  ASSUME PublicationSound, NEW r \in Runners, PublicationTypeOK', Grows, Shared',
         \A s \in Runners \ {r} : Rests(s),
         Active(r)' => Course(r)'
  PROVE  PublicationSound'
  <1>1. \A s \in Runners \ {r} : Active(s)' => Course(s)'
    BY Split, OthersCourse DEF Courses, Active, Rests
  <1>2. Courses'
    BY <1>1 DEF Courses
  <1> QED
    BY <1>2 DEF PublicationSound, Shared, Courses

\* A step that only moves the runner.
Quiet == UNCHANGED <<decision, store, reviews, stage, attempts, given, attempt>>

LEMMA QuietGrows ==
  ASSUME PublicationTypeOK, Shared, Quiet PROVE Grows /\ Shared'
  <1>1. Grows
    BY AttemptsAssumption DEF Quiet, Grows, PublicationTypeOK
  <1> QED
    BY <1>1, SharedGrows DEF Quiet

LEMMA GoToMoves ==
  ASSUME PublicationTypeOK, NEW r \in Runners, NEW point \in Points, GoTo(r, point), attempt' = attempt
  PROVE  /\ pc' \in [Runners -> Points] /\ pc'[r] = point
         /\ at' = at /\ hand' = hand /\ named' = named /\ outcome' = outcome
         /\ \A s \in Runners \ {r} : Rests(s)
  BY DEF GoTo, Rests, PublicationTypeOK

LEMMA EndMoves ==
  ASSUME PublicationTypeOK, NEW r \in Runners, NEW how \in Outcomes, End(r, how), attempt' = attempt
  PROVE  /\ pc' \in [Runners -> Points] /\ ~Active(r)'
         /\ at' = at /\ hand' = hand /\ named' = named
         /\ outcome' \in [Runners -> Outcomes]
         /\ \A s \in Runners \ {r} : Rests(s)
  BY DEF End, Rests, PublicationTypeOK, Active, Points

\* An attempt that ends leaves nothing to show.
LEMMA EndSound ==
  ASSUME PublicationSound, NEW r \in Runners, NEW how \in Outcomes, End(r, how), Quiet
  PROVE  PublicationSound'
  <1>1. /\ pc' \in [Runners -> Points] /\ ~Active(r)'
        /\ at' = at /\ hand' = hand /\ named' = named
        /\ outcome' \in [Runners -> Outcomes]
        /\ \A s \in Runners \ {r} : Rests(s)
    BY EndMoves, Split DEF Quiet
  <1>2. PublicationTypeOK'
    BY <1>1, Split DEF PublicationTypeOK, Quiet
  <1> QED
    BY <1>1, <1>2, QuietGrows, StepSound, Split

\* What a runner that only moves has to show.
LEMMA GoToSound ==
  ASSUME PublicationSound, NEW r \in Runners, NEW point \in Points, GoTo(r, point), Quiet,
         point # "idle" => Course(r)'
  PROVE  PublicationSound'
  <1>1. /\ pc' \in [Runners -> Points] /\ pc'[r] = point
        /\ at' = at /\ hand' = hand /\ named' = named /\ outcome' = outcome
        /\ \A s \in Runners \ {r} : Rests(s)
    BY GoToMoves, Split DEF Quiet
  <1>2. PublicationTypeOK'
    BY <1>1, Split DEF PublicationTypeOK, Quiet
  <1> QED
    BY <1>1, <1>2, QuietGrows, StepSound, Split DEF Active

LEMMA StartSound ==
  ASSUME PublicationSound, NEW r \in Runners, NEW documents \in Documents, Start(r, documents)
  PROVE  PublicationSound'
  <1>1. attempts + 1 \in Attempts /\ attempts \in Nat /\ 1 \in Slots /\ IsConfig(1)
    BY Split, AttemptsAssumption, DaysAssumption DEF PublicationTypeOK, Start, Attempts, Slots, IsConfig
  <1>2. PublicationTypeOK'
    <2>1. attempts' \in 0..MaxAttempts /\ attempts' = attempts + 1
      BY <1>1, AttemptsAssumption DEF Start, Attempts
    <2>2. given' \in [0..MaxAttempts -> Documents \union {"none"}]
      BY <1>1, Split, AttemptsAssumption DEF Start, PublicationTypeOK, Attempts
    <2>3. attempt' \in [Runners -> 0..attempts']
      <3>1. \A s \in Runners : attempt'[s] \in 0..attempts'
        <4> SUFFICES ASSUME NEW s \in Runners PROVE attempt'[s] \in 0..attempts'
          OBVIOUS
        <4>1. attempt[s] \in 0..attempts
          BY Split DEF PublicationTypeOK
        <4>2. attempt'[s] = IF s = r THEN attempts + 1 ELSE attempt[s]
          BY Split DEF Start, PublicationTypeOK
        <4> QED
          BY <1>1, <2>1, <4>1, <4>2
      <3> QED
        BY <3>1, Split DEF Start, PublicationTypeOK
    <2>4. pc' \in [Runners -> Points] /\ at' \in [Runners -> Slots]
      BY <1>1, Split DEF Start, PublicationTypeOK, Points
    <2>5. /\ hand' \in [Runners -> Artifact \union {Absent}]
          /\ outcome' \in [Runners -> Outcomes]
      BY Split DEF Start, PublicationTypeOK, Outcomes
    <2>6. named' \in [Runners -> [Slots -> 0..MaxAttempts]]
      <3>1. NoState \in [Slots -> 0..MaxAttempts]
        BY AttemptsAssumption DEF NoState
      <3> QED
        BY <3>1, Split DEF Start, PublicationTypeOK
    <2> QED
      BY <2>1, <2>2, <2>3, <2>4, <2>5, <2>6, Split DEF Start, PublicationTypeOK
  <1>3. Grows
    BY <1>1, Split, AttemptsAssumption DEF Start, Grows, PublicationTypeOK, Attempts
  <1>4. Shared'
    BY <1>3, SharedGrows, Split DEF Start
  <1>5. \A s \in Runners \ {r} : Rests(s)
    BY Split DEF Start, Rests, PublicationTypeOK
  <1>6. Course(r)'
    <2>1. /\ attempt'[r] = attempts + 1 /\ given'[attempts + 1] = documents
          /\ pc'[r] = "decide" /\ at'[r] = 1 /\ hand'[r] = Absent
      BY <1>1, Split, AttemptsAssumption DEF Start, PublicationTypeOK, Attempts
    <2>2. \A m \in Slots : ~(m < 1)
      BY DaysAssumption DEF Slots
    <2> QED
      BY <1>1, <2>1, <2>2 DEF Course
  <1> QED
    BY <1>2, <1>3, <1>4, <1>5, <1>6, StepSound

-----------------------------------------------------------------------------
(* The decision of a date                                                  *)

\* Moving leaves what the attempt knows as it is.
LEMMA Moved ==
  ASSUME PublicationTypeOK, NEW r \in Runners, NEW point \in Points, GoTo(r, point), Quiet
  PROVE  /\ pc'[r] = point /\ at'[r] = at[r] /\ hand'[r] = hand[r]
         /\ named'[r] = named[r] /\ attempt'[r] = attempt[r] /\ given' = given
         /\ store' = store /\ decision' = decision /\ reviews' = reviews
         /\ Key(r)' = Key(r)
  BY DEF GoTo, Quiet, Key, PublicationTypeOK

LEMMA CheckDecisionSound ==
  ASSUME PublicationSound, NEW r \in Runners, CheckDecision(r) PROVE PublicationSound'
  <1> DEFINE point == IF decision[Key(r)] \in Decisions THEN "authorize" ELSE "mkdir"
  <1>1. GoTo(r, point) /\ Quiet /\ point \in Points
    BY DEF CheckDecision, Quiet, Decisions, Points
  <1>2. Course(r) /\ pc[r] = "decide" /\ PublicationTypeOK
    BY Split DEF Courses, CheckDecision, Active
  <1>3. Course(r)'
    <2> HIDE DEF point
    <2>1. /\ pc'[r] = point /\ at'[r] = at[r] /\ hand'[r] = hand[r]
          /\ named'[r] = named[r] /\ attempt'[r] = attempt[r] /\ given' = given
          /\ store' = store /\ decision' = decision /\ reviews' = reviews
          /\ Key(r)' = Key(r)
      BY <1>1, <1>2, Moved
    <2> QED
      BY <1>2, <2>1 DEF Course, point, Decisions, Published
  <1> QED
    BY <1>1, <1>3, GoToSound

\* A partition of a decision only fills.
LEMMA DecisionStep ==
  ASSUME PublicationSound, NEW r \in Runners, NEW point \in Points, NEW held, GoTo(r, point),
         held \in {"dir", "manifest", "complete"},
         decision' = [decision EXCEPT ![Key(r)] = held],
         held = "dir" => decision[Key(r)] \notin Decisions,
         UNCHANGED <<store, reviews, stage, attempts, given, attempt>>,
         Course(r)'
  PROVE  PublicationSound'
  <1>1. /\ pc' \in [Runners -> Points] /\ at' = at /\ hand' = hand
        /\ named' = named /\ outcome' = outcome
        /\ \A s \in Runners \ {r} : Rests(s)
    BY GoToMoves, Split
  <1>2. PublicationTypeOK'
    BY <1>1, Split DEF PublicationTypeOK
  <1>3. Grows
    BY Split, AttemptsAssumption DEF PublicationTypeOK, Grows, Decisions
  <1> QED
    BY <1>1, <1>2, <1>3, SharedGrows, StepSound, Split

LEMMA MakeDecisionSound ==
  ASSUME PublicationSound, NEW r \in Runners, MakeDecision(r) PROVE PublicationSound'
  <1>1. Course(r) /\ pc[r] = "mkdir" /\ PublicationTypeOK
    BY Split DEF Courses, MakeDecision, Active
  <1>2. CASE decision[Key(r)] = "none"
    <2>1. /\ decision' = [decision EXCEPT ![Key(r)] = "dir"] /\ GoTo(r, "manifest")
          /\ UNCHANGED <<store, reviews, stage, attempts, given, attempt>>
      BY <1>2 DEF MakeDecision
    <2>2. Course(r)'
      BY <1>1, <2>1 DEF Course, GoTo, PublicationTypeOK, Published
    <2> QED
      BY <1>2, <2>1, <2>2, DecisionStep DEF Decisions, Points
  <1>3. CASE decision[Key(r)] # "none"
    BY <1>3, EndSound DEF MakeDecision, Quiet, Outcomes
  <1> QED
    BY <1>2, <1>3

LEMMA WriteManifestSound ==
  ASSUME PublicationSound, NEW r \in Runners, WriteManifest(r) PROVE PublicationSound'
  <1>1. Course(r) /\ pc[r] = "manifest" /\ PublicationTypeOK
    BY Split DEF Courses, WriteManifest, Active
  <1>2. Course(r)'
    BY <1>1 DEF WriteManifest, Course, GoTo, PublicationTypeOK, Published
  <1> QED
    BY <1>2, DecisionStep DEF WriteManifest, Points

LEMMA WriteDataSound ==
  ASSUME PublicationSound, NEW r \in Runners, WriteData(r) PROVE PublicationSound'
  <1>1. Course(r) /\ pc[r] = "data" /\ PublicationTypeOK
    BY Split DEF Courses, WriteData, Active
  <1>2. Key(r)' = Key(r) /\ Key(r) \in Keys
    BY <1>1, ActiveKey DEF WriteData, GoTo, Key
  <1>3. decision'[Key(r)] = "complete"
    BY <1>1, <1>2 DEF WriteData, PublicationTypeOK
  <1>4. Course(r)'
    BY <1>1, <1>2, <1>3 DEF WriteData, Course, GoTo, PublicationTypeOK, Published
  <1> QED
    BY <1>4, DecisionStep DEF WriteData, Points

LEMMA AuthorizeSound ==
  ASSUME PublicationSound, NEW r \in Runners, Authorize(r) PROVE PublicationSound'
  <1>1. Course(r) /\ pc[r] = "authorize" /\ PublicationTypeOK
    BY Split DEF Courses, Authorize, Active
  <1>2. CASE Key(r) \in Refused
    BY <1>2, EndSound DEF Authorize, Quiet, Outcomes
  <1>3. CASE Key(r) \notin Refused
    <2>1. GoTo(r, "claim") /\ Quiet /\ "claim" \in Points
      BY <1>3 DEF Authorize, Quiet, Points
    <2>2. /\ pc'[r] = "claim" /\ at'[r] = at[r] /\ hand'[r] = hand[r]
          /\ named'[r] = named[r] /\ attempt'[r] = attempt[r] /\ given' = given
          /\ store' = store /\ decision' = decision /\ reviews' = reviews
          /\ Key(r)' = Key(r)
      BY <1>1, <2>1, Moved
    <2>3. Course(r)'
      BY <1>1, <1>3, <2>2 DEF Course, Published
    <2> QED
      BY <2>1, <2>3, GoToSound
  <1> QED
    BY <1>2, <1>3

-----------------------------------------------------------------------------
(* The artifacts                                                           *)

LEMMA ClaimSound ==
  ASSUME PublicationSound, NEW r \in Runners, Claim(r) PROVE PublicationSound'
  <1>1. Course(r) /\ pc[r] = "claim" /\ PublicationTypeOK /\ at[r] \in Slots
    BY Split, Typed DEF Courses, Claim, Active
  <1>2. CASE IsPlan(at[r]) /\ hand[r].documents # given[attempt[r]]
    BY <1>2, EndSound DEF Claim, Quiet, Outcomes
  <1>3. CASE ~(IsPlan(at[r]) /\ hand[r].documents # given[attempt[r]])
    <2> DEFINE point == IF store[at[r]] # Absent THEN "readback" ELSE "review"
    <2>1. GoTo(r, point) /\ Quiet /\ point \in Points
      BY <1>3 DEF Claim, Quiet, Points
    <2>2. Course(r)'
      <3> HIDE DEF point
      <3>1. /\ pc'[r] = point /\ at'[r] = at[r] /\ hand'[r] = hand[r]
            /\ named'[r] = named[r] /\ attempt'[r] = attempt[r] /\ given' = given
            /\ store' = store /\ decision' = decision /\ reviews' = reviews
            /\ Key(r)' = Key(r)
        BY <1>1, <2>1, Moved
      <3> QED
        BY <1>1, <1>3, <3>1 DEF Course, point, Published
    <2> QED
      BY <2>1, <2>2, GoToSound
  <1> QED
    BY <1>2, <1>3

LEMMA ReviewSound ==
  ASSUME PublicationSound, NEW r \in Runners, Review(r) PROVE PublicationSound'
  <1>1. /\ Course(r) /\ pc[r] = "review" /\ PublicationTypeOK /\ Shared
        /\ at[r] \in Slots /\ attempt[r] \in Attempts
    BY Split, Typed DEF Courses, Review, Active, Course
  <1>2. /\ pc' \in [Runners -> Points] /\ pc'[r] = "install"
        /\ at' = at /\ hand' = hand /\ named' = named /\ outcome' = outcome
        /\ \A s \in Runners \ {r} : Rests(s)
    BY <1>1, GoToMoves DEF Review, Points
  <1>3. PublicationTypeOK'
    BY <1>1, <1>2 DEF PublicationTypeOK, Review
  <1>4. Grows
    BY <1>1, AttemptsAssumption DEF PublicationTypeOK, Grows, Review
  <1>5. Course(r)'
    BY <1>1, <1>2 DEF Course, Review, Published, Key
  <1> QED
    BY <1>1, <1>2, <1>3, <1>4, <1>5, SharedGrows, StepSound DEF Review

\* What Install puts in its place.
Installed(r) ==
  [by |-> attempt[r], parent |-> IF NamesDigest(at[r]) THEN hand[r].by ELSE 0,
   documents |-> IF IsConfig(at[r]) THEN given[attempt[r]] ELSE hand[r].documents]

LEMMA InstallAdds ==
  ASSUME PublicationSound, NEW r \in Runners, Install(r), store[at[r]] = Absent
  PROVE  /\ at[r] \in Slots /\ Installed(r) \in Artifact /\ Installed(r) # Absent
         /\ store' = [store EXCEPT ![at[r]] = Installed(r)]
         /\ given[attempt[r]] = Installed(r).documents
         /\ ~IsConfig(at[r]) => /\ at[r] - 1 \in Slots /\ Published(at[r] - 1)
                               /\ Installed(r).documents = store[at[r] - 1].documents
                               /\ DateOf(at[r] - 1) = DateOf(at[r])
  <1>1. /\ Course(r) /\ pc[r] = "install" /\ PublicationTypeOK /\ at[r] \in Slots
        /\ attempt[r] \in Attempts /\ given[attempt[r]] \in Documents
        /\ hand[r] \in Artifact \union {Absent}
    BY Split, Typed DEF Courses, Install, Active, Course
  <1>2. store' = [store EXCEPT ![at[r]] = Installed(r)]
    BY DEF Install, Installed
  <1>3. ~IsConfig(at[r]) =>
          /\ at[r] - 1 \in Slots /\ Published(at[r] - 1)
          /\ hand[r] = store[at[r] - 1] /\ hand[r].documents = given[attempt[r]]
          /\ DateOf(at[r] - 1) = DateOf(at[r])
    <2> SUFFICES ASSUME ~IsConfig(at[r])
                 PROVE  /\ at[r] - 1 \in Slots /\ Published(at[r] - 1)
                        /\ hand[r] = store[at[r] - 1]
                        /\ hand[r].documents = given[attempt[r]]
                        /\ DateOf(at[r] - 1) = DateOf(at[r])
      OBVIOUS
    <2>1. at[r] - 1 \in Slots /\ at[r] # 1 /\ DateOf(at[r] - 1) = DateOf(at[r])
      BY <1>1, SameDate
    <2>2. at[r] - 1 < at[r]
      BY <1>1, DaysAssumption DEF Slots
    <2> QED
      BY <1>1, <2>1, <2>2 DEF Course
  <1>4. hand[r].by \in 0..MaxAttempts
    BY <1>1, AttemptsAssumption DEF Artifact, Absent, Attempts
  <1>5. Installed(r).documents = given[attempt[r]]
    BY <1>3 DEF Installed
  <1>6. Installed(r) \in Artifact
    BY <1>1, <1>4, <1>5, AttemptsAssumption DEF Installed, Artifact
  <1> QED
    BY <1>1, <1>2, <1>3, <1>5, <1>6, ArtifactIsPublished DEF Installed

LEMMA InstallShared ==
  ASSUME PublicationSound, NEW r \in Runners, Install(r), store[at[r]] = Absent
  PROVE  Shared'
  <1> DEFINE n == at[r]
  <1>1. /\ n \in Slots /\ Installed(r) # Absent
        /\ store' = [store EXCEPT ![n] = Installed(r)]
        /\ given[attempt[r]] = Installed(r).documents
        /\ ~IsConfig(n) => /\ n - 1 \in Slots /\ Published(n - 1)
                           /\ Installed(r).documents = store[n - 1].documents
                           /\ DateOf(n - 1) = DateOf(n)
    BY InstallAdds
  <1>2. /\ Course(r) /\ pc[r] = "install" /\ PublicationTypeOK /\ Shared
        /\ attempt[r] \in 0..attempts
        /\ Installed(r).by = attempt[r]
        /\ Key(r) = <<DateOf(n), given[attempt[r]]>>
    BY Split, Typed DEF Courses, Install, Active, Installed, Key
  <1>3. UNCHANGED <<decision, reviews, stage, attempts, given, attempt>>
    BY DEF Install
  <1>4. /\ store'[n] = Installed(r) /\ ~Published(n)
        /\ \A m \in Slots : m # n => store'[m] = store[m]
    BY <1>1, <1>2 DEF PublicationTypeOK, Published
  <1>5. IsConfig(n) => /\ <<DateOf(n), Installed(r).documents>> \notin Refused
                      /\ decision[<<DateOf(n), Installed(r).documents>>] \in Decisions
    BY <1>1, <1>2 DEF Course, Decisions
  <1> HIDE DEF n
  <1>6. JudgedByPublisher'
    BY <1>1, <1>2, <1>3, <1>4 DEF JudgedByPublisher, Shared, Published
  <1>7. ExecutableOnly'
    BY <1>1, <1>2, <1>4, <1>5 DEF ExecutableOnly, Shared, Published
  <1>8. DecisionFirst'
    BY <1>1, <1>2, <1>3, <1>4, <1>5 DEF DecisionFirst, Shared, Published, Decisions
  <1>9. Gapless'
    <2>1. \A m \in Slots : m < n => Published(m)
      BY <1>2 DEF Course, n
    <2> QED
      BY <1>1, <1>2, <1>4, <2>1 DEF Gapless, Shared, Published
  <1>10. Linked'
    <2> SUFFICES ASSUME NEW m \in Slots, Published(m)', ~IsConfig(m)
                 PROVE  store'[m].documents = store'[m - 1].documents
      BY DEF Linked
    <2>1. m - 1 \in Slots /\ m - 1 # m /\ m - 1 < m
      BY SameDate, DaysAssumption DEF Slots
    <2>2. CASE m = n
      BY <1>1, <1>4, <2>1, <2>2
    <2>3. CASE m # n
      <3>1. Published(m) /\ m - 1 # n
        BY <1>2, <1>4, <2>1, <2>3 DEF Published, Shared, Gapless
      <3> QED
        BY <1>2, <1>4, <2>1, <2>3, <3>1 DEF Shared, Linked
    <2> QED
      BY <2>2, <2>3
  <1>11. Reviewed'
    <2>1. <<n, attempt[r]>> \in reviews
      BY <1>2 DEF Course, n
    <2> QED
      BY <1>2, <1>3, <1>4, <2>1 DEF Reviewed, Shared, Published
  <1>12. Dated'
    <2>1. attempt[r] <= attempts
      BY <1>2, AttemptsAssumption DEF PublicationTypeOK
    <2> QED
      BY <1>2, <1>3, <1>4, <2>1 DEF Dated, Shared
  <1>13. Accepted'
    BY <1>1, <1>2, <1>3, <1>4 DEF Accepted, Shared
  <1> QED
    BY <1>6, <1>7, <1>8, <1>9, <1>10, <1>11, <1>12, <1>13 DEF Shared

LEMMA InstallSound ==
  ASSUME PublicationSound, NEW r \in Runners, Install(r) PROVE PublicationSound'
  <1>1. Course(r) /\ pc[r] = "install" /\ PublicationTypeOK /\ at[r] \in Slots
    BY Split, Typed DEF Courses, Install, Active
  <1>2. CASE store[at[r]] = Absent
    <2>1. /\ GoTo(r, "readback") /\ "readback" \in Points
          /\ UNCHANGED <<decision, reviews, stage, attempts, given, attempt>>
      BY <1>2 DEF Install, Points
    <2>2. /\ pc' \in [Runners -> Points] /\ pc'[r] = "readback"
          /\ at' = at /\ hand' = hand /\ named' = named /\ outcome' = outcome
          /\ \A s \in Runners \ {r} : Rests(s)
      BY <1>1, <2>1, GoToMoves
    <2>3. /\ Installed(r) \in Artifact /\ Installed(r) # Absent
          /\ store' = [store EXCEPT ![at[r]] = Installed(r)]
      BY <1>2, InstallAdds
    <2>4. PublicationTypeOK'
      BY <1>1, <2>1, <2>2, <2>3 DEF PublicationTypeOK
    <2>5. Grows
      BY <1>1, <1>2, <2>1, <2>3, AttemptsAssumption DEF PublicationTypeOK, Grows, Published
    <2>6. Course(r)'
      <3>1. /\ Published(at[r])'
            /\ \A m \in Slots : Published(m) => Published(m)' /\ store'[m] = store[m]
        BY <1>1, <2>2, <2>3, <2>5 DEF PublicationTypeOK, Published, Grows
      <3>2. hand'[r] = IF at'[r] = 1 THEN Absent ELSE store'[at'[r] - 1]
        <4>1. CASE at[r] = 1
          BY <1>1, <2>2, <4>1 DEF Course
        <4>2. CASE at[r] # 1
          <5>1. at[r] - 1 \in Slots /\ at[r] - 1 < at[r]
            BY <1>1, <4>2, DaysAssumption DEF Slots
          <5> QED
            BY <1>1, <2>2, <3>1, <4>2, <5>1 DEF Course
        <4> QED
          BY <4>1, <4>2
      <3> QED
        BY <1>1, <2>1, <2>2, <3>1, <3>2 DEF Course
    <2> QED
      BY <1>2, <2>2, <2>4, <2>5, <2>6, InstallShared, StepSound
  <1>3. CASE store[at[r]] # Absent /\ IsConfig(at[r])
    <2>1. GoTo(r, "readback") /\ Quiet /\ "readback" \in Points
      BY <1>3 DEF Install, Quiet, Points
    <2>2. /\ pc'[r] = "readback" /\ at'[r] = at[r] /\ hand'[r] = hand[r]
          /\ named'[r] = named[r] /\ attempt'[r] = attempt[r] /\ given' = given
          /\ store' = store /\ decision' = decision /\ reviews' = reviews
          /\ Key(r)' = Key(r)
      BY <1>1, <2>1, Moved
    <2>3. Course(r)'
      BY <1>1, <1>3, <2>2 DEF Course, Published
    <2> QED
      BY <2>1, <2>3, GoToSound
  <1>4. CASE store[at[r]] # Absent /\ ~IsConfig(at[r])
    BY <1>4, EndSound DEF Install, Quiet, Outcomes
  <1> QED
    BY <1>2, <1>3, <1>4

LEMMA ReadbackSound ==
  ASSUME PublicationSound, NEW r \in Runners, Readback(r) PROVE PublicationSound'
  <1> DEFINE n == at[r]
  <1>1. /\ Course(r) /\ pc[r] = "readback" /\ PublicationTypeOK /\ Shared
        /\ n \in Slots /\ Quiet /\ n \in Int
    BY Split, Typed DEF Courses, Readback, Active, Quiet, Slots
  <1>2. CASE <<n, store[n].by>> \notin reviews
    BY <1>1, <1>2, EndSound DEF Readback, Outcomes
  <1>3. CASE <<n, store[n].by>> \in reviews
    <2>1. Proceed(r, store[n])
      BY <1>3 DEF Readback
    <2>2. Published(n) /\ store[n] \in Artifact /\ store[n].by \in Attempts
      BY <1>1, ArtifactIsPublished DEF Course, Published, PublicationTypeOK
    <2>3. /\ hand'[r] = store[n] /\ attempt' = attempt /\ given' = given
          /\ store' = store /\ decision' = decision /\ reviews' = reviews
          /\ named'[r] = [named[r] EXCEPT ![n] = store[n].by]
          /\ at'[r] = (IF n < 4 * Days THEN n + 1 ELSE n)
          /\ pc'[r] = (IF n = 4 * Days THEN "state"
                       ELSE IF IsConfig(n + 1) THEN "decide" ELSE "claim")
          /\ \A s \in Runners \ {r} : Rests(s)
      BY <1>1, <2>1 DEF Proceed, PublicationTypeOK, Quiet, Rests
    <2>4. PublicationTypeOK'
      <3>1. named' \in [Runners -> [Slots -> 0..MaxAttempts]]
        BY <1>1, <2>1, <2>2, AttemptsAssumption DEF Proceed, PublicationTypeOK, Attempts
      <3>2. at' \in [Runners -> Slots]
        BY <1>1, <2>1, Following DEF Proceed, PublicationTypeOK
      <3>3. pc' \in [Runners -> Points]
        BY <1>1, <2>1 DEF Proceed, PublicationTypeOK, Points
      <3> QED
        BY <1>1, <2>1, <2>2, <3>1, <3>2, <3>3 DEF Proceed, PublicationTypeOK, Quiet
    <2>5. \A m \in Slots : m < n \/ m = n => Published(m) /\ named'[r][m] = store[m].by
      <3>1. \A m \in Slots : m < n => Published(m) /\ named[r][m] = store[m].by
        BY <1>1 DEF Course
      <3> QED
        BY <1>1, <2>2, <2>3, <3>1, Typed
    <2>6. Course(r)'
      <3>1. CASE n = 4 * Days
        <4>1. \A m \in Slots : m < n \/ m = n
          BY <1>1, <3>1, Following
        <4>2. pc'[r] = "state" /\ at'[r] = n
          BY <1>1, <2>3, <3>1
        <4> QED
          BY <1>1, <2>3, <2>5, <3>1, <4>1, <4>2 DEF Course, Published
      <3>2. CASE n # 4 * Days
        <4>1. n < 4 * Days
          BY <1>1, <3>2, DaysAssumption DEF Slots
        <4>2. /\ at'[r] = n + 1 /\ n + 1 # 1 /\ hand'[r] = store'[at'[r] - 1]
              /\ \A m \in Slots : m < n + 1 => m < n \/ m = n
          BY <1>1, <2>3, <4>1 DEF Slots
        <4>3. /\ IsConfig(n + 1) => pc'[r] = "decide"
              /\ ~IsConfig(n + 1) => pc'[r] = "claim"
          BY <2>3, <3>2
        <4>4. ~IsConfig(n + 1) /\ ~IsPlan(n + 1) => hand'[r].documents = given[attempt[r]]
          <5> SUFFICES ASSUME ~IsConfig(n + 1), ~IsPlan(n + 1)
                       PROVE  store[n].documents = given[attempt[r]]
            BY <2>3
          <5>1. ~IsConfig(n)
            BY <1>1, Following
          <5>2. n # 1 /\ store[n].documents = store[n - 1].documents
            BY <1>1, <2>2, <5>1, SameDate DEF Shared, Linked
          <5>3. hand[r] = store[n - 1] /\ hand[r].documents = given[attempt[r]]
            BY <1>1, <5>1, <5>2 DEF Course
          <5> QED
            BY <5>2, <5>3
        <4>5. CASE IsConfig(n + 1)
          BY <1>1, <2>3, <2>5, <4>2, <4>3, <4>5 DEF Course, Published
        <4>6. CASE ~IsConfig(n + 1)
          BY <1>1, <2>3, <2>5, <4>2, <4>3, <4>4, <4>6 DEF Course, Published
        <4> QED
          BY <4>5, <4>6
      <3> QED
        BY <3>1, <3>2
    <2> QED
      BY <1>1, <2>3, <2>4, <2>6, QuietGrows, StepSound
  <1> QED
    BY <1>2, <1>3

LEMMA PublishStageSound ==
  ASSUME PublicationSound, NEW r \in Runners, PublishStage(r) PROVE PublicationSound'
  <1>1. Course(r) /\ pc[r] = "state" /\ PublicationTypeOK /\ Shared
    BY Split DEF Courses, PublishStage, Active
  <1>2. /\ pc' \in [Runners -> Points] /\ ~Active(r)'
        /\ at' = at /\ hand' = hand /\ named' = named
        /\ outcome' \in [Runners -> Outcomes]
        /\ \A s \in Runners \ {r} : Rests(s)
    BY <1>1, EndMoves DEF PublishStage, Outcomes
  <1>3. PublicationTypeOK'
    BY <1>1, <1>2, Typed DEF PublicationTypeOK, PublishStage
  <1>4. Grows
    BY <1>1, AttemptsAssumption DEF PublicationTypeOK, Grows, PublishStage
  <1>5. Accepted'
    BY <1>1 DEF Course, Accepted, PublishStage, Published
  <1>6. Shared'
    BY <1>1, <1>4, <1>5, SharedGrows DEF PublishStage
  <1> QED
    BY <1>2, <1>3, <1>4, <1>6, StepSound

-----------------------------------------------------------------------------
(* The theorems                                                            *)

LEMMA PublicationInitSound == PublicationInit => PublicationSound
  <1> SUFFICES ASSUME PublicationInit PROVE PublicationSound
    OBVIOUS
  <1>1. 1 \in Slots /\ 0 \in 0..MaxAttempts /\ 0 \in 0..0
    BY DaysAssumption, AttemptsAssumption DEF Slots
  <1>2. PublicationTypeOK
    BY <1>1, AttemptsAssumption DEF PublicationInit, PublicationTypeOK, NoState, Points, Outcomes
  <1>3. \A n \in Slots : ~Published(n) /\ store[n].by <= attempts
    BY DEF PublicationInit, Published, Absent
  <1> QED
    BY <1>2, <1>3 DEF PublicationInit, PublicationSound, JudgedByPublisher, ExecutableOnly, DecisionFirst,
                      Gapless, Linked, Reviewed, Dated, Accepted, Active

\* Every reachable state of the publication satisfies PublicationSound.
THEOREM PublicationInvariance == PublicationSpec => []PublicationSound
  <1>1. PublicationInit => PublicationSound
    BY PublicationInitSound
  <1>2. PublicationSound /\ [PublicationNext]_publicationVars => PublicationSound'
    <2> SUFFICES ASSUME PublicationSound, [PublicationNext]_publicationVars PROVE PublicationSound'
      OBVIOUS
    <2>1. CASE UNCHANGED publicationVars
      BY <2>1 DEF publicationVars, runnerVars, PublicationSound, PublicationTypeOK, JudgedByPublisher, ExecutableOnly,
                  DecisionFirst, Gapless, Linked, Reviewed, Dated, Accepted, Active,
                  Course, Published, Key
    <2>2. ASSUME NEW r \in Runners, NEW documents \in Documents, Start(r, documents)
          PROVE  PublicationSound'
      BY <2>2, StartSound
    <2>3. ASSUME NEW r \in Runners, Run(r) PROVE PublicationSound'
      BY <2>3, CheckDecisionSound, MakeDecisionSound, WriteManifestSound, WriteDataSound,
         AuthorizeSound, ClaimSound, ReviewSound, InstallSound, ReadbackSound,
         PublishStageSound DEF Run
    <2>4. ASSUME NEW r \in Runners, Interrupt(r) PROVE PublicationSound'
      BY <2>4, EndSound DEF Interrupt, Quiet, Outcomes
    <2> QED
      BY <2>1, <2>2, <2>3, <2>4 DEF PublicationNext
  <1> QED
    BY <1>1, <1>2, PTL DEF PublicationSpec

\* Whoever publishes an artifact was started with the risk documents it is
\* published under, however many attempts contribute to the chain.
THEOREM Judged == PublicationSpec => []JudgedByPublisher
  <1>1. PublicationSound => JudgedByPublisher
    BY DEF PublicationSound
  <1> QED
    BY <1>1, PublicationInvariance, PTL

\* Nothing of a date is published under a decision that refuses it.
THEOREM Executable == PublicationSpec => []ExecutableOnly
  <1>1. PublicationSound => ExecutableOnly
    BY DEF PublicationSound
  <1> QED
    BY <1>1, PublicationInvariance, PTL

\* No artifact precedes the manifest of its decision.
THEOREM Decided == PublicationSpec => []DecisionFirst
  <1>1. PublicationSound => DecisionFirst
    BY DEF PublicationSound
  <1> QED
    BY <1>1, PublicationInvariance, PTL

-----------------------------------------------------------------------------
(* The stores implement the chain: Install extends it, PublishStage        *)
(* accepts it, and no other step shows.                                    *)

\* What Install puts in its place is what the chain allows there.
LEMMA InstallExtends ==
  ASSUME PublicationSound, NEW r \in Runners, Install(r)
  PROVE  Chain!Extend \/ UNCHANGED <<store, stage>>
  <1>1. CASE store[at[r]] # Absent
    BY <1>1 DEF Install
  <1>2. CASE store[at[r]] = Absent
    <2> DEFINE n == at[r]
    <2>1. /\ n \in Slots /\ Installed(r) \in Artifact /\ Installed(r) # Absent
          /\ store' = [store EXCEPT ![n] = Installed(r)]
          /\ given[attempt[r]] = Installed(r).documents
          /\ ~IsConfig(n) => Installed(r).documents = store[n - 1].documents
      BY <1>2, InstallAdds
    <2>2. PublicationTypeOK /\ Course(r) /\ pc[r] = "install" /\ stage' = stage
      BY Split DEF Courses, Install, Active
    <2>3. store'[n] = Installed(r)
      BY <2>1, <2>2 DEF PublicationTypeOK
    <2>4. \A m \in Slots : m < n => store[m] # Absent
      BY <2>2 DEF Course, Published
    <2>5. Installed(r).parent = IF NamesDigest(n) THEN store[n - 1].by ELSE 0
      BY <2>1, <2>2 DEF Course, Installed, NamesDigest, Slots
    <2>6. IsConfig(n) =>
            <<DateOf(n), Installed(r).documents>> \in ((1..Days) \X Documents) \ Refused
      <3>1. IsConfig(n) => <<DateOf(n), given[attempt[r]]>> \notin Refused
        BY <2>2 DEF Course, Key
      <3>2. Installed(r).documents \in Documents
        BY <2>1, ArtifactIsPublished
      <3> QED
        BY <2>1, <3>1, <3>2, Dates
    <2>7. Chain!Slots = Slots /\ Chain!Absent = Absent
      BY DEF Chain!Slots, Slots, Chain!Absent, Absent
    <2>8. /\ Chain!IsConfig(n) = IsConfig(n) /\ Chain!DateOf(n) = DateOf(n)
          /\ Chain!NamesDigest(n) = NamesDigest(n)
      BY DEF Chain!IsConfig, IsConfig, Chain!DateOf, DateOf, Chain!NamesDigest, NamesDigest
    <2> HIDE DEF n
    <2>9. store' = [store EXCEPT ![n] = store'[n]]
      BY <2>1, <2>3
    <2> QED
      BY <1>2, <2>1, <2>2, <2>3, <2>4, <2>5, <2>6, <2>7, <2>8, <2>9 DEF Chain!Extend, n
  <1> QED
    BY <1>1, <1>2

\* A stage state that passes names exactly what is on disk.
LEMMA PublishStageAccepts ==
  ASSUME PublicationSound, NEW r \in Runners, PublishStage(r) PROVE Chain!Accept
  <1>1. PublicationTypeOK /\ Course(r) /\ pc[r] = "state"
    BY Split DEF Courses, PublishStage, Active
  <1>2. stage' = [m \in Slots |-> store[m].by]
    <2>1. named[r] \in [Slots -> 0..MaxAttempts]
      BY <1>1, Typed
    <2>2. \A m \in Slots : named[r][m] = store[m].by
      BY <1>1 DEF Course
    <2> QED
      BY <2>1, <2>2 DEF PublishStage
  <1>3. \A m \in Slots : store[m] # Absent
    BY <1>1 DEF Course, Published
  <1>4. Chain!Slots = Slots /\ Chain!Absent = Absent /\ store' = store
    BY DEF Chain!Slots, Slots, Chain!Absent, Absent, PublishStage
  <1> QED
    BY <1>2, <1>3, <1>4 DEF Chain!Accept, Chain!Whole

\* The publication implements PaperChain: however attempts overlap and are
\* interrupted, the artifacts appear one after the other, a digest an artifact names
\* is on disk, and a stage state names the digests of the artifacts on disk.
THEOREM Refinement == PublicationSpec => ChainSpec
  <1>1. PublicationInit => Chain!Init
    BY DEF PublicationInit, Chain!Init, Chain!Slots, Slots, Chain!Absent, Absent, Chain!NoState,
           NoState
  <1>2. PublicationSound /\ [PublicationNext]_publicationVars => [Chain!Extend \/ Chain!Accept]_<<store, stage>>
    <2> SUFFICES ASSUME PublicationSound, [PublicationNext]_publicationVars
                 PROVE  Chain!Extend \/ Chain!Accept \/ UNCHANGED <<store, stage>>
      OBVIOUS
    <2>1. CASE UNCHANGED publicationVars
      BY <2>1 DEF publicationVars
    <2>2. ASSUME NEW r \in Runners, NEW documents \in Documents, Start(r, documents)
          PROVE  UNCHANGED <<store, stage>>
      BY <2>2 DEF Start
    <2>3. ASSUME NEW r \in Runners, Interrupt(r) PROVE UNCHANGED <<store, stage>>
      BY <2>3 DEF Interrupt
    <2>4. ASSUME NEW r \in Runners,
                 CheckDecision(r) \/ MakeDecision(r) \/ WriteManifest(r) \/ WriteData(r)
                 \/ Authorize(r) \/ Claim(r) \/ Review(r) \/ Readback(r)
          PROVE  UNCHANGED <<store, stage>>
      BY <2>4 DEF CheckDecision, MakeDecision, WriteManifest, WriteData, Authorize,
                  Claim, Review, Readback
    <2> QED
      BY <2>1, <2>2, <2>3, <2>4, InstallExtends, PublishStageAccepts DEF PublicationNext, Run
  <1> QED
    BY <1>1, <1>2, PublicationInvariance, PTL DEF PublicationSpec, ChainSpec, Chain!Spec
=============================================================================
