---------------------------- MODULE BacktestSession ----------------------------
(***************************************************************************)
(* The chronological engine, contracts v3 and v4: one session after the    *)
(* other the dividend entitlements mature, the orders of the decision of   *)
(* the session before are tried one by one at the open under the volume,   *)
(* limit, T+1, turnover, gate, concentration and cash rules, the           *)
(* entitlements of the record date are locked, and the book is marked.     *)
(***************************************************************************)
EXTENDS BacktestBook

CONSTANTS Industry,      \* the industry of each instrument
          EventSets      \* the sets of dividends a window may contain

VARIABLES events,
          dayStart,      \* day_start_holdings
          traded,        \* the value traded in this session
          prevNav, peakNav, stopActive,
          entitled,      \* record_shares: None until the record date
          cashDue, sharesDue,    \* the receivables of each event
          received       \* history: what each event has brought into the book

\* A window has finitely many dividends; a date is counted in half sessions.
ASSUME EventAssumption ==
  \A set \in EventSets :
    /\ IsFiniteSet(DOMAIN set)
    /\ \A e \in DOMAIN set :
         set[e] \in [instrument: Instruments, record: Int, ex: Int, pay: Int, list: Int,
                    cash: Nat, stock: Nat]

claims == <<entitled, cashDue, sharesDue, received>>
risk == <<config, events, prevNav, peakNav, stopActive>>
sessionVars == <<dayStart, traded, risk, claims>>
vars == <<market, book, phase, desired, pending, arrived, reference, sessionVars>>

Ids == DOMAIN events
Of(i) == {e \in Ids : events[e].instrument = i}
OnEx(d) == {e \in Ids : events[e].ex = d}

\* _cent rounds half up; the impact grows with the share of the volume.
Cent(amount, rate) == (2 * amount * rate + 100) \div 200
ImpactPct(n, vol) == Least(config.maxImpact, (config.impact * n) \div vol)

ExecutionCosts(side, n, open, vol) ==
  IF n = 0 THEN [net |-> open, value |-> 0]
  ELSE LET rate == config.slippage + ImpactPct(n, vol)
           net == IF side = "buy" THEN open + Pct(open, rate) ELSE open - Pct(open, rate)
           commission == Most(config.minCommission, Cent(n * net, config.commission))
           stamp == IF side = "sell" THEN Cent(n * net, config.stamp) ELSE 0
       IN [net |-> net,
           value |-> IF side = "buy" THEN n * net + commission
                     ELSE n * net - commission - stamp]

\* The search by halves of _bounded_quantity.
BoundedQuantity(maximum, lot, allowed) ==
  LET top == maximum \div lot
      search[range \in (0..top) \X (0..top)] ==
        LET low == range[1]
            high == range[2]
            middle == (low + high + 1) \div 2
        IN IF low >= high THEN low * lot
           ELSE IF middle * lot \in allowed THEN search[<<middle, high>>]
           ELSE search[<<low, middle - 1>>]
  IN search[<<0, top>>]

\* The published reference of a session: the previous close, on an ex date less
\* the cash and spread over the bonus shares (stock is counted in halves).
LimitReference(i) ==
  LET ex == {e \in OnEx(day) : events[e].instrument = i}
      cum == SumFunction([e \in ex |-> events[e].cash])
      bonus == SumFunction([e \in ex |-> events[e].stock])
  IN Most(1, ((lastClose[i] - cum) * 2) \div (2 + bonus))

\* What a held share and a share still to be listed are worth.
HeldPrice(i, column) ==
  IF Row(i) THEN quote[i][column]
  ELSE IF \E e \in OnEx(day) : events[e].instrument = i THEN LimitReference(i)
  ELSE lastClose[i]
DuePrice(e, column) ==
  LET i == events[e].instrument
  IN IF Row(i) THEN quote[i][column]
     ELSE IF day = events[e].ex THEN LimitReference(i) ELSE lastClose[i]

Exposure(i, column) ==
  (IF shares[i] = 0 THEN 0 ELSE shares[i] * HeldPrice(i, column))
    + SumFunction([e \in Of(i) |-> IF sharesDue[e] = 0 THEN 0 ELSE sharesDue[e] * DuePrice(e, column)])
Claimed == SumFunction(cashDue)
Nav(column) == cash + Claimed + SumFunction([i \in Instruments |-> Exposure(i, column)])
Unmarkable ==
  \E i \in Instruments :
    /\ ~Row(i) /\ ~quote[i].suspended
    /\ shares[i] > 0 \/ \E e \in Of(i) : sharesDue[e] > 0

Fail == phase' = "failed" /\ UNCHANGED <<market, book, desired, pending, arrived, reference, sessionVars>>

-----------------------------------------------------------------------------
(* The open of a session: the stop, the entitlements, the targets. *)

\* A date between two sessions settles on the later one (session s is date 2s).
SettlesOn(date) == {s \in Calendar : 2 * s >= date /\ 2 * (s - 1) < date}
Fractional(d) == \E e \in OnEx(d) : (entitled[e] * events[e].stock) % 2 # 0
\* Mutant: the cash of a dividend follows what is held on the ex date.
CashAccruedToday(d) ==
  [e \in Ids |-> IF e \in OnEx(d) THEN shares[events[e].instrument] * events[e].cash ELSE cashDue[e]]
CashAccrued(d) ==
  [e \in Ids |-> IF e \in OnEx(d) THEN entitled[e] * events[e].cash ELSE cashDue[e]]
SharesAccrued(d) ==
  [e \in Ids |-> IF e \in OnEx(d) THEN (entitled[e] * events[e].stock) \div 2 ELSE sharesDue[e]]
Paying(d) == {e \in Ids : d \in SettlesOn(events[e].pay)}
Listing(d) == {e \in Ids : d \in SettlesOn(events[e].list)}

StopTriggered ==
  /\ config.stop # NoCap /\ ~stopActive
  /\ (peakNav - prevNav) * 100 >= config.stop * peakNav

\* Mutant: the payments of the day are booked before its ex dates.
MaturePaidFirst(d) ==
  /\ dayStart' = shares /\ shares' = shares /\ arrived' = Nothing
  /\ cash' = cash + SumFunctionOnSet(cashDue, Paying(d))
  /\ cashDue' = [e \in Ids |-> IF e \in OnEx(d) THEN CashAccrued(d)[e]
                              ELSE IF e \in Paying(d) THEN 0 ELSE cashDue[e]]
  /\ sharesDue' = SharesAccrued(d)
  /\ received' = [e \in Ids |-> IF e \in Paying(d) THEN [received[e] EXCEPT !.cash = @ + cashDue[e]]
                               ELSE received[e]]

\* Cash is paid and shares are listed on their dates; what was held this morning, and
\* only that, may be sold today.
Mature(d) ==
  LET listed == [i \in Instruments |->
                   SumFunctionOnSet(SharesAccrued(d), Listing(d) \cap Of(i))]
  IN /\ dayStart' = shares
     /\ cash' = cash + SumFunctionOnSet(CashAccrued(d), Paying(d))
     /\ cashDue' = [e \in Ids |-> IF e \in Paying(d) THEN 0 ELSE CashAccrued(d)[e]]
     /\ shares' = [i \in Instruments |-> shares[i] + listed[i]]
     /\ sharesDue' = [e \in Ids |-> IF e \in Listing(d) THEN 0 ELSE SharesAccrued(d)[e]]
     /\ arrived' = listed
     /\ received' = [e \in Ids |->
          [cash |-> received[e].cash + IF e \in Paying(d) THEN CashAccrued(d)[e] ELSE 0,
           shares |-> received[e].shares + IF e \in Listing(d) THEN SharesAccrued(d)[e] ELSE 0]]

\* The target share counts, at the open or, without one, at the previous close.
Target(w, q, i) ==
  LET price == IF q[i].open > 0 THEN q[i].open
               ELSE IF lastClose[i] = None THEN 1 ELSE lastClose[i]
  IN FloorLot((w[i] * prevNav) \div (100 * price), BuyLot[i])

OpenSession(q, w) ==
  /\ phase = "close" /\ day < Sessions
  /\ day = 0 => w = NoTargets
  /\ ~Fractional(day + 1)
  /\ LET flat == (stopActive \/ StopTriggered) \/ (config.terminal /\ day + 1 = Sessions)
     IN /\ stopActive' = (stopActive \/ StopTriggered)
        /\ desired' = IF flat \/ w = NoTargets THEN Nothing
                      ELSE [i \in Instruments |-> Target(w, q, i)]
        /\ Mature(day + 1)
        /\ pending' = IF ~flat /\ w = NoTargets THEN {}
                      ELSE {i \in Instruments : desired'[i] # shares'[i]}
  /\ phase' = "orders" /\ day' = day + 1
  /\ quote' = q /\ volume' = [i \in Instruments |-> quote[i].volume]
  /\ traded' = 0
  /\ UNCHANGED <<lastClose, reference, config, events, prevNav, peakNav, entitled>>

RefuseFraction == phase = "close" /\ day < Sessions /\ Fractional(day + 1) /\ Fail

-----------------------------------------------------------------------------
(* One order.  Each rule may only reduce what the rules before it left.    *)

Side(i) == IF Selling(i) THEN "sell" ELSE "buy"
Requested(i) == Most(desired[i] - shares[i], shares[i] - desired[i])
Lot(i) == IF Side(i) = "buy" THEN BuyLot[i] ELSE SellLot[i]
Limited(i) == quote[i].up > 0              \* has_price_limit

\* A position that is not a whole number of lots may leave as a whole.
OddLiquidation(i) == Side(i) = "sell" /\ Requested(i) = shares[i] /\ Requested(i) % Lot(i) # 0
Rounded(i, n) == IF OddLiquidation(i) /\ n >= Requested(i) THEN Requested(i) ELSE FloorLot(n, Lot(i))
Participation(i) == Least(Requested(i), Rounded(i, Pct(volume[i], config.participation)))

AtLimit(i) ==
  /\ Row(i) /\ Limited(i)
  /\ \/ Side(i) = "buy" /\ quote[i].open >= quote[i].up
     \/ Side(i) = "sell" /\ quote[i].open <= quote[i].down
OutsideBand(i) ==
  Row(i) /\ Limited(i) /\ ~(quote[i].down <= quote[i].open /\ quote[i].open <= quote[i].up)
\* Mutant: what is in the book may be sold, whenever it came.
TradableAnyDay(i) == IF quote[i].suspended \/ AtLimit(i) THEN 0 ELSE Participation(i)
Tradable(i) ==
  IF quote[i].suspended \/ AtLimit(i) THEN 0
  ELSE IF Side(i) = "sell" THEN Least(Participation(i), dayStart[i])
  ELSE Participation(i)

TurnoverBudget == Most(Pct(2 * prevNav, config.turnover) - traded, 0)
WithinTurnover(i) ==
  IF config.turnover = NoCap THEN Tradable(i)
  ELSE Least(Tradable(i), Rounded(i, TurnoverBudget \div quote[i].open))

\* After the gate the quantity is whole lots again, and its price inside the band.
Gated(i, answer) ==
  LET n == Least(WithinTurnover(i), answer)
  IN IF OddLiquidation(i) /\ n = Requested(i) THEN n ELSE FloorLot(n, Lot(i))
InBand(i, n) ==
  LET price == ExecutionCosts(Side(i), n, quote[i].open, volume[i]).net
  IN Limited(i) => quote[i].down <= price /\ price <= quote[i].up
CutTo(i, n, allowed) == IF n \in allowed THEN n ELSE BoundedQuantity(n, Lot(i), allowed)
Banded(i, n) == CutTo(i, n, {k \in 0..n : InBand(i, k)})

\* The three limits of a buy, each on the book as it would be after the buy.
Payment(i, n) == ExecutionCosts("buy", n, quote[i].open, volume[i]).value
\* Mutant: the caps are taken of the value before the costs of the buy.
NavBefore(i, n) == Nav("open")
NavAfter(i, n) == Nav("open") - Payment(i, n) + n * quote[i].open
ExposureAfter(i, n, j) == Exposure(j, "open") + IF j = i THEN n * quote[i].open ELSE 0
SingleAllowed(i, n) ==
  \A j \in Instruments : ExposureAfter(i, n, j) * 100 <= config.single * NavAfter(i, n)
IndustryAllowed(i, n) ==
  config.industry # NoCap =>
    \A g \in Range(Industry) :
      SumFunction([j \in {k \in Instruments : Industry[k] = g} |-> ExposureAfter(i, n, j)]) * 100
        <= config.industry * NavAfter(i, n)
CashAllowed(i, n) == (cash - Payment(i, n)) * 100 >= config.reserve * NavAfter(i, n)

\* In this order; none of them is looked at again.
Bought(i, n) ==
  LET single   == CutTo(i, n, {m \in 0..n : SingleAllowed(i, m)})
      industry == CutTo(i, single, {m \in 0..n : IndustryAllowed(i, m)})
      funded   == CutTo(i, industry, {m \in 0..n : CashAllowed(i, m)})
  IN IF funded < MinBuy[i] THEN 0 ELSE funded
Sold(i, n) ==
  IF cash + ExecutionCosts("sell", n, quote[i].open, volume[i]).value < 0 THEN 0 ELSE n

Filled(i, answer) ==
  IF ~Row(i) \/ Tradable(i) = 0 THEN 0
  ELSE LET n == Gated(i, answer)
       IN IF n = 0 THEN 0
          ELSE IF Side(i) = "buy" THEN Bought(i, Banded(i, n)) ELSE Sold(i, Banded(i, n))

\* The prices the engine refuses to trade on.
Refused(i, answer) ==
  \/ ~Row(i) /\ ~quote[i].suspended
  \/ OutsideBand(i)
  \/ /\ Side(i) = "buy" /\ Unmarkable
     /\ Row(i) /\ Tradable(i) > 0 /\ Gated(i, answer) > 0

Trade(answer) ==
  /\ phase = "orders"
  /\ \E i \in pending :
       LET n == Filled(i, answer)
           value == ExecutionCosts(Side(i), n, quote[i].open, volume[i]).value
       IN /\ Turn(i) /\ ~Refused(i, answer)
          /\ cash' = IF Side(i) = "buy" THEN cash - value ELSE cash + value
          /\ shares' = [shares EXCEPT ![i] = IF Side(i) = "buy" THEN @ + n ELSE @ - n]
          /\ arrived' = [arrived EXCEPT ![i] = IF Side(i) = "buy" THEN @ + n ELSE @]
          /\ traded' = traded + n * quote[i].open
          /\ pending' = pending \ {i}
  /\ UNCHANGED <<market, phase, desired, reference, dayStart, risk, claims>>

RefuseTrade(answer) ==
  phase = "orders" /\ (\E i \in pending : Turn(i) /\ Refused(i, answer)) /\ Fail

-----------------------------------------------------------------------------
(* The close: entitlements are locked on what is held now, the book marked. *)

LockedAtClose == [e \in Ids |-> IF events[e].record = day THEN shares[events[e].instrument]
                                ELSE entitled[e]]
Insolvent == Nav("close") <= 0 \/ cash < 0

\* A name suspended on its ex date goes on at the reference of that day.
ClosingMark(i) ==
  IF Row(i) THEN quote[i].close
  ELSE IF /\ \E e \in OnEx(day) : events[e].instrument = i
          /\ shares[i] > 0 \/ \E e \in Of(i) : sharesDue[e] > 0
       THEN LimitReference(i) ELSE lastClose[i]

CloseSession ==
  /\ phase = "orders" /\ pending = {} /\ ~Unmarkable /\ ~Insolvent
  /\ entitled' = LockedAtClose
  /\ prevNav' = Nav("close") /\ peakNav' = Most(peakNav, prevNav')
  /\ lastClose' = [i \in Instruments |-> ClosingMark(i)]
  /\ phase' = IF day = Sessions THEN "done" ELSE "close"
  /\ UNCHANGED <<day, quote, volume, book, desired, pending, arrived, reference, dayStart, traded,
                 config, events, stopActive, cashDue, sharesDue, received>>

RefuseClose == phase = "orders" /\ pending = {} /\ (Unmarkable \/ Insolvent) /\ Fail

-----------------------------------------------------------------------------
\* A window is replayed only with dividends whose dates are in order.
Schedulable(e) ==
  /\ e.record \in Calendar /\ e.ex \in Calendar /\ e.record < e.ex
  /\ e.cash > 0 => e.pay >= 2 * e.ex
  /\ e.stock > 0 => e.list >= 2 * e.ex
  /\ e.cash > 0 \/ e.stock > 0

SessionInit ==
  /\ events \in {set \in EventSets : \A e \in DOMAIN set : Schedulable(set[e])}
  /\ dayStart = Nothing /\ traded = 0
  /\ prevNav = Capital /\ peakNav = Capital /\ stopActive = FALSE
  /\ entitled = [e \in Ids |-> None]
  /\ cashDue = [e \in Ids |-> 0] /\ sharesDue = [e \in Ids |-> 0]
  /\ received = [e \in Ids |-> [cash |-> 0, shares |-> 0]]

Init == BookInit /\ SessionInit
=============================================================================
