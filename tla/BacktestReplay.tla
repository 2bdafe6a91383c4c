---------------------------- MODULE BacktestReplay ----------------------------
(***************************************************************************)
(* The first engine, contracts v1 and v2: a session is marked at its       *)
(* close; when it carries a decision the orders are executed at the open   *)
(* of the next session before that session is marked, all or nothing under *)
(* a volume cap, between limits computed from the last close.              *)
(***************************************************************************)
EXTENDS BacktestBook

VARIABLES ahead     \* the panel of the session after this one

replayVars == <<config, market, book, phase, desired, pending, arrived, reference, ahead>>

Nav2 == cash + SumFunction([i \in Instruments |-> IF shares[i] = 0 THEN 0 ELSE shares[i] * lastClose'[i]])

\* A name without an open at the execution has no target.
Target2(w, q, i) ==
  IF q[i].open = 0 THEN 0
  ELSE Most(FloorLot((w[i] * Nav2) \div (100 * (q[i].open + Pct(q[i].open, config.slippage))),
                     BuyLot[i]), 0)

\* Mutant: the references are brought up to date by decisions only.
MarkDayStale(next, w) ==
  /\ phase = "close" /\ day < Sessions
  /\ day' = day + 1 /\ quote' = ahead /\ ahead' = next
  /\ volume' = [i \in Instruments |-> ahead[i].volume]
  /\ lastClose' = Seen(ahead, lastClose)
  /\ reference' = IF w = NoTargets THEN reference ELSE Seen(ahead, reference)
  /\ LET rebalance == w # NoTargets /\ day + 1 < Sessions
     IN /\ desired' = IF rebalance THEN [i \in Instruments |-> Target2(w, next, i)] ELSE Nothing
        /\ pending' = IF rebalance THEN {i \in Instruments : desired'[i] # shares[i]} ELSE {}
        /\ phase' = IF rebalance THEN "orders" ELSE IF day + 1 = Sessions THEN "done" ELSE "close"
  /\ arrived' = Nothing
  /\ UNCHANGED <<config, book>>

MarkDay(next, w) ==
  /\ phase = "close" /\ day < Sessions
  /\ day' = day + 1 /\ quote' = ahead /\ ahead' = next
  /\ volume' = [i \in Instruments |-> ahead[i].volume]
  /\ lastClose' = Seen(ahead, lastClose)
  /\ reference' = Seen(ahead, reference)
  /\ LET rebalance == w # NoTargets /\ day + 1 < Sessions
     IN /\ desired' = IF rebalance THEN [i \in Instruments |-> Target2(w, next, i)] ELSE Nothing
        /\ pending' = IF rebalance THEN {i \in Instruments : desired'[i] # shares[i]} ELSE {}
        /\ phase' = IF rebalance THEN "orders" ELSE IF day + 1 = Sessions THEN "done" ELSE "close"
  /\ arrived' = Nothing
  /\ UNCHANGED <<config, book>>

\* Suspended at the execution: no open, no volume, or listed as suspended.
Suspended2(i) == ahead[i].open = 0 \/ ahead[i].volume = 0 \/ ahead[i].suspended
PrevClose(i) == IF reference[i] = None THEN ahead[i].open ELSE reference[i]
LimitDown(i) == ahead[i].open * 100 <= PrevClose(i) * (100 - config.limit)
LimitUp(i) == ahead[i].open * 100 >= PrevClose(i) * (100 + config.limit)
VolumeCap(i) == FloorLot(Pct(volume[i], config.participation), BuyLot[i])

SellFill(i, answer) ==
  LET n == Least(shares[i] - desired[i], answer)
  IN IF LimitDown(i) \/ n > VolumeCap(i) THEN 0 ELSE n
Proceeds(i, n) ==
  LET gross == n * ahead[i].open
  IN gross - Pct(gross, config.commission) - Pct(gross, config.stamp)

Cost(i, n) ==
  LET paid == n * (ahead[i].open + Pct(ahead[i].open, config.slippage))
  IN paid + Pct(paid, config.commission)
BuyFill(i, answer) ==
  LET n == Least(Least(desired[i] - shares[i], answer), VolumeCap(i))
  IN IF LimitUp(i) \/ Cost(i, n) > cash THEN 0 ELSE n

SellOne(answer) ==
  /\ phase = "orders"
  /\ \E i \in pending :
       LET n == IF Suspended2(i) THEN 0 ELSE SellFill(i, answer)
       IN /\ Turn(i) /\ Selling(i)
          /\ cash' = cash + Proceeds(i, n)
          /\ shares' = [shares EXCEPT ![i] = @ - n]
          /\ pending' = pending \ {i}
  /\ UNCHANGED <<config, market, phase, desired, arrived, reference, ahead>>

BuyOne(answer) ==
  /\ phase = "orders"
  /\ \E i \in pending :
       LET n == IF Suspended2(i) THEN 0 ELSE BuyFill(i, answer)
       IN /\ Turn(i) /\ ~Selling(i)
          /\ cash' = cash - Cost(i, n)
          /\ shares' = [shares EXCEPT ![i] = @ + n]
          /\ arrived' = [arrived EXCEPT ![i] = @ + n]
          /\ pending' = pending \ {i}
  /\ UNCHANGED <<config, market, phase, desired, reference, ahead>>

\* The references move on with the closes of the execution session.
EndOrders ==
  /\ phase = "orders" /\ pending = {}
  /\ reference' = Seen(ahead, reference)
  /\ phase' = "close"
  /\ UNCHANGED <<config, market, book, desired, pending, arrived, ahead>>

ReplayInit == BookInit /\ ahead \in Panel(1)
=============================================================================
