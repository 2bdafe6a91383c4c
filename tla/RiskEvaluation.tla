--------------------------- MODULE RiskEvaluation ---------------------------
(***************************************************************************)
(* What a risk policy says of a portfolio and of an order (risk/engine.py). *)
(* Findings are a set: the order by priority and rule id decides how they   *)
(* are listed and nothing else.  Signatures, digests and the wording of     *)
(* documents are taken as intact.                                           *)
(***************************************************************************)
EXTENDS Integers, Sequences, FiniteSets, FiniteSetsExt, Functions

CONSTANTS Full,         \* the weight of the whole portfolio: 1.0 of the code
          Tolerance,    \* _WEIGHT_TOLERANCE, 1e-8
          HalfGrain,    \* half of the twelfth decimal, to which weights are rounded
          Lot           \* board_lot

\* A unit of weight is what a float tells apart.
ASSUME RiskAssumption ==
  /\ Full \in Nat \ {0} /\ Lot \in Nat \ {0}
  /\ HalfGrain \in Nat \ {0} /\ Tolerance \in Nat /\ 2 * HalfGrain <= Tolerance

Actions == <<"block", "halt_strategy", "flatten", "de_risk", "block_new_buy",
             "block_order", "resize", "escalate_review", "warn", "allow">>
Severities == <<"critical", "error", "warning">>
Executable == {"allow", "warn"}

Place(list, entry) == CHOOSE i \in DOMAIN list : list[i] = entry

\* Of two failed rules the stronger action decides, then the severity.
Decides(rule, other) ==
  LET a == Place(Actions, rule.action)  b == Place(Actions, other.action)
  IN  \/ a < b
      \/ a = b /\ Place(Severities, rule.severity) <= Place(Severities, other.severity)

Action(failed) ==
  IF failed = {} THEN "allow"
  ELSE (CHOOSE rule \in failed : \A other \in failed : Decides(rule, other)).action

\* A policy that is approved, reviewed, of the right scope and without a rule
\* named twice binds on the dates it is effective for.
Binds(policy, scope, date) ==
  /\ policy.scope = scope /\ policy.approved
  /\ date \in policy.from..policy.to
  /\ \A r, q \in policy.rules : r.id = q.id => r = q

-----------------------------------------------------------------------------
(* A portfolio: weights, previous weights and industries by instrument     *)

Abs(n) == IF n < 0 THEN -n ELSE n

\* round(n / d, 12): the multiple of the twelfth decimal that is nearest to a quotient.
Grain == 2 * HalfGrain
Nearest(n, d) == Grain * ((n + d * HalfGrain) \div (d * Grain))

Gross(w) == SumFunction(w)
\* An instrument of no known industry is in none.
Industries(w, label) == {label[x] : x \in DOMAIN w} \ {"none"}
IndustryWeight(w, label) ==
  Max({0} \cup {SumFunctionOnSet(w, {x \in DOMAIN w : label[x] = i}) : i \in Industries(w, label)})
\* Turnover is half the sum of moves.
Moves(w, prev) == SumFunction([x \in DOMAIN w |-> Abs(w[x] - prev[x])])

Metric(name, w, prev, label) ==
  CASE name = "gross_stock_exposure" -> Nearest(Gross(w), 1)
    [] name = "max_single_weight" -> Nearest(Max({0} \cup {w[x] : x \in DOMAIN w}), 1)
    [] name = "instrument_count" -> Cardinality({x \in DOMAIN w : w[x] > 0})
    [] name = "industry_weight" -> Nearest(IndustryWeight(w, label), 1)
    [] name = "turnover" -> Nearest(Moves(w, prev), 2)
    [] name = "cash_reserve" -> Nearest(Max({0, Full - Gross(w)}), 1)

Compare(observed, operator, threshold) ==
  CASE operator = "greater_than" -> observed > threshold
    [] operator = "greater_than_or_equal" -> observed >= threshold - Tolerance
    [] operator = "less_than" -> observed < threshold
    [] operator = "less_than_or_equal" -> observed <= threshold + Tolerance

Raised == "raised"

\* Only four rules can be turned into a fraction to resize to.
Resizes(rule) == rule.metric \in {"gross_stock_exposure", "max_single_weight",
                                  "industry_weight", "cash_reserve"}

\* The industries are those of the membership artifact that the policy binds; an
\* industry rule needs one for every instrument of some weight.
EvaluatePortfolio(policy, date, w, prev) ==
  LET failed == {r \in policy.rules :
                   ~Compare(Metric(r.metric, w, prev, policy.membership), r.operator, r.threshold)}
      unlabelled == \E r \in policy.rules : r.metric = "industry_weight" /\
                      \E x \in DOMAIN w : w[x] > Tolerance /\ policy.membership[x] = "none"
  IN  IF \/ ~Binds(policy, "portfolio", date) \/ unlabelled
         \/ Action(failed) = "resize" /\ ~\E r \in failed : Resizes(r)
      THEN Raised ELSE Action(failed)

-----------------------------------------------------------------------------
(* An order: side and shares, in the context of its execution              *)

Slipped(context) == context.price + context.slippage

\* A sell is credited with what may be sold, a buy charged for all it asks.
CashAfter(order, context) ==
  IF order.side = "sell"
  THEN context.cash + Min({order.shares, context.sellable}) * context.price
  ELSE context.cash - order.shares * Slipped(context)

\* Participation is in per cent of the volume of the decision date.
OrderFails(rule, order, context) ==
  CASE rule.id = "order_instrument_halt" -> context.suspended
    [] rule.id = "order_limit_price" ->
         context.limit = (IF order.side = "buy" THEN "up" ELSE "down")
    [] rule.id = "order_insufficient_cash" ->
         order.side = "buy" /\ CashAfter(order, context) < 0
    [] rule.id = "order_t1_sellable_quantity" ->
         order.side = "sell" /\ order.shares > context.sellable
    [] rule.id = "order_participation_limit" ->
         context.volume = 0 \/ order.shares * 100 > rule.threshold * context.volume
    [] rule.id = "order_notional_limit" -> order.shares * context.price > rule.threshold

Floored(shares) == (shares \div Lot) * Lot
Sellable(order, context, shares) ==
  IF order.side = "sell" THEN Min({shares, context.sellable, order.shares}) ELSE shares

\* Mutant: the notional of a resized order is that of an order without slippage,
\* and is rounded to the next lot.
AllowedSharesRoundedUp(rule, order, context) ==
  CASE rule.id = "order_t1_sellable_quantity" -> Min({order.shares, context.sellable})
    [] rule.id = "order_participation_limit" ->
         Sellable(order, context, Floored((context.volume * rule.threshold) \div 100 + Lot))
    [] OTHER -> Sellable(order, context, Floored(rule.threshold \div context.price))

\* What a failed rule leaves of an order that may be resized.
AllowedShares(rule, order, context) ==
  CASE rule.id = "order_t1_sellable_quantity" -> Min({order.shares, context.sellable})
    [] rule.id = "order_participation_limit" ->
         Sellable(order, context, Floored((context.volume * rule.threshold) \div 100))
    [] rule.id = "order_notional_limit" ->
         Sellable(order, context, Floored(rule.threshold \div Slipped(context)))

OrderDecision(policy, order, context) ==
  LET failed == {r \in policy.rules : OrderFails(r, order, context)}
      action == Action(failed)
      resizing == {r \in failed : r.action = "resize"}
  IN  [action |-> action,
       allowed |-> IF action = "resize" THEN {AllowedShares(r, order, context) : r \in resizing}
                   ELSE {}]

\* An order rule has the one action its id may have.
OrderActions ==
  [order_notional_limit |-> "resize", order_participation_limit |-> "resize",
   order_t1_sellable_quantity |-> "resize", order_insufficient_cash |-> "block_order",
   order_instrument_halt |-> "block_order", order_limit_price |-> "block_order"]
Normative(rule) == rule.id \in DOMAIN OrderActions /\ rule.action = OrderActions[rule.id]

\* What evaluate_order raises on.
Evaluable(policy, order, context, date) ==
  /\ Binds(policy, "order", date)
  /\ \A rule \in policy.rules : Normative(rule)
  /\ context.sellable <= context.held
  /\ order.side = "sell" => order.shares <= context.held

\* What the engine may execute under a decision.
Executed(order, decision) ==
  CASE decision.action \in Executable -> order.shares
    [] decision.action = "resize" -> Min({order.shares} \cup decision.allowed)
    [] OTHER -> 0
=============================================================================
