----------------------------- MODULE MCRiskGate -----------------------------
(***************************************************************************)
(* Four names in two industries, three dates, a reserve and every cap in   *)
(* reach of the weights, some of them only of rounded or dropped ones;     *)
(* policies that allow, warn, resize and block; and orders around every    *)
(* limit of the order policy.                                              *)
(***************************************************************************)
EXTENDS RiskGate

MCNames == {"a", "b", "c", "d"}
Of(a, b, c, d) == [x \in MCNames |-> CASE x = "a" -> a [] x = "b" -> b [] x = "c" -> c [] x = "d" -> d]
MCRaws == {Of(600, 0, 600, 0), Of(0, 400, 0, 800), Of(600, 0, 0, 600), Of(500, 700, 0, 0)}
MCLabels == {Of("i", "j", "j", "i"), Of("i", "j", "j", "j"), Of("i", "j", "none", "j")}

Rule(id, operator, threshold, action, severity) ==
  [id |-> id, metric |-> id, operator |-> operator, threshold |-> threshold,
   action |-> action, severity |-> severity]
\* The membership of a policy is its own: it knows no b, and has c with a.
Policy(name, scope, from, rules) ==
  [name |-> name, scope |-> scope, approved |-> TRUE, from |-> from, to |-> 3, rules |-> rules,
   membership |-> Of("i", "none", "i", "j")]

MCPolicies == {
  Policy("mild", "portfolio", 1,
    {Rule("gross_stock_exposure", "less_than", 1000, "warn", "warning"),
     Rule("instrument_count", "less_than_or_equal", 2, "escalate_review", "warning")}),
  Policy("strict", "portfolio", 2,
    {Rule("max_single_weight", "less_than_or_equal", 500, "resize", "error"),
     Rule("turnover", "less_than_or_equal", 200, "resize", "critical"),
     Rule("industry_weight", "less_than_or_equal", 700, "block", "error")}),
  Policy("orders", "order", 1,
    {Rule("order_instrument_halt", "less_than", 0, "block_order", "critical"),
     Rule("order_limit_price", "greater_than", 0, "block_order", "error"),
     Rule("order_insufficient_cash", "greater_than_or_equal", 0, "block_order", "error"),
     Rule("order_t1_sellable_quantity", "greater_than_or_equal", 0, "resize", "error"),
     Rule("order_participation_limit", "less_than_or_equal", 20, "resize", "error"),
     Rule("order_notional_limit", "less_than_or_equal", 45, "resize", "error")}) }

MCOrders == {o \in [id : {1, 2}, side : {"buy", "sell"}, shares : {2, 5, 8}] :
               o.id = 2 => o.shares = 5}
MCContexts ==
  {c \in [price : {10}, slippage : {2}, cash : {40, 100}, volume : {0, 25, 40},
          held : {8}, sellable : {3, 8}, suspended : BOOLEAN, limit : {"none", "up"}] :
     /\ c.suspended => c.volume = 0 /\ c.limit = "none" /\ c.cash = 100
     /\ c.limit = "up" => c.volume = 40 /\ c.sellable = 3}
=============================================================================
