------------------------------ MODULE RiskGate ------------------------------
(***************************************************************************)
(* The portfolio stage, which builds and publishes one partition of target  *)
(* weights per decision date (research_chain/adapters.py, portfolio/        *)
(* builder.py), and PortfolioPublicationRiskGate (risk/adapter.py), which   *)
(* judges a published partition, or every order of a backtest, and files    *)
(* its evidence in the risk stores.                                         *)
(*                                                                          *)
(* The stores are the sets of what they hold: WriteOnce has how a document  *)
(* gets into one.  Publishing what is there raises, except the partitions,  *)
(* which the stage recovers.  A call that raises or dies is repeated.       *)
(***************************************************************************)
EXTENDS TargetWeights

CONSTANTS Dates,        \* 1..n, the decision dates of the run
          Raws,         \* what the schemes make of the scores
          Labels,       \* industries of a date, "none" where a fact is missing
          Policies,     \* the risk policies that a gate may be given
          Orders,       \* candidate orders of a backtest and
          Contexts,     \* the contexts of their execution
          Engines,      \* "v1", "v3": the engine that runs a gated backtest
          MaxOrders,    \* BOUND: decisions of the gated backtests
          MaxStops,     \* BOUND: interruptions
          MaxCalls      \* BOUND: gate calls and gated backtests

ASSUME StageAssumption == Dates \in Nat /\ Raws \subseteq [Names -> Nat]
ASSUME PolicyAssumption ==
  \A policy \in Policies : policy.scope = "order" => \A rule \in policy.rules :
    rule.threshold \in Nat /\ \E i \in DOMAIN Severities : Severities[i] = rule.severity

\* What evaluate_order requires of its arguments.
ASSUME CandidateAssumption ==
  /\ \A o \in Orders : o = [id |-> o.id, side |-> o.side, shares |-> o.shares]
                       /\ o.side \in {"buy", "sell"} /\ o.shares \in Nat \ {0}
  /\ \A c \in Contexts : /\ c.price \in Nat \ {0} /\ c.slippage \in Nat /\ c.volume \in Nat
                         /\ c.cash \in Int /\ c.sellable \in Nat /\ c.held \in Nat
                         /\ c.suspended \in BOOLEAN

VARIABLES caller,     \* "stage": portfolio stage and gate; "backtest": gated orders
          facts,      \* scores and labels of each date, read from immutable stores
          weights,    \* store: the generations of target weights of each date
          chain,      \* the partitions this attempt of the stage goes on from
          status,     \* of the stage: "runs", "stopped", "refused", "passed"
          call,       \* the gate call in hand
          calls,      \* how many there have been
          evidence,   \* stores: policies, decisions, events and runs
          gated,      \* what the gated backtest of this call has decided so far
          traded,     \* orders executed under a decision
          stops

vars == <<caller, facts, weights, chain, status, call, calls, evidence, gated, traded, stops>>
stageVars == <<facts, weights, chain, status>>
gateVars == <<call, calls, evidence, gated, traded>>

NoCall == [at |-> "idle"]
Stored(kind) == {e.of : e \in {x \in evidence : x.kind = kind}}
File(kind, document) == evidence' = evidence \cup {[kind |-> kind, of |-> document]}

Init ==
  /\ caller \in {"stage", "backtest"}
  /\ facts = <<>> /\ weights = [d \in 1..Dates |-> {}] /\ chain = <<>>
  /\ status = (IF caller = "stage" THEN "runs" ELSE "passed")
  /\ call = NoCall /\ calls = 0 /\ evidence = {} /\ gated = <<>> /\ traded = {}
  /\ stops = 0

-----------------------------------------------------------------------------
(* The portfolio stage                                                     *)

\* The predictions and the industry facts of a date are published before the
\* stage runs: every attempt reads the same.
Known(date) == date <= Len(facts)
ReadFacts ==
  /\ status = "runs" /\ Len(chain) < Dates /\ ~Known(Len(chain) + 1)
  /\ \E s \in Selections(Names), raw \in Raws, label \in Labels :
       /\ \A x \in Names : raw[x] > 0 => x \in s
       /\ facts' = Append(facts, [selected |-> s, raw |-> raw, label |-> label])
  /\ UNCHANGED <<caller, weights, chain, status, gateVars, stops>>

Published == {d \in 1..Dates : weights[d] # {}}
\* Mutant: the weights before are the newest partition in the store.
PreviousOnDisk ==
  IF Published = {} THEN NoWeights ELSE (CHOOSE p \in weights[Max(Published)] : TRUE).target

\* The weights before are those this attempt has published or recovered.
Previous == IF chain = <<>> THEN NoWeights ELSE chain[Len(chain)]

Target(date) ==
  Build(facts[date].selected, facts[date].raw, facts[date].label, Previous, chain = <<>>)

\* A partition names the one it was built on.  The same one is recovered when it is
\* there already; another one would be one more generation of its date.
PublishTarget ==
  /\ status = "runs" /\ Len(chain) < Dates /\ Known(Len(chain) + 1)
  /\ LET date == Len(chain) + 1
     IN  \/ /\ Target(date) = {}
            /\ status' = "refused" /\ UNCHANGED <<weights, chain>>
         \/ \E target \in Target(date) :
              /\ weights' = [weights EXCEPT ![date] =
                               @ \cup {[target |-> target, before |-> Previous]}]
              /\ chain' = Append(chain, target)
              /\ UNCHANGED status
  /\ UNCHANGED <<caller, facts, gateVars, stops>>

PassStage ==
  /\ status = "runs" /\ Len(chain) = Dates
  /\ status' = "passed"
  /\ UNCHANGED <<caller, facts, weights, chain, gateVars, stops>>

StopStage ==
  /\ status = "runs" /\ chain # <<>> /\ stops < MaxStops
  /\ status' = "stopped" /\ stops' = stops + 1
  /\ UNCHANGED <<caller, facts, weights, chain, gateVars>>

\* A refused stage is retried as well, and refused again.
RetryStage ==
  /\ status = "stopped"
  /\ status' = "runs" /\ chain' = <<>>
  /\ UNCHANGED <<caller, facts, weights, gateVars, stops>>

-----------------------------------------------------------------------------
(* gate(): one partition of the stage that has passed                      *)

Before(date) == IF date = 1 THEN NoWeights ELSE chain[date - 1]
Judged(policy, date) == EvaluatePortfolio(policy, date, chain[date], Before(date))

EvaluateTarget ==
  /\ caller = "stage" /\ status = "passed" /\ call = NoCall /\ calls < MaxCalls
  /\ \E policy \in Policies, date \in 1..Dates :
       /\ policy.scope = "portfolio" /\ Judged(policy, date) # Raised
       /\ call' = [at |-> "policy", policy |-> policy, date |-> date,
                   action |-> Judged(policy, date)]
  /\ calls' = calls + 1
  /\ UNCHANGED <<caller, stageVars, evidence, gated, traded, stops>>

\* The next step of the call, or the end of it when the store has the document.
Publish(at, kind, document, next) ==
  /\ call.at = at
  /\ IF document \in Stored(kind) THEN call' = NoCall /\ UNCHANGED evidence
     ELSE call' = next /\ File(kind, document)
  /\ UNCHANGED <<caller, stageVars, calls, stops>>

To(at) == [call EXCEPT !.at = at]
Decision == [policy |-> call.policy.name, date |-> call.date, action |-> call.action]

\* The policy is published by every call, so a second one under it raises.
PublishPolicy == Publish("policy", "policy", call.policy.name, To("decision")) /\ UNCHANGED <<gated, traded>>

PublishDecision ==
  Publish("decision", "decision", Decision,
          IF call.action \in Executable THEN To("event") ELSE NoCall) /\ UNCHANGED <<gated, traded>>
PublishEvent == Publish("event", "event", Decision, To("run")) /\ UNCHANGED <<gated, traded>>
PublishRun == Publish("run", "run", Decision, NoCall) /\ UNCHANGED <<gated, traded>>

-----------------------------------------------------------------------------
(* run_with_risk_gate(): every candidate order of a backtest               *)

StartBacktest ==
  /\ caller = "backtest" /\ call = NoCall /\ calls < MaxCalls
  /\ \E policy \in Policies, engine \in Engines :
       policy.scope = "order" /\ call' = [at |-> "order", policy |-> policy, engine |-> engine]
  /\ gated' = <<>> /\ calls' = calls + 1
  /\ UNCHANGED <<caller, stageVars, evidence, traded, stops>>

Seen(order) == \E k \in DOMAIN gated : gated[k].order.id = order.id

\* The gate raises into the engine when it cannot evaluate a candidate. It reads
\* limit_ratio from the context, which the engine of contracts 3 and 4 leaves out.
Sound(order, context) == ~Seen(order) /\ Evaluable(call.policy, order, context, 1)
Readable == call.engine = "v1"

EvaluateCandidate ==
  /\ call.at = "order" /\ Cardinality(Stored("decision")) < MaxOrders
  /\ \E order \in Orders, context \in Contexts :
       IF ~Readable \/ ~Sound(order, context)
       THEN call' = [at |-> "raised"] /\ UNCHANGED gated
       ELSE LET decision == OrderDecision(call.policy, order, context)
                verdict == [order |-> order, context |-> context, decision |-> decision]
            IN  gated' = Append(gated, verdict) /\ call' = To("verdict")
  /\ UNCHANGED <<caller, stageVars, calls, evidence, traded, stops>>

AbortBacktest ==
  /\ call.at = "raised" /\ call' = NoCall
  /\ UNCHANGED <<caller, stageVars, calls, evidence, gated, traded, stops>>

Verdict == gated[Len(gated)]
PublishVerdict ==
  Publish("verdict", "decision", Verdict, To("notice")) /\ UNCHANGED <<gated, traded>>
PublishNotice == Publish("notice", "event", Verdict, To("execute")) /\ UNCHANGED <<gated, traded>>

ExecuteCandidate ==
  /\ call.at = "execute"
  /\ traded' = traded \cup {[verdict |-> Verdict, policy |-> call.policy,
                             shares |-> Executed(Verdict.order, Verdict.decision)]}
  /\ call' = To("order")
  /\ UNCHANGED <<caller, stageVars, calls, evidence, gated, stops>>

\* The engine has returned; a backtest without a decision leaves no run.
EndBacktest ==
  /\ call.at = "order"
  /\ IF gated = <<>> THEN call' = NoCall ELSE call' = To("record")
  /\ UNCHANGED <<caller, stageVars, calls, evidence, gated, traded, stops>>
PublishRecord == Publish("record", "run", gated, NoCall) /\ UNCHANGED <<gated, traded>>

\* The call raises, or its process dies, between two publications.
StopCall ==
  /\ call # NoCall /\ stops < MaxStops
  /\ call' = NoCall /\ stops' = stops + 1
  /\ UNCHANGED <<caller, stageVars, calls, evidence, gated, traded>>

Stage == ReadFacts \/ PublishTarget \/ PassStage \/ RetryStage
Next ==
  \/ Stage \/ StopStage
  \/ EvaluateTarget \/ PublishPolicy \/ PublishDecision \/ PublishEvent \/ PublishRun
  \/ StartBacktest \/ EvaluateCandidate \/ PublishVerdict \/ PublishNotice
  \/ AbortBacktest \/ ExecuteCandidate \/ EndBacktest \/ PublishRecord \/ StopCall

Spec == Init /\ [][Next]_vars

-----------------------------------------------------------------------------
(* Properties                                                              *)

Limit(id, operator, threshold) ==
  [id |-> id, metric |-> id, operator |-> operator, threshold |-> threshold,
   action |-> "block", severity |-> "error"]

\* What a blend may add to limits it keeps but for its rounding and its dropping of
\* small weights: half a grain to each name of each date, and to the turnover the
\* tolerance for each name it drops, of which the gate's own tolerance takes up two.
Dropped(p) == {x \in Names : p.before[x] > 0 /\ p.target[x] = 0}
RoundedUp(date) == (date - 1) * Cardinality(Names) * HalfGrain
Strayed(p) == Cardinality(Dropped(p)) * Tolerance + Cardinality(Names \ Dropped(p)) * HalfGrain
Overturned(p) == (Max({0, Strayed(p) - 2 * Tolerance}) + 1) \div 2

\* A policy whose limits are the constraints of the portfolio definition, eased by
\* the above and by half a grain for the rounding of the metrics, and whose
\* membership has the industries the builder went by.
OwnLimits(date, p) ==
  LET sum == RoundedUp(date) + HalfGrain
  IN  [name |-> "own", scope |-> "portfolio", approved |-> TRUE, from |-> 1, to |-> Dates,
       membership |-> facts[date].label,
       rules |-> {Limit("gross_stock_exposure", "less_than_or_equal", Full - Reserve + sum),
                  Limit("cash_reserve", "greater_than_or_equal", Reserve - sum),
                  Limit("max_single_weight", "less_than_or_equal", MaxSingle)}
         \cup (IF CapsIndustry
               THEN {Limit("industry_weight", "less_than_or_equal", MaxIndustry + HalfGrain)} ELSE {})
         \cup (IF date = 1 THEN {}
               ELSE {Limit("turnover", "less_than_or_equal",
                           MaxTurnover + HalfGrain + Overturned(p))})]

\* Builder and gate compute exposure, single name, industry, cash and turnover
\* apart, over dates whose weights grow out of each other: every partition the
\* builder has ever published passes a policy with the definition's own limits
\* (turnover from the second date on), eased by no more than rounding and dropping
\* may add, whatever scores and industries do in between.
TargetsPassOwnLimits ==
  \A d \in 1..Dates : \A p \in weights[d] :
    EvaluatePortfolio(OwnLimits(d, p), d, p.target, p.before) = "allow"

\* A stage that was interrupted after some of its dates goes on where it was: what
\* it builds again is what is on disk, so that no date ever has a second
\* generation, and what refuses it is a date that has none.
StageResumes ==
  /\ \A d \in 1..Dates : \A p, q \in weights[d] : p = q
  /\ \A d \in DOMAIN chain : weights[d] = {[target |-> chain[d], before |-> Before(d)]}
  /\ status = "refused" => weights[Len(chain) + 1] = {}

\* An order is executed under a decision that is on disk with its event, and
\* what is left of it after a resize passes every rule of the policy that cut
\* it, in the same context.
TradedIsAllowed ==
  \A t \in traded :
    /\ t.verdict \in Stored("decision") \cap Stored("event")
    /\ t.shares > 0 =>
         OrderDecision(t.policy, [t.verdict.order EXCEPT !.shares = t.shares],
                       t.verdict.context).action \in Executable

=============================================================================
