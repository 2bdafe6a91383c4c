------------------------------- MODULE Backtest -------------------------------
(***************************************************************************)
(* A backtest run: the contract version of its config decides once which   *)
(* engine replays the window.                                              *)
(***************************************************************************)
EXTENDS BacktestSession, BacktestReplay

CONSTANT Versions       \* the contract versions a config may name
ASSUME VersionAssumption == Versions \subseteq 1..4

VARIABLE version

runVars == <<vars, ahead, version>>
Chronological == version \in {3, 4}

\* Contracts below 4 know no dividends.
RunInit ==
  /\ version \in Versions
  /\ SessionInit
  /\ version < 4 => Ids = {}
  /\ IF Chronological THEN BookInit /\ ahead = NoPanel ELSE ReplayInit

\* A step of the engine the version names; the other keeps its state.
V3Open(q, w)     == Chronological /\ OpenSession(q, w) /\ UNCHANGED <<ahead, version>>
V3Fraction       == Chronological /\ RefuseFraction /\ UNCHANGED <<ahead, version>>
V3Trade(answer)  == Chronological /\ Trade(answer) /\ UNCHANGED <<ahead, version>>
V3Refuse(answer) == Chronological /\ RefuseTrade(answer) /\ UNCHANGED <<ahead, version>>
V3Close          == Chronological /\ CloseSession /\ UNCHANGED <<ahead, version>>
V3Abort          == Chronological /\ RefuseClose /\ UNCHANGED <<ahead, version>>
V1Mark(next, w)  == ~Chronological /\ MarkDay(next, w) /\ UNCHANGED <<sessionVars, version>>
V1Sell(answer)   == ~Chronological /\ SellOne(answer) /\ UNCHANGED <<sessionVars, version>>
V1Buy(answer)    == ~Chronological /\ BuyOne(answer) /\ UNCHANGED <<sessionVars, version>>
V1End            == ~Chronological /\ EndOrders /\ UNCHANGED <<sessionVars, version>>

RunNext ==
  \/ \E q \in PanelAfter(day), w \in Weights \cup {NoTargets} : V3Open(q, w)
  \/ \E next \in PanelAfter(day + 1), w \in Weights \cup {NoTargets} : V1Mark(next, w)
  \/ \E answer \in GateAnswers : V3Trade(answer) \/ V3Refuse(answer) \/ V1Sell(answer) \/ V1Buy(answer)
  \/ V3Fraction \/ V3Close \/ V3Abort \/ V1End

RunSpec == RunInit /\ [][RunNext]_runVars
-----------------------------------------------------------------------------
(* The book is well formed, nothing is sold short or bought on credit, and *)
(* what arrived in a session is still there when it ends: neither a share  *)
(* bought today nor a bonus share listed today is sold before tomorrow     *)
(* (engine_v3.py:305, 411-415; engine.py:308-312).  Engine v3 refuses a sell *)
(* that would overdraw the cash; for contracts 1 and 2 it takes fees that    *)
(* are less than what is sold, and their schemas set no upper bound.         *)
SettledInventoryOnly ==
  /\ \A i \in Instruments : shares[i] \in Nat /\ 0 <= arrived[i] /\ arrived[i] <= shares[i]
  /\ cash >= 0

(* After every session each dividend stands where its dates put it: locked *)
(* from its record date, due from its ex date, received from the session   *)
(* its date settles on, and still due when that date lies after the window *)
(* (corporate_actions.py:61-66, engine_v3.py:306-348, 530-540).                     *)
ClaimsOnTime ==
  phase \in {"close", "done"} =>
    \A e \in Ids :
      LET accrued == day >= events[e].ex
          cashTotal == IF accrued THEN entitled[e] * events[e].cash ELSE 0
          shareTotal == IF accrued THEN (entitled[e] * events[e].stock) \div 2 ELSE 0
          paid == 2 * day >= events[e].pay
          listed == 2 * day >= events[e].list
      IN /\ (entitled[e] = None) = (day < events[e].record)
         /\ cashDue[e] = IF paid THEN 0 ELSE cashTotal
         /\ received[e].cash = IF paid THEN cashTotal ELSE 0
         /\ sharesDue[e] = IF listed THEN 0 ELSE shareTotal
         /\ received[e].shares = IF listed THEN shareTotal ELSE 0

(* A buy of the chronological engine leaves every name and industry within *)
(* its cap, the reserve in cash and the session within its turnover, all   *)
(* four of the book after the buy at once although each was cut to on its  *)
(* own (engine_v3.py:416-424, 458-507).                                    *)
BuyIsWithinLimits ==
  [][ \A i \in Instruments :
        (phase = "orders" /\ phase' = "orders" /\ Chronological /\ shares'[i] > shares[i]) =>
          LET at == [j \in Instruments |-> Exposure(j, "open")']
              nav == cash' + Claimed + SumFunction(at)
          IN /\ config.turnover # NoCap => traded' <= Pct(2 * prevNav, config.turnover)
             /\ cash' * 100 >= config.reserve * nav
             /\ \A j \in Instruments : at[j] * 100 <= config.single * nav
             /\ config.industry # NoCap =>
                  \A g \in Range(Industry) :
                    SumFunctionOnSet(at, {j \in Instruments : Industry[j] = g}) * 100
                      <= config.industry * nav ]_runVars

(* The first engine compares an order with the last close printed before   *)
(* its execution session, however many sessions without a decision lie in  *)
(* between (engine.py:231-260, 500-504).                                   *)
LimitReferenceFresh ==
  (~Chronological /\ phase = "orders") => reference = lastClose

(* The entitlements follow the abstract ledger of dividends.               *)
Dividends == INSTANCE DividendLedger
DividendSpec == Dividends!Spec
=============================================================================
