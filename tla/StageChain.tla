----------------------------- MODULE StageChain -----------------------------
(***************************************************************************)
(* The hand-offs of a research run: what each stage of ResearchChainRunner *)
(* .execute reads from the plan, from the stores and from the memory of    *)
(* the adapters, and what it publishes, with retries in the same process   *)
(* or in a new one (research_chain/runner.py, adapters.py).                *)
(*                                                                         *)
(* An adapter keeps its last result in memory; the next stage takes it     *)
(* from there.  A retry folds the stages whose state is a passed one into  *)
(* its plan, skips them and restores those results from the stores.  The   *)
(* directories of the ledger, the request and the resolution state are the *)
(* subject of ResearchRun and are left out here: the state of a stage      *)
(* appears at once.                                                        *)
(***************************************************************************)
EXTENDS ChainDocuments

CONSTANTS
  Requests,   \* the requests a run may be made for
  Runners,    \* the runners that may execute the run
  Attempts,   \* the arguments an execute may be given: the provider's address,
              \* the declared qlib version, the decision dates ({}: the test
              \* split's), the dates of the score file ({}: none) and the risk
              \* documents
  Runtime,    \* the version of qlib that is installed
  TestDates,  \* the sessions of the dataset's test split
  Exported,   \* the sessions of the exported calendar
  Calendar,   \* the sessions of the calendar the backtest config binds
  Bytes,      \* what a training may yield
  MaxFaults,  \* BOUND: errors over the life of the run
  MaxCrashes  \* BOUND: process deaths over the life of the run

ASSUME ChainAssumption ==
  /\ TestDates # {} /\ TestDates \subseteq Exported /\ Exported \subseteq Nat \ {NoDate}
  /\ MaxFaults \in Nat /\ MaxCrashes \in Nat
  /\ \A a \in Attempts : a.dates \subseteq Nat \ {NoDate}

VARIABLES
  request,  \* its version, the action of the risk decision it binds, and
            \* whether its reviewer signs afresh for every attempt
  store,    \* the documents of each store
  states,   \* the recorded state of each stage
  results,  \* the published results
  memory,   \* the last results the adapters of each process hold
  run,      \* the execute each runner is in
  faults, crashes

vars == <<request, store, states, results, memory, run, faults, crashes>>

Plan == StagePlan(request.version)
Nothing == [model |-> {}, prediction |-> {}, portfolio |-> {}, paper |-> {}]
Idle == [pc |-> "idle", stage |-> Stages[1], plan |-> [s \in ToSet(Stages) |-> <<>>],
         done |-> {}, out |-> <<>>, args |-> {}]
NoState == [status |-> "none", bindings |-> <<>>]

-----------------------------------------------------------------------------
(* Steps of an execute                                                     *)

Bound(r, stage, family) == TheBinding(run[r].plan[stage], family)
Args(r) == CHOOSE a \in run[r].args : TRUE

GoTo(r, pc) == run' = [run EXCEPT ![r].pc = pc]
Raise(r) == GoTo(r, "failing")

\* The stage r is in, which it has not found completed.
In(r, stage) == run[r].pc = stage /\ stage \notin run[r].done

Enter(r, stage) == run' = [run EXCEPT ![r].pc = stage, ![r].stage = stage, ![r].out = <<>>]

Following(r) ==
  IF run[r].stage = "prediction_publication" THEN "risk_gate"
                                             ELSE After(Plan, run[r].stage)
Proceed(r) == [run EXCEPT ![r].pc = Following(r), ![r].out = <<>>,
                          ![r].stage = After(Plan, run[r].stage)]

\* A document and the binding that will name it.
Put(family, doc) == store' = [store EXCEPT ![family] = @ \cup {doc}]
Bind(r, pc, bindings) == run' = [run EXCEPT ![r].pc = pc, ![r].out = @ \o bindings]

\* _validate_plan: requests of versions 3 and 4 are refused; the digests of any
\* other are intact.
ValidPlan == request.version \notin {3, 4}

\* build_stage_state: the record of a stage that has ended well.
StageState(bindings) == [status |-> "passed", bindings |-> bindings]

\* execute is called.
Execute(r, a) ==
  /\ run[r].pc = "idle" /\ ValidPlan
  /\ run' = [run EXCEPT ![r] = [Idle EXCEPT !.pc = "resume", !.args = {a}]]
  /\ UNCHANGED <<request, store, states, results, memory, faults, crashes>>

-----------------------------------------------------------------------------
(* Resuming                                                                *)

Passed == {s \in ToSet(Plan) : states[s].status = "passed"}

\* The plan of an attempt: the resolver's bindings and what has passed.
ResumedPlan ==
  [s \in ToSet(Stages) |->
     IF s \in Passed THEN ApplyBindings(Inputs(s), states[s].bindings) ELSE Inputs(s)]

\* _restored_model_result
RestoredModel(plan) ==
  {a \in TheBinding(plan["model_training"], "model_artifact") :
     a \in store.model_artifact /\ a.run \in store.model_run}

\* _restored_prediction_result
RestoredPrediction(plan) ==
  {LatestBinding(OfFamily(plan["prediction_publication"], "prediction_set")).gen}

\* _restored_portfolio_result
RestoredPortfolio(plan) ==
  {[definition |->
      Definition(LatestBinding(plan["prediction_publication"]).gen),
    weights |-> ByDate(OfFamily(plan["portfolio_construction"], "target_weights")),
    state |-> states["portfolio_construction"].bindings]}

\* Mutant: nothing is restored, a stage finds what it needs in the stores.
ResumeOnly(r) ==
  /\ run[r].pc = "resume"
  /\ run' = [run EXCEPT ![r].pc = Stages[1], ![r].plan = ResumedPlan, ![r].done = Passed]
  /\ UNCHANGED <<request, store, states, results, memory, faults, crashes>>

\* _restore_cross_stage_state: what the adapters hold, once the stages that have
\* passed are restored.
Restored(held, plan) ==
  [held EXCEPT
     !.model = IF "model_training" \in Passed THEN RestoredModel(plan) ELSE @,
     !.prediction = IF {"model_training", "prediction_publication"} \subseteq Passed
                      THEN RestoredPrediction(plan) ELSE @,
     !.portfolio = IF {"model_training", "portfolio_construction"} \subseteq Passed
                     THEN RestoredPortfolio(plan) ELSE @]

\* _resume_from_passed_stages
Resume(r) ==
  /\ run[r].pc = "resume"
  /\ run' = [run EXCEPT ![r].pc = Stages[1], ![r].plan = ResumedPlan, ![r].done = Passed]
  /\ memory' = [memory EXCEPT ![r] = Restored(memory[r], ResumedPlan)]
  /\ UNCHANGED <<request, store, states, results, faults, crashes>>

\* A stage that has passed is not run again.
Skip(r) ==
  /\ run[r].pc \in run[r].done
  /\ run' = Proceed(r)
  /\ UNCHANGED <<request, store, states, results, memory, faults, crashes>>

-----------------------------------------------------------------------------
(* From the factors to the model                                           *)

\* FactorStageAdapter.run: the partition is published already.
Factors(r) ==
  /\ In(r, "factor_computation")
  /\ Bind(r, "state", Republished("factor_computation"))
  /\ UNCHANGED <<request, store, states, results, memory, faults, crashes>>

\* DatasetStageAdapter.run: the module TrainingInputs is about its rows.
Prepare(r) ==
  /\ In(r, "dataset_preparation")
  /\ Put("model_dataset", Dataset)
  /\ Bind(r, "state", <<Binding("model_dataset", Dataset, NoDate)>>
                        \o Republished("dataset_preparation"))
  /\ UNCHANGED <<request, states, results, memory, faults, crashes>>

\* QlibDatasetExporter.export and find_reusable_export: the address is no part of
\* the identity, but an export is reused for the address it was made for only.
Exportable(uri) == store.qlib_dataset_export \subseteq {uri}

\* QlibExportStageAdapter.run up to the receipt; the state covers both.
Export(r) ==
  /\ In(r, "qlib_export")
  /\ IF Exportable(Args(r).uri)
       THEN /\ Put("qlib_dataset_export", Args(r).uri)
            /\ Bind(r, "receipt", <<Binding("qlib_dataset_export", Dataset, NoDate)>>)
       ELSE Raise(r) /\ UNCHANGED store
  /\ UNCHANGED <<request, states, results, memory, faults, crashes>>

\* QlibInitReceiptBuilder.build
Attest(r) ==
  /\ run[r].pc = "receipt"
  /\ Put("qlib_init_receipt", Receipt(Args(r).qlib))
  /\ Bind(r, "state", <<Binding("qlib_init_receipt", Receipt(Args(r).qlib), NoDate)>>)
  /\ UNCHANGED <<request, states, results, memory, faults, crashes>>

\* A reviewer that signs afresh does so for published documents as well: only the
\* reviews of the inputs are looked up (_published_quality_checksum).
SignedAgain(family) ==
  request.afresh /\ family \notin {"feature_preprocessing", "sample_construction"}

\* ModelRunBuilder.build: the record of a run is written once, with the checksum
\* of its review; one with another review is a conflict.
RecordRun(r) ==
  /\ In(r, "model_training")
  /\ \E receipt \in Bound(r, "qlib_export", "qlib_init_receipt") :
       IF ModelRun(receipt) \in store.model_run /\ SignedAgain("model_run")
         THEN Raise(r) /\ UNCHANGED store
         ELSE /\ Put("model_run", ModelRun(receipt))
              /\ Bind(r, "train", <<Binding("model_run", ModelRun(receipt), NoDate)>>)
  /\ UNCHANGED <<request, states, results, memory, faults, crashes>>

\* QlibRuntimeTrainer.train, and ArtifactStore.publish up to its review: the
\* receipt must name the qlib that runs.  An artifact that is there is recovered;
\* its review on its own is refused, for the refusal names no generation.
Train(r) ==
  /\ run[r].pc = "train"
  /\ \E bytes \in Bytes :
       LET artifact == Artifact(run[r].out[1].gen, bytes)
           binding == <<Binding("model_artifact", artifact, NoDate)>>
       IN  IF artifact.run.receipt.qlib # Runtime
             THEN Raise(r) /\ UNCHANGED store
           ELSE IF artifact \in store.model_artifact
             THEN Bind(r, "state", binding) /\ UNCHANGED store
           ELSE IF artifact \in store.artifact_review /\ ~SignedAgain("model_artifact")
             THEN Raise(r) /\ UNCHANGED store
           ELSE Put("artifact_review", artifact) /\ Bind(r, "artifact", binding)
  /\ UNCHANGED <<request, states, results, memory, faults, crashes>>

\* The rename that ends ArtifactStore.publish; a directory that is there by now
\* is not replaced.
PublishArtifact(r) ==
  /\ run[r].pc = "artifact"
  /\ LET artifact == run[r].out[2].gen
     IN  IF artifact \in store.model_artifact
           THEN Raise(r) /\ UNCHANGED store
           ELSE Put("model_artifact", artifact) /\ GoTo(r, "state")
  /\ UNCHANGED <<request, states, results, memory, faults, crashes>>

-----------------------------------------------------------------------------
(* From the predictions to the portfolio                                   *)

\* The dates an execute scores: those it is given, or the test split.
Scored(a) == IF a.dates # {} THEN a.dates ELSE TestDates

\* The scores of its file, or those the artifact of the plan yields for sessions
\* of the export; the empty set is a refusal.
Scores(r) ==
  LET a == Args(r)
  IN  IF a.file # {} THEN {FromFile : x \in {1} \cap {IF Scored(a) \subseteq a.file THEN 1 ELSE 0}}
      ELSE {Inferred(x) : x \in {y \in Bound(r, "model_training", "model_artifact") :
                                  memory[r].model # {} /\ Scored(a) \subseteq Exported}}

\* The dates of the stage that are not published yet.
Left(r, dates) == dates \ {b.date : b \in ToSet(run[r].out)}

\* PredictionStageAdapter.run_for_dates, one date after the other; a prediction
\* that is there is recovered.
Predict(r) ==
  /\ In(r, "prediction_publication")
  /\ IF Scores(r) = {} \/ memory[r].model = {}
       THEN Raise(r) /\ UNCHANGED store
       ELSE \E scores \in Scores(r), artifact \in memory[r].model :
              LET left == Left(r, Scored(Args(r)))
                  date == Min(left)
                  doc == Prediction(date, artifact, scores)
              IN  /\ Put("prediction_set", doc)
                  /\ Bind(r, IF left = {date} THEN "state" ELSE run[r].pc,
                          <<Binding("prediction_set", doc, date)>>)
  /\ UNCHANGED <<request, states, results, memory, faults, crashes>>

\* _validate_risk_binding and _enforce_risk_gate: a request of version 2 needs the
\* documents it binds and a decision that allows; any other takes none.
Gate(r) ==
  /\ run[r].pc = "risk_gate"
  /\ IF \/ request.version = 2 /\ (Args(r).risk # "bound" \/ ~request.allows)
        \/ request.version # 2 /\ Args(r).risk # "none"
       THEN Raise(r)
       ELSE Enter(r, "portfolio_construction")
  /\ UNCHANGED <<request, store, states, results, memory, faults, crashes>>

\* Mutant: each date starts from the initial state.
WeightsAfresh(r, date, prediction, definition) ==
  TargetWeights(date, prediction, definition, {})

\* The weights of a date follow those of the date before.
WeightsOf(r, date, prediction, definition) ==
  LET before == {b \in ToSet(run[r].out) : b.date < date}
  IN  TargetWeights(date, prediction, definition,
        {b.gen : b \in {c \in before : \A d \in before : d.date <= c.date}})

\* PortfolioStageAdapter.run: the definition names the prediction of the hand-off,
\* which must be one of the plan's.
Construct(r) ==
  /\ In(r, "portfolio_construction")
  /\ LET bindings == OfFamily(run[r].plan["prediction_publication"], "prediction_set")
         predictions == ByDate(bindings)
         named == {p \in memory[r].prediction : \E b \in ToSet(bindings) : b.gen = p}
     IN  IF named = {} THEN Raise(r) /\ UNCHANGED store
         ELSE \E p \in named :
                LET left == Left(r, DOMAIN predictions)
                    date == Min(left)
                    doc == WeightsOf(r, date, predictions[date], Definition(p))
                IN  /\ Put("target_weights", doc)
                    /\ Bind(r, IF left = {date} THEN "state" ELSE run[r].pc,
                            <<Binding("target_weights", doc, date)>>)
  /\ UNCHANGED <<request, states, results, memory, faults, crashes>>

-----------------------------------------------------------------------------
(* From the backtest to the result                                         *)

\* BacktestStageAdapter.run: the hand-off must be the portfolio state that is
\* recorded now, and its dates sessions of the config's calendar.
Replay(r) ==
  /\ In(r, "backtest_execution")
  /\ LET fit == {p \in memory[r].portfolio :
                   /\ states["portfolio_construction"] = StageState(p.state)
                   /\ ByDate(p.state) = p.weights /\ Len(p.state) = Cardinality(DOMAIN p.weights)
                   /\ DOMAIN p.weights \subseteq Calendar}
     IN  IF fit = {} THEN Raise(r) /\ UNCHANGED store
         ELSE \E p \in fit :
                LET doc == BacktestResult(p.definition, {p.weights[d] : d \in DOMAIN p.weights})
                IN  /\ Put("backtest_result", doc)
                    /\ Bind(r, "state", <<Binding("backtest_result", doc, NoDate)>>)
  /\ UNCHANGED <<request, states, results, memory, faults, crashes>>

\* PaperExecutionStageAdapter.run as the runner uses it, one date after the other;
\* the modules PaperPublication and PaperExecution are about the stage itself.
Trade(r) ==
  /\ In(r, "paper_execution")
  /\ IF memory[r].portfolio = {}
       THEN Raise(r) /\ UNCHANGED store
       ELSE \E p \in memory[r].portfolio :
              LET left == Left(r, DOMAIN p.weights)
                  date == Min(left)
                  before == {b \in ToSet(run[r].out) : b.date < date}
                  doc == PaperDay(date, p.weights[date],
                           {b.gen : b \in {c \in before : \A d \in before : d.date <= c.date}})
              IN  /\ Put("paper", doc)
                  /\ Bind(r, IF left = {date} THEN "state" ELSE run[r].pc,
                          [i \in 1..4 |-> Binding(PaperFamilies[i], doc, date)])
  /\ UNCHANGED <<request, states, results, memory, faults, crashes>>

\* publish_state: the outcome replaces what an earlier attempt recorded.
RecordState(r) ==
  /\ run[r].pc = "state"
  /\ states' = [states EXCEPT ![run[r].stage] = StageState(run[r].out)]
  /\ GoTo(r, "fold")
  /\ UNCHANGED <<request, store, results, memory, faults, crashes>>

\* What an adapter keeps of the stage it has run.
Kept(r) ==
  LET out == run[r].out
      last == out[Len(out)].gen
  IN  CASE run[r].stage = "model_training" -> [memory[r] EXCEPT !.model = {last}]
        [] run[r].stage = "prediction_publication" ->
             [memory[r] EXCEPT !.prediction = {last}]
        [] run[r].stage = "portfolio_construction" ->
             [memory[r] EXCEPT !.portfolio =
                {[definition |-> last.definition, weights |-> ByDate(out), state |-> out]}]
        [] run[r].stage = "paper_execution" -> [memory[r] EXCEPT !.paper = {out}]
        [] OTHER -> memory[r]

\* The stage returns its result, and _plan_with_stage_outputs reads the state that
\* is now at the stage's path.
Fold(r) ==
  /\ run[r].pc = "fold"
  /\ memory' = [memory EXCEPT ![r] = Kept(r)]
  /\ run' = [Proceed(r) EXCEPT ![r].plan[run[r].stage] =
               ApplyBindings(@, states[run[r].stage].bindings)]
  /\ UNCHANGED <<request, store, states, results, faults, crashes>>

\* _readback: the model's artifact is compared with the memory, any other
\* document is read from its store.
ReadsBack(r, b) ==
  CASE ~b.path \/ b.family \in {"factor_partition", "sample_construction"} -> TRUE
    [] b.family = "qlib_dataset_export" -> store.qlib_dataset_export # {}
    [] b.family = "model_artifact" -> memory[r].model = {b.gen}
    [] b.family \in ToSet(PaperFamilies) -> b.gen \in store.paper
    [] OTHER -> b.gen \in store[b.family]

\* _reconcile_paper_bindings: the dates are those of the memory, or of the configs
\* the bindings name.
PaperReconciles(r) ==
  LET bindings == run[r].plan["paper_execution"]
      Dates(seq) == [i \in 1..Len(OfFamily(seq, "execution_config")) |->
                       OfFamily(seq, "execution_config")[i].gen.date]
  IN  IF memory[r].paper = {} THEN PaperComplete(bindings, Dates(bindings))
      ELSE /\ memory[r].paper = {bindings}
           /\ PaperComplete(bindings, Dates(bindings))

\* _reconcile
Reconcile(r) ==
  /\ run[r].pc = "result_reconciliation"
  /\ LET listed == [s \in ToSet(Plan) |-> Listed(run[r].plan[s])]
         sound == /\ \A s \in ToSet(Plan) : /\ listed[s] # <<>>
                                            /\ \A b \in ToSet(listed[s]) : ReadsBack(r, b)
                  /\ "paper_execution" \in ToSet(Plan) => PaperReconciles(r)
     IN  IF sound /\ listed \notin results
           THEN results' = results \cup {listed} /\ run' = [run EXCEPT ![r] = Idle]
           ELSE Raise(r) /\ UNCHANGED results
  /\ UNCHANGED <<request, store, states, memory, faults, crashes>>

-----------------------------------------------------------------------------
(* Errors                                                                  *)

\* _publish_failed_state: the stage after the last that passed, unless it has a
\* state.
Fail(r) ==
  /\ run[r].pc = "failing"
  /\ LET next == Max({0} \cup {i \in DOMAIN Plan : Plan[i] \in Passed}) + 1
     IN  states' = [s \in DOMAIN states |->
                      IF next \in DOMAIN Plan /\ s = Plan[next] /\ states[s] = NoState
                        THEN [NoState EXCEPT !.status = "failed"] ELSE states[s]]
  /\ run' = [run EXCEPT ![r] = Idle]
  /\ UNCHANGED <<request, store, results, memory, faults, crashes>>

\* A store, a reviewer or the disk fails.
Fault(r) ==
  /\ faults < MaxFaults /\ run[r].pc \notin {"idle", "failing"}
  /\ faults' = faults + 1
  /\ Raise(r)
  /\ UNCHANGED <<request, store, states, results, memory, crashes>>

\* The process dies in the middle of an execute.
Crash(r) ==
  /\ crashes < MaxCrashes /\ run[r].pc # "idle"
  /\ crashes' = crashes + 1
  /\ run' = [run EXCEPT ![r] = Idle] /\ memory' = [memory EXCEPT ![r] = Nothing]
  /\ UNCHANGED <<request, store, states, results, faults>>

\* The next execute is made by a new process.
Leave(r) ==
  /\ run[r].pc = "idle" /\ memory[r] # Nothing
  /\ memory' = [memory EXCEPT ![r] = Nothing]
  /\ UNCHANGED <<request, store, states, results, run, faults, crashes>>

-----------------------------------------------------------------------------
Families == {"model_dataset", "qlib_dataset_export", "qlib_init_receipt", "model_run",
             "artifact_review", "model_artifact", "prediction_set", "target_weights",
             "backtest_result", "paper"}

Init ==
  /\ request \in Requests
  /\ store = [f \in Families |-> {}]
  /\ states = [s \in ToSet(Stages) |-> NoState]
  /\ results = {}
  /\ memory = [r \in Runners |-> Nothing]
  /\ run = [r \in Runners |-> Idle]
  /\ faults = 0 /\ crashes = 0

Step(r) ==
  \/ Resume(r) \/ Skip(r) \/ Factors(r) \/ Prepare(r) \/ Export(r) \/ Attest(r)
  \/ RecordRun(r) \/ Train(r) \/ PublishArtifact(r) \/ Predict(r) \/ Gate(r)
  \/ Construct(r) \/ Replay(r) \/ Trade(r) \/ RecordState(r) \/ Fold(r)
  \/ Reconcile(r) \/ Fail(r)

Next ==
  \E r \in Runners :
    \/ \E a \in Attempts : Execute(r, a)
    \/ Step(r) \/ Fault(r) \/ Crash(r) \/ Leave(r)

Spec == Init /\ [][Next]_vars

-----------------------------------------------------------------------------
(* Properties                                                              *)

BindingOf(result, stage, family) == CHOOSE g \in TheBinding(result[stage], family) : TRUE

\* The documents of a result are of one piece: the run of its artifact is the run
\* it lists, over the dataset and the receipt it lists; every prediction was made
\* by that artifact, from scores of no other; the weights of a date follow that
\* date's prediction and the weights of the date before; the backtest replays these
\* weights, under the definition they were built for; and paper trades them.
OneLineage(result) ==
  LET artifact == BindingOf(result, "model_training", "model_artifact")
      predictions == ByDate(result["prediction_publication"])
      weights == ByDate(result["portfolio_construction"])
      backtest == BindingOf(result, "backtest_execution", "backtest_result")
      Before(date) == {d \in DOMAIN weights : d < date}
  IN  /\ artifact.run = BindingOf(result, "model_training", "model_run")
      /\ artifact.run.receipt = BindingOf(result, "qlib_export", "qlib_init_receipt")
      /\ \A d \in DOMAIN predictions :
           /\ predictions[d].artifact = artifact
           /\ predictions[d].scores.model \subseteq {artifact}
      /\ \A d \in DOMAIN weights :
           /\ d \in DOMAIN predictions /\ weights[d].prediction = predictions[d]
           /\ weights[d].previous =
                IF Before(d) = {} THEN {} ELSE {weights[Max(Before(d))]}
           /\ weights[d].definition = backtest.definition
      /\ backtest.weights = {weights[d] : d \in DOMAIN weights}
      /\ "paper_execution" \in DOMAIN result =>
           \A b \in ToSet(result["paper_execution"]) :
             b.gen.weights = weights[b.date]
ResultIsOneLineage == \A result \in results : OneLineage(result)

\* No retry loses a decision date: the dates an execute was asked to score are
\* those of the predictions, of the weights, of the backtest and of the paper
\* trades of the result, each once.
EveryDateReachesResult ==
  \A result \in results :
    LET Dates(stage) == {b.date : b \in ToSet(result[stage])}
    IN  /\ \E a \in Attempts : Dates("prediction_publication") = Scored(a)
        /\ Dates("portfolio_construction") = Dates("prediction_publication")
        /\ Len(result["portfolio_construction"]) =
             Cardinality(Dates("prediction_publication"))
        /\ "paper_execution" \in DOMAIN result =>
             Dates("paper_execution") = Dates("prediction_publication")

\* What no retry repairs: a run's record whose review a fresh signature cannot
\* match, an artifact's review without the artifact, a receipt for another qlib,
\* a decision date the backtest's calendar lacks, and a rejected risk decision.
Wedged ==
  \/ request.afresh /\ store.model_run # {} /\ states["model_training"].status # "passed"
  \/ store.artifact_review # store.model_artifact
  \/ \E b \in ToSet(states["qlib_export"].bindings) :
       b.family = "qlib_init_receipt" /\ b.gen.qlib # Runtime
  \/ \E b \in ToSet(states["prediction_publication"].bindings) : b.date \notin Calendar
  \/ request.version = 2 /\ ~request.allows

\* A run that is executed again and again, with every kind of arguments, gets its
\* result whatever errors and deaths it has met, but for the five things above.
ChainEnds == <>[](results # {} \/ Wedged)
=============================================================================
