--------------------------- MODULE ChainDocuments ---------------------------
(***************************************************************************)
(* What the stages of a research run hand to one another: the documents    *)
(* their stores hold, the bindings that name them, and the way a recorded  *)
(* stage is folded into a plan (research_chain/runner.py, adapters.py and  *)
(* the stores of models/, portfolio/ and backtest/).                       *)
(*                                                                         *)
(* Every store names a document by a hash of its content, so a document    *)
(* stands here for its own generation id: two of them are one exactly when *)
(* everything they were made from is the same.  A date is a number, the    *)
(* order of the numbers that of the sessions.                              *)
(***************************************************************************)
EXTENDS Integers, FiniteSets, SequencesExt

Stages == <<"factor_computation", "dataset_preparation", "qlib_export",
            "model_training", "prediction_publication", "portfolio_construction",
            "backtest_execution", "paper_execution">>
PaperFamilies == <<"execution_config", "order_plan", "execution_result",
                   "paper_portfolio_state">>

\* stage_plan_for_request: only the later requests trade on paper.
StagePlan(version) ==
  IF version \in {1, 2} THEN SubSeq(Stages, 1, 7) ELSE Stages

\* The stage of a plan that comes after a stage, reconciliation after the last.
After(plan, stage) ==
  LET i == CHOOSE k \in DOMAIN plan : plan[k] = stage
  IN  IF i < Len(plan) THEN plan[i + 1] ELSE "result_reconciliation"

-----------------------------------------------------------------------------
(* Documents                                                               *)

Dataset == [prepared |-> "rows"]
Receipt(version) == [qlib |-> version]
ModelRun(receipt) == [dataset |-> Dataset, receipt |-> receipt]
Artifact(run, bytes) == [run |-> run, bytes |-> bytes]

\* The scores of a date: those a model infers, or those of the operator's file.
Inferred(artifact) == [model |-> {artifact}]
FromFile == [model |-> {}]

Prediction(date, artifact, scores) ==
  [date |-> date, artifact |-> artifact, scores |-> scores]
\* _synthesized_portfolio_definition: never stored, derived again when needed.
Definition(prediction) == [prediction |-> prediction]
TargetWeights(date, prediction, definition, previous) ==
  [date |-> date, prediction |-> prediction, definition |-> definition,
   previous |-> previous]
BacktestResult(definition, weights) == [definition |-> definition, weights |-> weights]
PaperDay(date, weights, previous) ==
  [date |-> date, weights |-> weights, previous |-> previous]

-----------------------------------------------------------------------------
(* Bindings                                                                *)

NoDate == 0
Binding(family, gen, date) ==
  [family |-> family, gen |-> gen, date |-> date, path |-> TRUE]
\* The resolver binds the inputs of a request, and gives them no path.
Resolved(family) ==
  [family |-> family, gen |-> [input |-> family], date |-> NoDate, path |-> FALSE]

\* The bindings of the plan the resolver hands to the runner.
Inputs(stage) ==
  CASE stage = "factor_computation" ->
         <<Resolved("factor_partition"), Resolved("universe_snapshot")>>
    [] stage = "dataset_preparation" ->
         <<Resolved("label_set"), Resolved("sample_construction")>>
    [] stage = "backtest_execution" -> <<Resolved("backtest_config")>>
    [] OTHER -> <<>>

\* What a stage records of the inputs it has read.
Republished(stage) ==
  CASE stage = "factor_computation" ->
         <<[Resolved("factor_partition") EXCEPT !.path = TRUE]>>
    [] stage = "dataset_preparation" ->
         <<[Resolved("sample_construction") EXCEPT !.path = TRUE]>>
    [] OTHER -> <<>>

\* The bindings among the chosen ones, in their order.  SelectSeq, as a function that
\* can be reasoned about.
Selected(bindings, chosen) ==
  LET upTo[n \in 0..Len(bindings)] ==
        IF n = 0 THEN <<>>
        ELSE IF bindings[n] \in chosen THEN Append(upTo[n - 1], bindings[n])
        ELSE upTo[n - 1]
  IN  upTo[Len(bindings)]

\* _binding_key: the path is no part of it, the generation is.
BindingKey(binding) == <<binding.family, binding.gen>>

\* Mutant: a family is taken for the identity of a binding, so that a family
\* with a binding for each date keeps the last one.
ApplyByFamily(held, recorded) ==
  LET Latest(i) == \A j \in (i + 1)..Len(recorded) :
                     recorded[j].family # recorded[i].family
      families == {b.family : b \in ToSet(recorded)}
  IN  Selected(held, {b \in ToSet(held) : b.family \notin families})
        \o Selected(recorded, {recorded[i] : i \in {j \in DOMAIN recorded : Latest(j)}})

\* _apply_stage_bindings and _plan_with_stage_outputs
ApplyBindings(held, recorded) ==
  LET keys == {BindingKey(b) : b \in ToSet(recorded)}
  IN  Selected(held, {b \in ToSet(held) : BindingKey(b) \notin keys}) \o recorded

OfFamily(bindings, family) ==
  Selected(bindings, {b \in ToSet(bindings) : b.family = family})

\* _binding: a family that is bound once, or a refusal (the empty set).
TheBinding(bindings, family) ==
  LET found == OfFamily(bindings, family)
  IN  IF Len(found) = 1 THEN {found[1].gen} ELSE {}

\* _latest_prediction_binding: a binding without a date sorts first.
LatestBinding(bindings) ==
  CHOOSE b \in ToSet(bindings) : \A c \in ToSet(bindings) : c.date <= b.date

\* The dictionary from dates to documents a family's bindings make: a later
\* binding of the same date replaces an earlier one.
ByDate(bindings) ==
  [d \in {b.date : b \in ToSet(bindings)} |->
     bindings[CHOOSE i \in DOMAIN bindings :
                /\ bindings[i].date = d
                /\ \A j \in DOMAIN bindings : bindings[j].date = d => j <= i].gen]

\* The bindings of a stage a result lists: a path-less one stands in only for a
\* family the stage did not publish.
Listed(bindings) ==
  LET published == {b.family : b \in {c \in ToSet(bindings) : c.path}}
  IN  Selected(bindings, {b \in ToSet(bindings) : b.path \/ b.family \notin published})

\* reconcile_paper_stage_bindings: four families for each date, in the order of
\* the dates.
PaperComplete(bindings, dates) ==
  /\ dates # <<>>
  /\ Len(bindings) = 4 * Len(dates)
  /\ \A i \in DOMAIN bindings :
       /\ bindings[i].date = dates[(i + 3) \div 4]
       /\ bindings[i].gen.date = bindings[i].date
       /\ \A j \in DOMAIN bindings :
            (j + 3) \div 4 = (i + 3) \div 4 /\ j # i =>
              /\ bindings[j].family # bindings[i].family
              /\ bindings[j].gen = bindings[i].gen
=============================================================================
