-------------------------- MODULE StageChainProofs --------------------------
(***************************************************************************)
(* Proofs about StageChain, for a run that one runner executes: any number *)
(* of decision dates, of kinds of arguments, of retries, errors and deaths *)
(* of the process.  The documents of a published result are of one piece   *)
(* (OneRunnerOneLineage), and it has every date that was asked for         *)
(* (OneRunnerEveryDate).                                                   *)
(*                                                                         *)
(* The argument.  A stage is judged by what the stages before it have      *)
(* recorded, and those records never change once they are there: a stage   *)
(* that has passed is skipped.  What an execute goes by it has from three  *)
(* places, the plan, the memory of the adapters and what it has bound so   *)
(* far, and the invariant Lineage ties each of them to the records, at     *)
(* every place an execute can be at.  A retry starts from the records and  *)
(* restores the memory from them, so that it makes no difference which     *)
(* attempt made what.  The result lists the records.                       *)
(*                                                                         *)
(* Lists of bindings are as long as there are dates, so what the helpers   *)
(* of ChainDocuments do to them is proved for lists of any length first.   *)
(***************************************************************************)
EXTENDS StageChain, FiniteSetTheorems, FunctionTheorems, WellFoundedInduction,
        NaturalsInduction, TLAPS

-----------------------------------------------------------------------------
(* The invariant.  It is stated of records, runs and memories as values, so *)
(* that what a step leaves alone is said by an equation between them.       *)

\* The stages.
StageNames == {"factor_computation", "dataset_preparation", "qlib_export", "model_training",
               "prediction_publication", "portfolio_construction", "backtest_execution",
               "paper_execution"}

\* The place of a stage in the order.
Rank(s) ==
  CASE s = "factor_computation" -> 1 [] s = "dataset_preparation" -> 2
    [] s = "qlib_export" -> 3 [] s = "model_training" -> 4
    [] s = "prediction_publication" -> 5 [] s = "portfolio_construction" -> 6
    [] s = "backtest_execution" -> 7 [] s = "paper_execution" -> 8 [] OTHER -> 9

\* The stages of a plan before one of them.
Before(plan, s) == {t \in ToSet(plan) : Rank(t) < Rank(s)}

\* The place after the last stage.
End == "result_reconciliation"

\* What the recorded states say that later stages go by.
Has(recs, s) == recs[s].status = "passed"
ReceiptOf(recs) == recs["qlib_export"].bindings[2].gen
ArtifactOf(recs) == recs["model_training"].bindings[2].gen
PredictionsOf(recs) == recs["prediction_publication"].bindings
WeightsIn(recs) == recs["portfolio_construction"].bindings

\* Sequences of bindings, their dates, and the document of the last one.
IsSeq(s) == s \in Seq(ToSet(s))
DatesOf(bindings) == {b.date : b \in ToSet(bindings)}
LastOf(bindings) == bindings[Len(bindings)].gen
\* Bindings in the order of their dates.
Ascending(b) ==
  /\ IsSeq(b)
  /\ \A i \in DOMAIN b : b[i].date \in Nat
  /\ \A i, j \in DOMAIN b : i < j => b[i].date < b[j].date

\* What the stages record: an export and its receipt, a run and its artifact.
ExportDone(out) ==
  out = <<Binding("qlib_dataset_export", Dataset, NoDate),
          Binding("qlib_init_receipt", out[2].gen, NoDate)>>

\* The run names the recorded receipt, the artifact that run.
TrainDone(out, receipt) ==
  out = <<Binding("model_run", ModelRun(receipt), NoDate),
          Binding("model_artifact", Artifact(ModelRun(receipt), out[2].gen.bytes), NoDate)>>

\* Predictions made by one artifact, in the order of the dates; in the end, of the
\* dates of some execute's arguments.
Predicted(b, artifact) ==
  /\ b = Binding("prediction_set", Prediction(b.date, artifact, b.gen.scores), b.date)
  /\ b.gen.scores.model \subseteq {artifact}

\* The predictions so far.
PredictPart(out, artifact) ==
  /\ Ascending(out)
  /\ \A i \in DOMAIN out : Predicted(out[i], artifact)

\* All predictions.
PredictDone(out, artifact) ==
  PredictPart(out, artifact) /\ out # <<>> /\ \E a \in Attempts : DatesOf(out) = Scored(a)

\* Weights that follow the predictions one by one, each from the one before, under the
\* definition that names the last prediction.
WeightsPart(out, predictions) ==
  /\ IsSeq(out) /\ Len(out) <= Len(predictions)
  /\ \A i \in DOMAIN out :
       out[i] = Binding("target_weights",
                  TargetWeights(predictions[i].date, predictions[i].gen,
                                Definition(LastOf(predictions)),
                                IF i = 1 THEN {} ELSE {out[i - 1].gen}),
                  predictions[i].date)

\* All weights.
WeightsDone(out, predictions) == WeightsPart(out, predictions) /\ Len(out) = Len(predictions)

\* The backtest of all weights, and four documents of paper for each of the first k.
BacktestDone(out, predictions, weights) ==
  out = <<Binding("backtest_result",
            BacktestResult(Definition(LastOf(predictions)),
                           {weights[i].gen : i \in DOMAIN weights}), NoDate)>>

\* The paper documents of the first k weights.
PaperPart(out, weights, k) ==
  /\ IsSeq(out) /\ k \in 0..Len(weights) /\ Len(out) = 4 * k
  /\ \A i \in DOMAIN out :
       /\ out[i].date = weights[(i + 3) \div 4].date
       /\ out[i].gen.weights = weights[(i + 3) \div 4].gen
       /\ out[i].path

\* What the record of each stage is to be, given the records of those before it.
StageDone(recs, s, out) ==
  /\ s = "qlib_export" => ExportDone(out)
  /\ s = "model_training" => TrainDone(out, ReceiptOf(recs))
  /\ s = "prediction_publication" => PredictDone(out, ArtifactOf(recs))
  /\ s = "portfolio_construction" => WeightsDone(out, PredictionsOf(recs))
  /\ s = "backtest_execution" => BacktestDone(out, PredictionsOf(recs), WeightsIn(recs))
  /\ s = "paper_execution" => PaperPart(out, WeightsIn(recs), Len(WeightsIn(recs)))

\* A stage is recorded as passed after all before it, and follows from what they record.
RecordsSound(plan, recs) ==
  /\ DOMAIN recs = StageNames
  /\ \A s \in ToSet(plan) : Has(recs, s) =>
       StageDone(recs, s, recs[s].bindings) /\ \A t \in Before(plan, s) : Has(recs, t)

\* What an adapter remembers is what is recorded.
MemorySound(recs, held) ==
  /\ DOMAIN held = DOMAIN Nothing
  /\ held.model # {} => Has(recs, "model_training") /\ held.model = {ArtifactOf(recs)}
  /\ held.prediction # {} =>
       /\ Has(recs, "prediction_publication")
       /\ held.prediction = {LastOf(PredictionsOf(recs))}
  /\ held.portfolio # {} =>
       /\ Has(recs, "portfolio_construction")
       /\ held.portfolio = {[definition |-> Definition(LastOf(PredictionsOf(recs))),
                             weights |-> ByDate(WeightsIn(recs)), state |-> WeightsIn(recs)]}

\* The arguments of an execute, and the dates it has still to predict.
ArgsOf(ex) == CHOOSE a \in ex.args : TRUE

\* The dates an execute has still to predict.
Pending(ex) == Scored(ArgsOf(ex)) \ DatesOf(ex.out)

\* What the stage under way has bound.
OutSound(recs, ex) ==
  LET working == ex.pc \notin ex.done
  IN  /\ ex.pc \in {"factor_computation", "dataset_preparation", "qlib_export",
                    "model_training", "backtest_execution"} => ex.out = <<>>
      /\ ex.pc = "receipt" => ex.out = <<Binding("qlib_dataset_export", Dataset, NoDate)>>
      /\ ex.pc = "train" => ex.out = <<Binding("model_run", ModelRun(ReceiptOf(recs)), NoDate)>>
      /\ ex.pc = "artifact" => TrainDone(ex.out, ReceiptOf(recs))
      /\ ex.pc = "prediction_publication" /\ working =>
           /\ PredictPart(ex.out, ArtifactOf(recs))
           /\ DatesOf(ex.out) \subseteq Scored(ArgsOf(ex)) /\ Pending(ex) # {}
           /\ \A x \in Pending(ex), d \in DatesOf(ex.out) : d < x
      /\ ex.pc = "portfolio_construction" /\ working =>
           WeightsPart(ex.out, PredictionsOf(recs)) /\ Len(ex.out) < Len(PredictionsOf(recs))
      /\ ex.pc = "paper_execution" /\ working =>
           \E k \in 0..(Len(WeightsIn(recs)) - 1) : PaperPart(ex.out, WeightsIn(recs), k)
      /\ ex.pc = "state" => StageDone(recs, ex.stage, ex.out)
      /\ ex.pc = "fold" => recs[ex.stage] = StageState(ex.out)

\* Where an execute is: the stages before its own have passed, and those it skips; its
\* plan is the resolver's with what they recorded.
Way(plan, recs, ex) ==
  LET folding(s) == ex.pc = "fold" /\ s = ex.stage
  IN  /\ ex.stage \in ToSet(plan) \cup {End}
      /\ ex.pc \in ToSet(plan) \cup {End} => ex.pc = ex.stage
      /\ ex.pc \notin ToSet(plan) \cup {End} =>
           /\ ex.pc \in {"receipt", "train", "artifact", "state", "fold", "risk_gate"}
           /\ ex.stage \in ToSet(plan)
           /\ ex.pc # "risk_gate" => ex.stage \notin ex.done
           /\ ex.pc = "receipt" => ex.stage = "qlib_export"
           /\ ex.pc \in {"train", "artifact"} => ex.stage = "model_training"
           /\ ex.pc = "risk_gate" => ex.stage = "portfolio_construction"
      /\ ex.done \subseteq ToSet(plan)
      /\ \A s \in ToSet(plan) :
           Has(recs, s) <=> (s \in Before(plan, ex.stage) \/ s \in ex.done \/ folding(s))
      /\ DOMAIN ex.plan = StageNames
      /\ \A s \in ToSet(plan) :
           ex.plan[s] = IF Has(recs, s) /\ ~folding(s)
                          THEN ApplyBindings(Inputs(s), recs[s].bindings) ELSE Inputs(s)

\* What an execute holds, for the place it is at.
RunSound(plan, recs, ex) ==
  /\ DOMAIN ex = DOMAIN Idle /\ ex.done \subseteq StageNames
  /\ ex.pc # "idle" => \E a \in Attempts : ex.args = {a}
  /\ ex.pc = "resume" => ex.stage = "factor_computation" /\ ex.out = <<>>
  /\ ex.pc \notin {"idle", "resume", "failing"} => Way(plan, recs, ex) /\ OutSound(recs, ex)

\* The invariant of a run that r executes.
Course(r) ==
  /\ RecordsSound(Plan, states)
  /\ DOMAIN memory = Runners /\ MemorySound(states, memory[r])
  /\ DOMAIN run = Runners /\ RunSound(Plan, states, run[r])

\* The invariant of its results as well.
Lineage(r) == Course(r) /\ ResultIsOneLineage /\ EveryDateReachesResult

\* Every nonempty set of naturals has a least element.
LEMMA LeastNat ==
  ASSUME NEW S \in SUBSET Nat, S # {}
  PROVE  \E x \in S : \A y \in S : x <= y
<1>1. IsWellFoundedOn(OpToRel(<, Nat), Nat)
  BY NatLessThanWellFounded
<1>2. \E x \in S : \A y \in S : ~(<<y, x>> \in OpToRel(<, Nat))
  BY <1>1, WFMin
<1>3. PICK x \in S : \A y \in S : ~(<<y, x>> \in OpToRel(<, Nat))
  BY <1>2
<1>4. \A y \in S : y < x => <<y, x>> \in OpToRel(<, Nat)
  BY DEF OpToRel
<1>5. \A y \in S : ~(y < x)
  BY <1>3, <1>4
<1> QED BY <1>5

\* The prefixes of a selection.
IsUpTo(f, bindings, chosen) ==
  f = [n \in 0..Len(bindings) |->
         IF n = 0 THEN <<>>
         ELSE IF bindings[n] \in chosen THEN Append(f[n - 1], bindings[n])
         ELSE f[n - 1]]

\* There is one such function at most: of the places where two differ, take the
\* least.
LEMMA UpToUnique ==
  ASSUME NEW T, NEW bindings \in Seq(T), NEW chosen, NEW f, NEW g,
         IsUpTo(f, bindings, chosen), IsUpTo(g, bindings, chosen)
  PROVE  f = g
<1> DEFINE N == Len(bindings)
           D == {n \in 0..N : f[n] # g[n]}
<1>0. N \in Nat
  OBVIOUS
<1>1. SUFFICES ASSUME D # {} PROVE FALSE
  <2>1. f = [n \in 0..N |-> f[n]] /\ g = [n \in 0..N |-> g[n]]
    BY DEF IsUpTo
  <2> QED BY <2>1
<1>2. PICK n \in D : \A m \in D : n <= m
  <2>1. D \in SUBSET Nat
    BY <1>0
  <2> HIDE DEF D
  <2> QED BY <1>1, <2>1, LeastNat
<1>3. n \in 0..N /\ n \in Nat
  BY <1>0
<1>4. /\ f[n] = IF n = 0 THEN <<>> ELSE IF bindings[n] \in chosen
                THEN Append(f[n - 1], bindings[n]) ELSE f[n - 1]
      /\ g[n] = IF n = 0 THEN <<>> ELSE IF bindings[n] \in chosen
                THEN Append(g[n - 1], bindings[n]) ELSE g[n - 1]
  BY <1>3 DEF IsUpTo
<1>5. n # 0
  BY <1>2, <1>4
<1>6. n - 1 \in 0..N /\ ~(n <= n - 1)
  BY <1>0, <1>3, <1>5
<1>7. f[n - 1] = g[n - 1]
  BY <1>2, <1>6
<1> QED BY <1>2, <1>4, <1>7

\* What is selected is what any such function ends with.
LEMMA SelectedIs ==
  ASSUME NEW T, NEW bindings \in Seq(T), NEW chosen, NEW f, IsUpTo(f, bindings, chosen)
  PROVE  Selected(bindings, chosen) = f[Len(bindings)]
<1> DEFINE g == CHOOSE h : IsUpTo(h, bindings, chosen)
<1>1. Selected(bindings, chosen) = g[Len(bindings)]
  BY DEF Selected, IsUpTo
<1>2. IsUpTo(g, bindings, chosen)
  <2>1. \E h : IsUpTo(h, bindings, chosen)
    OBVIOUS
  <2> QED BY <2>1
<1>3. f = g
  <2> HIDE DEF g
  <2> QED BY <1>2, UpToUnique
<1> QED BY <1>1, <1>3

\* All bindings are selected when all are chosen.
LEMMA SelectedAll ==
  ASSUME NEW T, NEW bindings \in Seq(T), NEW chosen,
         \A i \in DOMAIN bindings : bindings[i] \in chosen
  PROVE  Selected(bindings, chosen) = bindings
<1> DEFINE N == Len(bindings)
           f == [n \in 0..N |-> SubSeq(bindings, 1, n)]
<1>0. N \in Nat /\ DOMAIN bindings = 1..N
  OBVIOUS
<1>1. f[0] = <<>>
  BY <1>0
<1>2. ASSUME NEW n \in 1..N
      PROVE  f[n] = Append(f[n - 1], bindings[n])
  <2>1. n \in 0..N /\ n - 1 \in 0..N
    BY <1>0
  <2>2. f[n] = SubSeq(bindings, 1, n) /\ f[n - 1] = SubSeq(bindings, 1, n - 1)
    BY <2>1
  <2>3. SubSeq(bindings, 1, n) = Append(SubSeq(bindings, 1, n - 1), bindings[n])
    <3>1. /\ SubSeq(bindings, 1, n) \in Seq(T) /\ Len(SubSeq(bindings, 1, n)) = n
          /\ \A i \in 1..n : SubSeq(bindings, 1, n)[i] = bindings[i]
      BY <1>0
    <3>2. /\ SubSeq(bindings, 1, n - 1) \in Seq(T) /\ Len(SubSeq(bindings, 1, n - 1)) = n - 1
          /\ \A i \in 1..n - 1 : SubSeq(bindings, 1, n - 1)[i] = bindings[i]
      BY <1>0
    <3>3. bindings[n] \in T
      BY <1>0
    <3> HIDE DEF N
    <3> QED BY <3>1, <3>2, <3>3
  <2> QED BY <2>2, <2>3
<1>3. IsUpTo(f, bindings, chosen)
  <2>1. DOMAIN f = 0..N /\ f = [n \in 0..N |-> f[n]]
    OBVIOUS
  <2>2. \A n \in 0..N : f[n] = IF n = 0 THEN <<>>
                               ELSE IF bindings[n] \in chosen THEN Append(f[n - 1], bindings[n])
                               ELSE f[n - 1]
    <3> HIDE DEF f
    <3>1. \A n \in 0..N : n = 0 \/ (n \in 1..N /\ n # 0)
      BY <1>0
    <3>2. \A n \in 1..N : bindings[n] \in chosen
      BY <1>0
    <3> HIDE DEF N
    <3> QED BY <1>1, <1>2, <3>1, <3>2
  <2> HIDE DEF f
  <2> QED BY <2>1, <2>2 DEF IsUpTo
<1>4. f[N] = bindings
  BY <1>0
<1> HIDE DEF f
<1> QED BY <1>3, <1>4, SelectedIs

\* One of two bindings is selected.
LEMMA SelectedOfTwo ==
  ASSUME NEW x, NEW y, NEW chosen
  PROVE  /\ x \in chosen /\ y \notin chosen => Selected(<<x, y>>, chosen) = <<x>>
         /\ x \notin chosen /\ y \in chosen => Selected(<<x, y>>, chosen) = <<y>>
<1> DEFINE b == <<x, y>>
           f == [n \in 0..2 |-> IF n = 0 THEN <<>>
                                ELSE IF n = 1 THEN IF x \in chosen THEN <<x>> ELSE <<>>
                                ELSE IF x \in chosen THEN <<x>> ELSE <<y>>]
<1>1. b \in Seq({x, y}) /\ Len(b) = 2 /\ b[1] = x /\ b[2] = y
  OBVIOUS
<1>2. ASSUME (x \in chosen) # (y \in chosen)
      PROVE  IsUpTo(f, b, chosen)
  <2>1. f = [n \in 0..2 |-> f[n]] /\ f[0] = <<>>
    OBVIOUS
  <2>2. f[1] = IF b[1] \in chosen THEN Append(f[0], b[1]) ELSE f[0]
    BY <1>1
  <2>3. f[2] = IF b[2] \in chosen THEN Append(f[1], b[2]) ELSE f[1]
    <3>1. CASE x \in chosen
      <4>1. y \notin chosen
        BY <1>2, <3>1
      <4> QED BY <3>1, <4>1
    <3>2. CASE x \notin chosen
      <4>1. y \in chosen
        BY <1>2, <3>2
      <4>2. f[2] = <<y>> /\ f[1] = <<>>
        BY <3>2
      <4>3. Append(<<>>, y) = <<y>>
        OBVIOUS
      <4> QED BY <4>1, <4>2, <4>3
    <3> QED BY <3>1, <3>2
  <2> HIDE DEF f
  <2>4. \A n \in 0..2 : f[n] = IF n = 0 THEN <<>>
                               ELSE IF b[n] \in chosen THEN Append(f[n - 1], b[n])
                               ELSE f[n - 1]
    <3>1. \A n \in 0..2 : n = 0 \/ n = 1 \/ n = 2
      OBVIOUS
    <3>2. 1 - 1 = 0 /\ 2 - 1 = 1
      OBVIOUS
    <3> HIDE DEF b
    <3> QED BY <2>1, <2>2, <2>3, <3>1, <3>2
  <2> QED BY <1>1, <2>1, <2>4 DEF IsUpTo
<1>3. (x \in chosen) # (y \in chosen) => Selected(b, chosen) = f[2]
  <2> HIDE DEF f, b
  <2> QED BY <1>1, <1>2, SelectedIs
<1> QED BY <1>3

\* The bindings of a family, when there are no others.
LEMMA AllOfFamily ==
  ASSUME NEW T, NEW bindings \in Seq(T), NEW family,
         \A i \in DOMAIN bindings : bindings[i].family = family
  PROVE  OfFamily(bindings, family) = bindings
<1>1. \A i \in DOMAIN bindings : bindings[i] \in {b \in ToSet(bindings) : b.family = family}
  BY DEF ToSet
<1> QED BY <1>1, SelectedAll DEF OfFamily

\* Of two bindings of different families each is the one of its family.
LEMMA TheBindingOfTwo ==
  ASSUME NEW x, NEW y, x.family # y.family
  PROVE  /\ TheBinding(<<x, y>>, x.family) = {x.gen}
         /\ TheBinding(<<x, y>>, y.family) = {y.gen}
<1>1. ToSet(<<x, y>>) = {x, y}
  BY DEF ToSet
<1>2. OfFamily(<<x, y>>, x.family) = <<x>>
  BY <1>1, SelectedOfTwo DEF OfFamily
<1>3. OfFamily(<<x, y>>, y.family) = <<y>>
  BY <1>1, SelectedOfTwo DEF OfFamily
<1> QED BY <1>2, <1>3 DEF TheBinding

\* What is recorded of a stage without inputs is all its plan holds.
LEMMA AppliedToNone ==
  ASSUME NEW T, NEW recorded \in Seq(T)
  PROVE  ApplyBindings(<<>>, recorded) = recorded
<1> DEFINE chosen == {b \in ToSet(<<>>) : BindingKey(b) \notin {BindingKey(c) : c \in ToSet(recorded)}}
<1>1. Selected(<<>>, chosen) = <<>>
  <2> HIDE DEF chosen
  <2>1. <<>> \in Seq(T) /\ DOMAIN <<>> = {}
    OBVIOUS
  <2> QED BY <2>1, SelectedAll
<1>2. ApplyBindings(<<>>, recorded) = <<>> \o recorded
  BY <1>1 DEF ApplyBindings
<1> QED BY <1>2

\* A stage all of whose bindings have paths lists them all.
LEMMA AllListed ==
  ASSUME NEW T, NEW bindings \in Seq(T), \A i \in DOMAIN bindings : bindings[i].path
  PROVE  Listed(bindings) = bindings
<1> DEFINE published == {b.family : b \in {c \in ToSet(bindings) : c.path}}
           chosen == {b \in ToSet(bindings) : b.path \/ b.family \notin published}
<1>1. \A i \in DOMAIN bindings : bindings[i] \in chosen
  BY DEF ToSet
<1>2. Listed(bindings) = Selected(bindings, chosen)
  BY DEF Listed
<1> HIDE DEF chosen
<1> QED BY <1>1, <1>2, SelectedAll

\* The shape of a sequence.
LEMMA SeqShape ==
  ASSUME NEW s, IsSeq(s)
  PROVE  Len(s) \in Nat /\ DOMAIN s = 1..Len(s) /\ \A i \in 1..Len(s) : s[i] \in ToSet(s)
BY DEF IsSeq, ToSet

\* One sequence after another: which place is which.
LEMMA Extended ==
  ASSUME NEW s, IsSeq(s), NEW t, IsSeq(t)
  PROVE  /\ IsSeq(s \o t) /\ Len(s \o t) = Len(s) + Len(t)
         /\ \A i \in 1..Len(s) : (s \o t)[i] = s[i]
         /\ \A i \in 1..Len(t) : (s \o t)[Len(s) + i] = t[i]
         /\ \A i \in 1..(Len(s) + Len(t)) : i <= Len(s) \/ \E j \in 1..Len(t) : i = Len(s) + j
         /\ ToSet(s \o t) = ToSet(s) \cup ToSet(t)
<1> DEFINE T == ToSet(s) \cup ToSet(t)
           u == s \o t
<1>1. s \in Seq(T) /\ t \in Seq(T)
  BY DEF IsSeq
<1>2. /\ u \in Seq(T) /\ Len(u) = Len(s) + Len(t)
      /\ \A i \in 1..Len(s) : u[i] = s[i]
      /\ \A i \in 1..Len(t) : u[Len(s) + i] = t[i]
  <2> HIDE DEF T
  <2>1. u \in Seq(T) /\ Len(u) = Len(s) + Len(t)
    BY <1>1
  <2>2. \A i \in 1..Len(s) : u[i] = s[i]
    BY <1>1
  <2>3. \A i \in 1..Len(t) : u[Len(s) + i] = t[i]
    <3> TAKE i \in 1..Len(t)
    <3>1. Len(s) \in Nat /\ Len(t) \in Nat
      BY <1>1
    <3>2. Len(s) + i \in 1..(Len(s) + Len(t)) /\ ~(Len(s) + i <= Len(s)) /\ Len(s) + i - Len(s) = i
      BY <3>1
    <3> QED BY <1>1, <3>2
  <2> QED BY <2>1, <2>2, <2>3
<1>3. Len(s) \in Nat /\ Len(t) \in Nat /\ DOMAIN s = 1..Len(s) /\ DOMAIN t = 1..Len(t)
  BY SeqShape
<1>4. \A i \in 1..(Len(s) + Len(t)) : i <= Len(s) \/ \E j \in 1..Len(t) : i = Len(s) + j
  <2> TAKE i \in 1..(Len(s) + Len(t))
  <2>1. CASE i > Len(s)
    <3>1. i - Len(s) \in 1..Len(t) /\ i = Len(s) + (i - Len(s))
      BY <1>3, <2>1
    <3> QED BY <3>1
  <2> QED BY <1>3, <2>1
<1>5. DOMAIN u = 1..(Len(s) + Len(t))
  <2> HIDE DEF T
  <2> QED BY <1>2
<1> HIDE DEF u
<1>6. ToSet(u) \subseteq ToSet(s) \cup ToSet(t)
  <2> SUFFICES ASSUME NEW i \in 1..(Len(s) + Len(t)) PROVE u[i] \in ToSet(s) \cup ToSet(t)
    BY <1>5 DEF ToSet
  <2>1. CASE i <= Len(s)
    BY <1>2, <1>3, <2>1 DEF ToSet
  <2>2. CASE \E j \in 1..Len(t) : i = Len(s) + j
    BY <1>2, <1>3, <2>2 DEF ToSet
  <2> QED BY <1>4, <2>1, <2>2
<1>7. ToSet(s) \subseteq ToSet(u)
  <2> SUFFICES ASSUME NEW i \in 1..Len(s) PROVE s[i] \in ToSet(u)
    BY <1>3 DEF ToSet
  <2>1. i \in 1..(Len(s) + Len(t))
    BY <1>3
  <2> QED BY <1>2, <1>5, <2>1 DEF ToSet
<1>8. ToSet(t) \subseteq ToSet(u)
  <2> SUFFICES ASSUME NEW i \in 1..Len(t) PROVE t[i] \in ToSet(u)
    BY <1>3 DEF ToSet
  <2>1. Len(s) + i \in 1..(Len(s) + Len(t))
    BY <1>3
  <2> QED BY <1>2, <1>5, <2>1 DEF ToSet
<1>9. ToSet(u) = T
  BY <1>6, <1>7, <1>8
<1>10. IsSeq(u)
  <2> HIDE DEF T
  <2> QED BY <1>2, <1>9 DEF IsSeq
<1> QED BY <1>2, <1>4, <1>9, <1>10 DEF u

\* The places of the second one.
LEMMA SecondPart ==
  ASSUME NEW s, IsSeq(s), NEW t, IsSeq(t), NEW u, u = s \o t, NEW i \in 1..Len(t),
         NEW m, m = Len(s) + i
  PROVE  u[m] = t[i]
BY Extended

\* One binding, two, none.
LEMMA OneIsSeq ==
  ASSUME NEW x
  PROVE  IsSeq(<<x>>) /\ Len(<<x>>) = 1 /\ <<x>>[1] = x /\ ToSet(<<x>>) = {x}
<1>1. ToSet(<<x>>) = {x}
  BY DEF ToSet
<1> QED BY <1>1 DEF IsSeq

LEMMA TwoIsSeq ==
  ASSUME NEW x, NEW y
  PROVE  IsSeq(<<x, y>>) /\ Len(<<x, y>>) = 2 /\ <<x, y>>[1] = x /\ <<x, y>>[2] = y
         /\ ToSet(<<x, y>>) = {x, y}
<1>1. ToSet(<<x, y>>) = {x, y}
  BY DEF ToSet
<1> QED BY <1>1 DEF IsSeq

LEMMA EmptyIsSeq == IsSeq(<<>>) /\ Len(<<>>) = 0 /\ ToSet(<<>>) = {}
  BY DEF IsSeq, ToSet

\* The last three of the lemmas on selections, of sequences as the invariant has them.
LEMMA SeqFamily ==
  ASSUME NEW b, IsSeq(b), NEW family, \A i \in DOMAIN b : b[i].family = family
  PROVE  OfFamily(b, family) = b
BY AllOfFamily DEF IsSeq

LEMMA SeqApplied ==
  ASSUME NEW b, IsSeq(b)
  PROVE  ApplyBindings(<<>>, b) = b
BY AppliedToNone DEF IsSeq

LEMMA SeqListed ==
  ASSUME NEW b, IsSeq(b), \A i \in DOMAIN b : b[i].path
  PROVE  Listed(b) = b
BY AllListed DEF IsSeq

\* Of bindings in the order of their dates, the later has the greater date.
LEMMA AscendingDistinct ==
  ASSUME NEW b, Ascending(b), NEW i \in DOMAIN b, NEW j \in DOMAIN b
  PROVE  /\ b[i].date = b[j].date => i = j
         /\ b[i].date < b[j].date <=> i < j
         /\ i <= j => b[i].date <= b[j].date
<1>1. i \in Nat /\ j \in Nat /\ b[i].date \in Nat /\ b[j].date \in Nat
  BY SeqShape DEF Ascending
<1>2. (i < j => b[i].date < b[j].date) /\ (j < i => b[j].date < b[i].date)
  BY DEF Ascending
<1> QED BY <1>1, <1>2

\* The dates of bindings, place by place.
LEMMA DatesAre ==
  ASSUME NEW b
  PROVE  DatesOf(b) = {b[i].date : i \in DOMAIN b}
BY DEF DatesOf, ToSet

\* The dictionary of such bindings: every binding has its own entry.
LEMMA ByDateIs ==
  ASSUME NEW b, Ascending(b)
  PROVE  DOMAIN ByDate(b) = DatesOf(b) /\ \A i \in DOMAIN b : ByDate(b)[b[i].date] = b[i].gen
<1>1. DOMAIN ByDate(b) = DatesOf(b)
  BY DEF ByDate, DatesOf
<1>2. ASSUME NEW i \in DOMAIN b
      PROVE  ByDate(b)[b[i].date] = b[i].gen
  <2> DEFINE pick == CHOOSE k \in DOMAIN b : /\ b[k].date = b[i].date
                       /\ \A j \in DOMAIN b : b[j].date = b[i].date => j <= k
  <2>1. b[i].date \in {c.date : c \in ToSet(b)}
    BY DEF ToSet
  <2>2. ByDate(b)[b[i].date] = b[pick].gen
    BY <2>1 DEF ByDate
  <2>3. \A j \in DOMAIN b : b[j].date = b[i].date => j = i
    BY AscendingDistinct
  <2>4. i \in Nat
    BY SeqShape DEF Ascending
  <2>5. pick = i
    <3>1. \E k \in DOMAIN b : b[k].date = b[i].date /\ \A j \in DOMAIN b : b[j].date = b[i].date => j <= k
      BY <2>3, <2>4
    <3>2. pick \in DOMAIN b /\ b[pick].date = b[i].date
      BY <3>1
    <3> HIDE DEF pick
    <3> QED BY <2>3, <3>2
  <2> HIDE DEF pick
  <2> QED BY <2>2, <2>5
<1> QED BY <1>1, <1>2

\* The latest of such bindings is the last one.
LEMMA LatestIsLast ==
  ASSUME NEW b, Ascending(b), b # <<>>
  PROVE  /\ Len(b) \in DOMAIN b /\ LatestBinding(b) = b[Len(b)]
         /\ \A i \in DOMAIN b : b[i].date <= b[Len(b)].date
<1>1. IsSeq(b) /\ Len(b) \in Nat /\ DOMAIN b = 1..Len(b)
  BY SeqShape DEF Ascending
<1>2. Len(b) # 0
  BY <1>1 DEF IsSeq
<1>3. Len(b) \in DOMAIN b
  BY <1>1, <1>2
<1>4. \A i \in DOMAIN b : b[i].date <= b[Len(b)].date
  BY <1>1, <1>3, AscendingDistinct
<1>5. b[Len(b)] \in ToSet(b) /\ \A c \in ToSet(b) : c.date <= b[Len(b)].date
  BY <1>3, <1>4 DEF ToSet
<1> DEFINE latest == CHOOSE x \in ToSet(b) : \A c \in ToSet(b) : c.date <= x.date
<1>6. latest \in ToSet(b) /\ \A c \in ToSet(b) : c.date <= latest.date
  BY <1>5
<1> HIDE DEF latest
<1>7. PICK k \in DOMAIN b : latest = b[k]
  BY <1>6 DEF ToSet
<1>8. b[Len(b)].date <= b[k].date
  BY <1>5, <1>6, <1>7
<1>9. k = Len(b)
  <2>1. b[k].date \in Nat /\ b[Len(b)].date \in Nat
    BY <1>3 DEF Ascending
  <2>2. b[k].date = b[Len(b)].date
    BY <1>4, <1>8, <2>1
  <2> QED BY <1>3, <2>2, AscendingDistinct
<1> QED BY <1>3, <1>4, <1>7, <1>9 DEF LatestBinding, latest

\* There are as many dates as bindings.
LEMMA AsManyDates ==
  ASSUME NEW b, Ascending(b)
  PROVE  IsFiniteSet(DatesOf(b)) /\ Cardinality(DatesOf(b)) = Len(b)
<1>1. Len(b) \in Nat /\ DOMAIN b = 1..Len(b)
  BY SeqShape DEF Ascending
<1> DEFINE f == [i \in 1..Len(b) |-> b[i].date]
<1>2. f \in Bijection(1..Len(b), DatesOf(b))
  <2>1. f \in [1..Len(b) -> DatesOf(b)]
    BY <1>1, DatesAre
  <2>2. \A i, j \in 1..Len(b) : f[i] = f[j] => i = j
    BY <1>1, AscendingDistinct
  <2>3. \A d \in DatesOf(b) : \E i \in 1..Len(b) : f[i] = d
    BY <1>1, DatesAre
  <2> QED BY <2>1, <2>2, <2>3 DEF Bijection, Injection, Surjection, IsInjective
<1>3. IsFiniteSet(1..Len(b)) /\ Cardinality(1..Len(b)) = Len(b)
  <2>1. Len(b) \in Int /\ 1 \in Int
    BY <1>1
  <2>2. IsFiniteSet(1..Len(b)) /\ Cardinality(1..Len(b)) = IF 1 > Len(b) THEN 0 ELSE Len(b) - 1 + 1
    BY <2>1, FS_Interval
  <2> QED BY <1>1, <2>2
<1>4. ExistsBijection(1..Len(b), DatesOf(b))
  BY <1>2 DEF ExistsBijection
<1> HIDE DEF f
<1> QED BY <1>3, <1>4, FS_Bijection

\* The least of some dates.
LEMMA LeastDate ==
  ASSUME NEW S, S \subseteq Nat, S # {}
  PROVE  Min(S) \in S /\ \A x \in S : Min(S) <= x
<1>1. \E x \in S : \A y \in S : x <= y
  BY LeastNat
<1> QED BY <1>1 DEF Min

-----------------------------------------------------------------------------
(* Plans.                                                                  *)

\* What is used of a plan: the stages in it, and that each is followed by the next
\* one of a higher rank.
IsPlan(plan) ==
  /\ StageNames \ {"paper_execution"} \subseteq ToSet(plan) /\ ToSet(plan) \subseteq StageNames
  /\ \A s \in ToSet(plan) :
       /\ After(plan, s) \in ToSet(plan) \cup {End} /\ After(plan, s) # s
       /\ Before(plan, After(plan, s)) = Before(plan, s) \cup {s}
  /\ After(plan, "prediction_publication") = "portfolio_construction"
  /\ Before(plan, "factor_computation") = {} /\ Before(plan, End) = ToSet(plan)

\* The plan of the requests that trade on paper.
LEMMA LongPlan == IsPlan(Stages)
<1> DEFINE P == Stages
<1>1. /\ Len(P) = 8 /\ DOMAIN P = 1..8
      /\ P[1] = "factor_computation" /\ P[2] = "dataset_preparation" /\ P[3] = "qlib_export"
      /\ P[4] = "model_training" /\ P[5] = "prediction_publication"
      /\ P[6] = "portfolio_construction" /\ P[7] = "backtest_execution"
      /\ P[8] = "paper_execution"
  BY DEF Stages
<1>2. ToSet(P) = StageNames
  BY <1>1 DEF ToSet, StageNames
<1> HIDE DEF P
<1>3. \A k \in 1..8 : After(P, P[k]) = IF k < 8 THEN P[k + 1] ELSE End
  <2> TAKE k \in 1..8
  <2>1. \A i \in 1..8 : P[i] = P[k] => i = k
    BY <1>1
  <2>2. (CHOOSE i \in DOMAIN P : P[i] = P[k]) = k
    BY <1>1, <2>1
  <2> QED BY <1>1, <2>2 DEF After, End
<1>4. /\ After(P, "factor_computation") = "dataset_preparation"
      /\ After(P, "dataset_preparation") = "qlib_export"
      /\ After(P, "qlib_export") = "model_training"
      /\ After(P, "model_training") = "prediction_publication"
      /\ After(P, "prediction_publication") = "portfolio_construction"
      /\ After(P, "portfolio_construction") = "backtest_execution"
      /\ After(P, "backtest_execution") = "paper_execution"
      /\ After(P, "paper_execution") = End
  BY <1>1, <1>3
<1>5. \A s \in StageNames : /\ After(P, s) \in StageNames \cup {End} /\ After(P, s) # s
                            /\ \A t \in StageNames : Rank(t) < Rank(After(P, s)) <=>
                                                     (Rank(t) < Rank(s) \/ t = s)
  BY <1>4 DEF StageNames, Rank, End
<1>6. \A t \in StageNames : ~(Rank(t) < Rank("factor_computation")) /\ Rank(t) < Rank(End)
  BY DEF StageNames, Rank, End
<1>7. IsPlan(P)
  <2>1. \A s \in StageNames : Before(P, After(P, s)) = Before(P, s) \cup {s}
    BY <1>2, <1>5 DEF Before
  <2> QED BY <1>2, <1>4, <1>5, <1>6, <2>1 DEF IsPlan, Before
<1> QED BY <1>7 DEF P

\* The plan of those that do not.
LEMMA ShortPlan == IsPlan(SubSeq(Stages, 1, 7))
<1> DEFINE P == SubSeq(Stages, 1, 7)
           S == StageNames \ {"paper_execution"}
<1>1. /\ Len(P) = 7 /\ DOMAIN P = 1..7
      /\ P[1] = "factor_computation" /\ P[2] = "dataset_preparation" /\ P[3] = "qlib_export"
      /\ P[4] = "model_training" /\ P[5] = "prediction_publication"
      /\ P[6] = "portfolio_construction" /\ P[7] = "backtest_execution"
  <2>1. /\ Stages \in Seq(StageNames) /\ Len(Stages) = 8
        /\ Stages[1] = "factor_computation" /\ Stages[2] = "dataset_preparation"
        /\ Stages[3] = "qlib_export" /\ Stages[4] = "model_training"
        /\ Stages[5] = "prediction_publication" /\ Stages[6] = "portfolio_construction"
        /\ Stages[7] = "backtest_execution"
    BY DEF Stages, StageNames
  <2>2. P \in Seq(StageNames) /\ Len(P) = 7 /\ \A i \in 1..7 : P[i] = Stages[i]
    BY <2>1
  <2> HIDE DEF P
  <2>3. DOMAIN P = 1..7
    BY <2>2
  <2>4. 1 \in 1..7 /\ 2 \in 1..7 /\ 3 \in 1..7 /\ 4 \in 1..7 /\ 5 \in 1..7 /\ 6 \in 1..7 /\ 7 \in 1..7
    OBVIOUS
  <2> QED BY <2>1, <2>2, <2>3, <2>4
<1>2. ToSet(P) = S
  BY <1>1 DEF ToSet, StageNames
<1> HIDE DEF P
<1>3. \A k \in 1..7 : After(P, P[k]) = IF k < 7 THEN P[k + 1] ELSE End
  <2> TAKE k \in 1..7
  <2>1. \A i \in 1..7 : P[i] = P[k] => i = k
    BY <1>1
  <2>2. (CHOOSE i \in DOMAIN P : P[i] = P[k]) = k
    BY <1>1, <2>1
  <2> QED BY <1>1, <2>2 DEF After, End
<1>4. /\ After(P, "factor_computation") = "dataset_preparation"
      /\ After(P, "dataset_preparation") = "qlib_export"
      /\ After(P, "qlib_export") = "model_training"
      /\ After(P, "model_training") = "prediction_publication"
      /\ After(P, "prediction_publication") = "portfolio_construction"
      /\ After(P, "portfolio_construction") = "backtest_execution"
      /\ After(P, "backtest_execution") = End
  BY <1>1, <1>3
<1>5. \A s \in S : /\ After(P, s) \in S \cup {End} /\ After(P, s) # s
                   /\ \A t \in S : Rank(t) < Rank(After(P, s)) <=> (Rank(t) < Rank(s) \/ t = s)
  BY <1>4 DEF StageNames, Rank, End
<1>6. \A t \in S : ~(Rank(t) < Rank("factor_computation")) /\ Rank(t) < Rank(End)
  BY DEF StageNames, Rank, End
<1>7. IsPlan(P)
  <2>1. \A s \in S : Before(P, After(P, s)) = Before(P, s) \cup {s}
    BY <1>2, <1>5 DEF Before
  <2> QED BY <1>2, <1>4, <1>5, <1>6, <2>1 DEF IsPlan, Before
<1> QED BY <1>7 DEF P

\* The plan of any request is one of the two.
LEMMA EveryPlan == IsPlan(Plan)
BY LongPlan, ShortPlan DEF Plan, StagePlan

\* What the plan puts before the stages that read what others have made.
LEMMA BeforeOthers ==
  ASSUME NEW plan, IsPlan(plan)
  PROVE  /\ \A s : Before(plan, s) \subseteq ToSet(plan) /\ s \notin Before(plan, s)
         /\ {"qlib_export"} \subseteq Before(plan, "model_training")
         /\ {"qlib_export", "model_training"} \subseteq Before(plan, "prediction_publication")
         /\ {"model_training", "prediction_publication"}
              \subseteq Before(plan, "portfolio_construction")
         /\ {"model_training", "prediction_publication", "portfolio_construction"}
              \subseteq Before(plan, "backtest_execution")
         /\ {"model_training", "prediction_publication", "portfolio_construction"}
              \subseteq Before(plan, "paper_execution")
<1>1. StageNames \ {"paper_execution"} \subseteq ToSet(plan)
  BY DEF IsPlan
<1>2. \A s : Rank(s) \in Nat
  BY DEF Rank
<1>3. \A s : Before(plan, s) \subseteq ToSet(plan) /\ s \notin Before(plan, s)
  BY <1>2 DEF Before
<1>4. {"qlib_export", "model_training", "prediction_publication", "portfolio_construction"}
        \subseteq ToSet(plan)
  BY <1>1 DEF StageNames
<1> QED BY <1>3, <1>4 DEF Before, Rank

-----------------------------------------------------------------------------
(* What the stages have recorded, as plan and result show it.              *)

\* The fields of a binding that a stage publishes.
LEMMA BindingFields ==
  ASSUME NEW family, NEW gen, NEW date
  PROVE  /\ Binding(family, gen, date).family = family /\ Binding(family, gen, date).gen = gen
         /\ Binding(family, gen, date).date = date /\ Binding(family, gen, date).path
BY DEF Binding

\* What an export records, and the receipt the training finds in it.
LEMMA ExportShape ==
  ASSUME NEW out, ExportDone(out)
  PROVE  /\ IsSeq(out) /\ Len(out) = 2 /\ out # <<>> /\ \A i \in DOMAIN out : out[i].path
         /\ TheBinding(out, "qlib_init_receipt") = {out[2].gen}
<1> DEFINE x == Binding("qlib_dataset_export", Dataset, NoDate)
           y == Binding("qlib_init_receipt", out[2].gen, NoDate)
<1>1. /\ x.family = "qlib_dataset_export" /\ x.path /\ y.family = "qlib_init_receipt"
      /\ y.gen = out[2].gen /\ y.path
  BY BindingFields
<1>2. out = <<x, y>>
  BY DEF ExportDone
<1> HIDE DEF x, y
<1>3. TheBinding(<<x, y>>, y.family) = {y.gen}
  BY <1>1, TheBindingOfTwo
<1>4. DOMAIN out = 1..2 /\ \A i \in 1..2 : i = 1 \/ i = 2
  BY <1>2
<1> QED BY <1>1, <1>2, <1>3, <1>4, TwoIsSeq

\* What a training records: the run, and the artifact of that run.
LEMMA TrainShape ==
  ASSUME NEW out, NEW receipt, TrainDone(out, receipt)
  PROVE  /\ IsSeq(out) /\ Len(out) = 2 /\ out # <<>> /\ \A i \in DOMAIN out : out[i].path
         /\ TheBinding(out, "model_run") = {ModelRun(receipt)}
         /\ TheBinding(out, "model_artifact") = {out[2].gen}
         /\ out[2].gen.run = ModelRun(receipt) /\ out[2].gen.run.receipt = receipt
<1> DEFINE x == Binding("model_run", ModelRun(receipt), NoDate)
           y == Binding("model_artifact", Artifact(ModelRun(receipt), out[2].gen.bytes), NoDate)
<1>1. /\ x.family = "model_run" /\ x.path /\ y.family = "model_artifact" /\ y.path
      /\ x.gen = ModelRun(receipt) /\ y.gen = Artifact(ModelRun(receipt), out[2].gen.bytes)
  BY BindingFields
<1>2. out = <<x, y>>
  BY DEF TrainDone
<1> HIDE DEF x, y
<1>3. TheBinding(<<x, y>>, x.family) = {x.gen} /\ TheBinding(<<x, y>>, y.family) = {y.gen}
  BY <1>1, TheBindingOfTwo
<1>4. DOMAIN out = 1..2 /\ \A i \in 1..2 : i = 1 \/ i = 2
  BY <1>2
<1>5. out[2].gen = Artifact(ModelRun(receipt), out[2].gen.bytes)
  BY <1>1, <1>2
<1>6. out[2].gen.run = ModelRun(receipt) /\ ModelRun(receipt).receipt = receipt
  BY <1>5 DEF Artifact, ModelRun
<1> QED BY <1>1, <1>2, <1>3, <1>4, <1>6, TwoIsSeq

\* What the prediction records: one artifact's predictions, in the order of dates.
LEMMA PredictShape ==
  ASSUME NEW out, NEW artifact, PredictPart(out, artifact)
  PROVE  /\ Ascending(out) /\ IsSeq(out) /\ OfFamily(out, "prediction_set") = out
         /\ \A i \in DOMAIN out : /\ out[i].path /\ out[i].gen.artifact = artifact
                                  /\ out[i].gen.scores.model \subseteq {artifact}
                                  /\ out[i].family = "prediction_set"
<1>1. Ascending(out) /\ IsSeq(out)
  BY DEF PredictPart, Ascending
<1>2. ASSUME NEW i \in DOMAIN out
      PROVE  /\ out[i].path /\ out[i].gen.artifact = artifact
             /\ out[i].gen.scores.model \subseteq {artifact}
             /\ out[i].family = "prediction_set"
  <2>1. Predicted(out[i], artifact)
    BY DEF PredictPart
  <2> DEFINE doc == Prediction(out[i].date, artifact, out[i].gen.scores)
             b == Binding("prediction_set", doc, out[i].date)
  <2>2. out[i] = b /\ out[i].gen.scores.model \subseteq {artifact}
    BY <2>1 DEF Predicted
  <2>3. b.path /\ b.gen = doc /\ b.family = "prediction_set"
    BY BindingFields
  <2>4. doc.artifact = artifact
    BY DEF Prediction
  <2> HIDE DEF doc, b
  <2> QED BY <2>2, <2>3, <2>4
<1> QED BY <1>1, <1>2, SeqFamily

\* What the portfolio records, date by date.
LEMMA WeightsShape ==
  ASSUME NEW out, NEW predictions, Ascending(predictions), WeightsPart(out, predictions)
  PROVE  /\ Ascending(out) /\ IsSeq(out) /\ OfFamily(out, "target_weights") = out
         /\ DOMAIN out = 1..Len(out) /\ DOMAIN predictions = 1..Len(predictions)
         /\ Len(out) \in Nat /\ Len(predictions) \in Nat /\ DOMAIN out \subseteq DOMAIN predictions
         /\ \A i \in DOMAIN out :
              /\ out[i].path /\ out[i].date = predictions[i].date
              /\ out[i].gen.date = predictions[i].date
              /\ out[i].gen.prediction = predictions[i].gen
              /\ out[i].gen.definition = Definition(LastOf(predictions))
              /\ out[i].gen.previous = IF i = 1 THEN {} ELSE {out[i - 1].gen}
<1>1. /\ IsSeq(out) /\ Len(out) \in Nat /\ DOMAIN out = 1..Len(out)
      /\ Len(predictions) \in Nat /\ DOMAIN predictions = 1..Len(predictions)
      /\ DOMAIN out \subseteq DOMAIN predictions
  BY SeqShape DEF WeightsPart, Ascending
<1>2. ASSUME NEW i \in DOMAIN out
      PROVE  /\ out[i].path /\ out[i].date = predictions[i].date
             /\ out[i].family = "target_weights"
             /\ out[i].gen.date = predictions[i].date
             /\ out[i].gen.prediction = predictions[i].gen
             /\ out[i].gen.definition = Definition(LastOf(predictions))
             /\ out[i].gen.previous = IF i = 1 THEN {} ELSE {out[i - 1].gen}
  <2> DEFINE doc == TargetWeights(predictions[i].date, predictions[i].gen,
                      Definition(LastOf(predictions)), IF i = 1 THEN {} ELSE {out[i - 1].gen})
             b == Binding("target_weights", doc, predictions[i].date)
  <2>1. out[i] = b
    BY DEF WeightsPart
  <2>2. b.path /\ b.gen = doc /\ b.family = "target_weights" /\ b.date = predictions[i].date
    BY BindingFields
  <2>3. /\ doc.prediction = predictions[i].gen /\ doc.date = predictions[i].date
        /\ doc.definition = Definition(LastOf(predictions))
        /\ doc.previous = IF i = 1 THEN {} ELSE {out[i - 1].gen}
    BY DEF TargetWeights
  <2> HIDE DEF doc, b
  <2> QED BY <2>1, <2>2, <2>3
<1>3. Ascending(out)
  BY <1>1, <1>2 DEF Ascending
<1>4. OfFamily(out, "target_weights") = out
  <2>1. \A i \in DOMAIN out : out[i].family = "target_weights"
    BY <1>2
  <2> QED BY <1>1, <2>1, SeqFamily
<1> QED BY <1>1, <1>2, <1>3, <1>4

\* The dates of weights are those of the predictions they follow.
LEMMA WeightsDates ==
  ASSUME NEW out, NEW predictions, Ascending(predictions), WeightsPart(out, predictions)
  PROVE  \A i \in DOMAIN out : out[i].date = predictions[i].date /\ i \in DOMAIN predictions
<1>1. ASSUME NEW i \in DOMAIN out PROVE out[i].date = predictions[i].date
  <2> DEFINE doc == TargetWeights(predictions[i].date, predictions[i].gen,
                      Definition(LastOf(predictions)), IF i = 1 THEN {} ELSE {out[i - 1].gen})
  <2>1. out[i] = Binding("target_weights", doc, predictions[i].date)
    BY DEF WeightsPart
  <2> HIDE DEF doc
  <2> QED BY <2>1, BindingFields
<1>2. DOMAIN out \subseteq DOMAIN predictions
  BY WeightsShape
<1> QED BY <1>1, <1>2

\* The inputs of a stage in the plan the resolver hands over.
LEMMA InputsOf ==
  /\ \A s \in {"qlib_export", "model_training", "prediction_publication",
               "portfolio_construction", "paper_execution"} : Inputs(s) = <<>>
  /\ Inputs("backtest_execution") = <<Resolved("backtest_config")>>
BY DEF Inputs

\* A retry's plan and a result hold the recorded bindings of these stages as they are.
LEMMA RecordsAreShown ==
  ASSUME NEW s \in {"qlib_export", "model_training", "prediction_publication",
                    "portfolio_construction", "paper_execution"},
         NEW out, IsSeq(out)
  PROVE  /\ ApplyBindings(Inputs(s), out) = out
         /\ (\A i \in DOMAIN out : out[i].path) => Listed(out) = out
BY InputsOf, SeqApplied, SeqListed

\* A binding after another; bindings after none.
LEMMA OneAndOne ==
  ASSUME NEW x, NEW y
  PROVE  <<x>> \o <<y>> = <<x, y>>
<1> DEFINE u == <<x>> \o <<y>>
           v == <<x, y>>
<1>1. <<x>> \in Seq({x, y}) /\ <<y>> \in Seq({x, y}) /\ Len(<<x>>) = 1 /\ Len(<<y>>) = 1
  OBVIOUS
<1>2. u \in Seq({x, y}) /\ Len(u) = 2 /\ u[1] = x /\ u[2] = y
  <2>1. u \in Seq({x, y}) /\ Len(u) = 2
    BY <1>1
  <2>2. u[1] = x /\ u[2] = y
    BY <1>1
  <2> QED BY <2>1, <2>2
<1>3. v \in Seq({x, y}) /\ Len(v) = 2 /\ v[1] = x /\ v[2] = y
  OBVIOUS
<1>4. \A i \in 1..2 : i = 1 \/ i = 2
  OBVIOUS
<1> HIDE DEF u, v
<1>5. u = v
  BY <1>2, <1>3, <1>4
<1> QED BY <1>5 DEF u, v

\* Bindings after none.
LEMMA NoneAndSome ==
  ASSUME NEW s, IsSeq(s)
  PROVE  <<>> \o s = s
BY DEF IsSeq

\* A result finds the backtest among the stage's bindings, next to the config the
\* resolver bound.
LEMMA BacktestIsShown ==
  ASSUME NEW out, NEW predictions, NEW weights, BacktestDone(out, predictions, weights)
  PROVE  LET listed == Listed(ApplyBindings(Inputs("backtest_execution"), out))
         IN  TheBinding(listed, "backtest_result") = {BacktestResult(Definition(LastOf(predictions)),
                                                        {weights[i].gen : i \in DOMAIN weights})}
<1> DEFINE doc == BacktestResult(Definition(LastOf(predictions)),
                                 {weights[i].gen : i \in DOMAIN weights})
           x == Resolved("backtest_config")
           y == Binding("backtest_result", doc, NoDate)
<1>1. /\ y.family = "backtest_result" /\ y.gen = doc /\ y.path
      /\ x.family = "backtest_config" /\ ~x.path
  BY BindingFields DEF Resolved
<1>2. out = <<y>>
  BY DEF BacktestDone
<1> HIDE DEF x, y, doc
<1>3. ApplyBindings(<<x>>, <<y>>) = <<x, y>>
  <2> DEFINE chosen == {b \in ToSet(<<x>>) : BindingKey(b) \notin {BindingKey(c) : c \in ToSet(<<y>>)}}
  <2>1. ToSet(<<x>>) = {x} /\ ToSet(<<y>>) = {y}
    BY OneIsSeq
  <2>2. BindingKey(x) # BindingKey(y)
    BY <1>1 DEF BindingKey
  <2>3. x \in chosen
    BY <2>1, <2>2
  <2>4. ApplyBindings(<<x>>, <<y>>) = Selected(<<x>>, chosen) \o <<y>>
    BY DEF ApplyBindings
  <2> HIDE DEF chosen
  <2>5. Selected(<<x>>, chosen) = <<x>>
    <3>1. <<x>> \in Seq({x}) /\ \A i \in DOMAIN <<x>> : <<x>>[i] \in chosen
      BY <2>3
    <3> QED BY <3>1, SelectedAll
  <2>6. <<x>> \o <<y>> = <<x, y>>
    BY OneAndOne
  <2> QED BY <2>4, <2>5, <2>6
<1>4. Listed(<<x, y>>) = <<x, y>>
  <2> DEFINE published == {b.family : b \in {c \in ToSet(<<x, y>>) : c.path}}
             chosen == {b \in ToSet(<<x, y>>) : b.path \/ b.family \notin published}
  <2>1. ToSet(<<x, y>>) = {x, y}
    BY TwoIsSeq
  <2>2. published = {"backtest_result"}
    BY <1>1, <2>1
  <2>3. x \in chosen /\ y \in chosen
    BY <1>1, <2>1, <2>2
  <2>4. Listed(<<x, y>>) = Selected(<<x, y>>, chosen)
    BY DEF Listed
  <2> HIDE DEF chosen
  <2>5. <<x, y>> \in Seq({x, y}) /\ \A i \in DOMAIN <<x, y>> : <<x, y>>[i] \in chosen
    BY <2>3
  <2> QED BY <2>4, <2>5, SelectedAll
<1>5. TheBinding(<<x, y>>, y.family) = {y.gen}
  BY <1>1, TheBindingOfTwo
<1>6. Inputs("backtest_execution") = <<x>>
  BY InputsOf DEF x
<1> QED BY <1>1, <1>2, <1>3, <1>4, <1>5, <1>6 DEF doc

-----------------------------------------------------------------------------
(* What leaves the records of earlier stages alone.                        *)

\* What a stage has recorded is judged by what the stages before it recorded.
LEMMA StageStands ==
  ASSUME NEW plan, IsPlan(plan), NEW recs, NEW others, NEW s, NEW out,
         \A t \in Before(plan, s) : others[t].bindings = recs[t].bindings,
         StageDone(recs, s, out)
  PROVE  StageDone(others, s, out)
BY BeforeOthers DEF StageDone, ReceiptOf, ArtifactOf, PredictionsOf, WeightsIn

-----------------------------------------------------------------------------
(* Where an execute is, and how it moves.                                  *)

\* The steps between two stages are no stages.
LEMMA StepsAreNoStages ==
  ASSUME NEW plan, IsPlan(plan)
  PROVE  /\ ToSet(plan) \subseteq StageNames /\ End \notin ToSet(plan)
         /\ {"idle", "resume", "failing", "receipt", "train", "artifact", "state", "fold",
             "risk_gate"} \cap (StageNames \cup {End}) = {}
BY DEF IsPlan, StageNames, End

\* An execute at a stage that it has not found completed: the stage has no record, and
\* every stage before it has.
LEMMA AtStage ==
  ASSUME NEW plan, IsPlan(plan), NEW recs, NEW ex, Way(plan, recs, ex), ex.pc \in StageNames
  PROVE  /\ ex.stage = ex.pc /\ ex.pc \in ToSet(plan) /\ ex.stage # End
         /\ ex.pc \notin ex.done => ~Has(recs, ex.pc)
<1>1. ex.pc \notin {"receipt", "train", "artifact", "state", "fold", "risk_gate"}
  BY StepsAreNoStages
<1>2. ex.pc \in ToSet(plan) \cup {End} /\ ex.stage = ex.pc
  BY <1>1 DEF Way
<1>3. ex.pc \in ToSet(plan)
  BY <1>2 DEF StageNames, End
<1>4. ex.pc \notin Before(plan, ex.stage) /\ ex.pc # "fold"
  BY <1>1, <1>2, BeforeOthers
<1> QED BY <1>2, <1>3, <1>4, StepsAreNoStages DEF Way

\* What the stages before recorded, and that the plan has it.
LEMMA Earlier ==
  ASSUME NEW plan, IsPlan(plan), NEW recs, RecordsSound(plan, recs), NEW ex,
         Way(plan, recs, ex), NEW t \in Before(plan, ex.stage)
  PROVE  /\ Has(recs, t) /\ StageDone(recs, t, recs[t].bindings)
         /\ ex.plan[t] = ApplyBindings(Inputs(t), recs[t].bindings)
<1>1. t \in ToSet(plan) /\ t # ex.stage
  BY BeforeOthers
<1>2. Has(recs, t)
  BY <1>1 DEF Way
<1> QED BY <1>1, <1>2 DEF RecordsSound, Way

\* The same of a plan that holds what was recorded, stage by stage.
LEMMA PlanShows ==
  ASSUME NEW recs, NEW held,
         NEW t, StageDone(recs, t, recs[t].bindings),
         held = ApplyBindings(Inputs(t), recs[t].bindings)
  PROVE  /\ t = "qlib_export" =>
              ExportDone(recs["qlib_export"].bindings) /\ held = recs["qlib_export"].bindings
         /\ t = "model_training" =>
              /\ TrainDone(recs["model_training"].bindings, ReceiptOf(recs))
              /\ held = recs["model_training"].bindings
         /\ t = "prediction_publication" =>
              PredictDone(PredictionsOf(recs), ArtifactOf(recs)) /\ held = PredictionsOf(recs)
         /\ t = "portfolio_construction" =>
              WeightsDone(WeightsIn(recs), PredictionsOf(recs)) /\ held = WeightsIn(recs)
<1>1. CASE t = "qlib_export"
  <2>1. ExportDone(recs[t].bindings)
    BY <1>1 DEF StageDone
  <2>2. IsSeq(recs[t].bindings)
    BY <2>1, ExportShape
  <2> QED BY <1>1, <2>1, <2>2, RecordsAreShown
<1>2. CASE t = "model_training"
  <2>1. TrainDone(recs[t].bindings, ReceiptOf(recs))
    BY <1>2 DEF StageDone
  <2>2. IsSeq(recs[t].bindings)
    BY <2>1, TrainShape
  <2> QED BY <1>2, <2>1, <2>2, RecordsAreShown
<1>3. CASE t = "prediction_publication"
  <2>1. PredictDone(recs[t].bindings, ArtifactOf(recs))
    BY <1>3 DEF StageDone
  <2>2. IsSeq(recs[t].bindings)
    BY <2>1, PredictShape DEF PredictDone
  <2> QED BY <1>3, <2>1, <2>2, RecordsAreShown DEF PredictionsOf
<1>4. CASE t = "portfolio_construction"
  <2>1. WeightsDone(recs[t].bindings, PredictionsOf(recs))
    BY <1>4 DEF StageDone
  <2>2. IsSeq(recs[t].bindings)
    BY <2>1 DEF WeightsDone, WeightsPart
  <2> QED BY <1>4, <2>1, <2>2, RecordsAreShown DEF WeightsIn
<1> QED BY <1>1, <1>2, <1>3, <1>4

\* What a stage after the model, the predictions or the weights goes by.
LEMMA Knows ==
  ASSUME NEW plan, IsPlan(plan), NEW recs, RecordsSound(plan, recs), NEW ex,
         Way(plan, recs, ex)
  PROVE  LET before == Before(plan, ex.stage)
         IN  /\ "qlib_export" \in before =>
                  /\ Has(recs, "qlib_export") /\ ExportDone(recs["qlib_export"].bindings)
                  /\ ex.plan["qlib_export"] = recs["qlib_export"].bindings
             /\ "model_training" \in before =>
                  /\ Has(recs, "model_training")
                  /\ TrainDone(recs["model_training"].bindings, ReceiptOf(recs))
                  /\ ex.plan["model_training"] = recs["model_training"].bindings
             /\ "prediction_publication" \in before =>
                  /\ Has(recs, "prediction_publication")
                  /\ PredictDone(PredictionsOf(recs), ArtifactOf(recs))
                  /\ ex.plan["prediction_publication"] = PredictionsOf(recs)
             /\ "portfolio_construction" \in before =>
                  /\ Has(recs, "portfolio_construction")
                  /\ WeightsDone(WeightsIn(recs), PredictionsOf(recs))
                  /\ ex.plan["portfolio_construction"] = WeightsIn(recs)
<1> DEFINE before == Before(plan, ex.stage)
<1>1. "qlib_export" \in before =>
        /\ Has(recs, "qlib_export") /\ ExportDone(recs["qlib_export"].bindings)
        /\ ex.plan["qlib_export"] = recs["qlib_export"].bindings
  BY Earlier, PlanShows
<1>2. "model_training" \in before =>
        /\ Has(recs, "model_training")
        /\ TrainDone(recs["model_training"].bindings, ReceiptOf(recs))
        /\ ex.plan["model_training"] = recs["model_training"].bindings
  BY Earlier, PlanShows
<1>3. "prediction_publication" \in before =>
        /\ Has(recs, "prediction_publication")
        /\ PredictDone(PredictionsOf(recs), ArtifactOf(recs))
        /\ ex.plan["prediction_publication"] = PredictionsOf(recs)
  BY Earlier, PlanShows
<1>4. "portfolio_construction" \in before =>
        /\ Has(recs, "portfolio_construction")
        /\ WeightsDone(WeightsIn(recs), PredictionsOf(recs))
        /\ ex.plan["portfolio_construction"] = WeightsIn(recs)
  BY Earlier, PlanShows
<1> QED BY <1>1, <1>2, <1>3, <1>4

\* An execute that stays in its stage.
LEMMA Advances ==
  ASSUME NEW plan, IsPlan(plan), NEW recs, NEW ex, NEW next,
         RunSound(plan, recs, ex),
         ex.pc \notin {"idle", "resume", "failing", "fold", "risk_gate"},
         ex.stage # End, ex.stage \notin ex.done,
         DOMAIN next = DOMAIN Idle, next.stage = ex.stage, next.plan = ex.plan,
         next.done = ex.done, next.args = ex.args,
         \/ next.pc = ex.pc
         \/ next.pc = "state"
         \/ next.pc = "receipt" /\ ex.stage = "qlib_export"
         \/ next.pc \in {"train", "artifact"} /\ ex.stage = "model_training",
         OutSound(recs, next)
  PROVE  RunSound(plan, recs, next)
<1>1. Way(plan, recs, ex) /\ ex.stage \in ToSet(plan)
  BY DEF RunSound, Way
<1>2. next.pc \notin {"idle", "resume", "failing", "fold"} /\ (next.pc # ex.pc =>
        next.pc \in {"receipt", "train", "artifact", "state"} /\ next.pc \notin ToSet(plan) \cup {End})
  BY StepsAreNoStages
<1>3. Way(plan, recs, next)
  BY <1>1, <1>2 DEF Way
<1> QED BY <1>2, <1>3 DEF RunSound

\* A sequence that is not empty has a length.
LEMMA SomeHaveLength ==
  ASSUME NEW s, IsSeq(s), s # <<>>
  PROVE  Len(s) \in Nat /\ Len(s) # 0
BY DEF IsSeq

\* The arguments an execute goes by, and that it has dates to score.
LEMMA Asked ==
  ASSUME NEW a \in Attempts, NEW ex, ex.args = {a}
  PROVE  ArgsOf(ex) = a /\ Scored(a) # {} /\ Scored(a) \subseteq Nat
<1>1. (CHOOSE x \in {a} : TRUE) = a
  OBVIOUS
<1> QED BY <1>1, ChainAssumption DEF ArgsOf, Scored

\* An execute that has just come to a stage.
LEMMA Begun ==
  ASSUME NEW plan, IsPlan(plan), NEW recs, RecordsSound(plan, recs), NEW ex,
         Way(plan, recs, ex), ex.pc \in StageNames, ex.out = <<>>,
         \E a \in Attempts : ex.args = {a}
  PROVE  OutSound(recs, ex)
<1>1. ex.stage = ex.pc /\ ex.pc \notin {"receipt", "train", "artifact", "state", "fold"}
  BY AtStage, StepsAreNoStages
<1>2. IsSeq(<<>>) /\ Len(<<>>) = 0 /\ ToSet(<<>>) = {} /\ DOMAIN <<>> = {}
  BY EmptyIsSeq
<1>3. DatesOf(<<>>) = {}
  BY <1>2 DEF DatesOf
<1>4. CASE ex.pc = "prediction_publication"
  <2>1. PredictPart(<<>>, ArtifactOf(recs))
    BY <1>2 DEF PredictPart, Ascending
  <2>2. Pending(ex) # {}
    BY <1>3, Asked DEF Pending
  <2> QED BY <1>1, <1>3, <1>4, <2>1, <2>2 DEF OutSound
<1>5. CASE ex.pc = "portfolio_construction"
  <2>1. PredictDone(PredictionsOf(recs), ArtifactOf(recs))
    BY <1>1, <1>5, Knows, BeforeOthers
  <2>2. Len(PredictionsOf(recs)) \in Nat /\ Len(PredictionsOf(recs)) # 0
    BY <2>1, PredictShape, SomeHaveLength DEF PredictDone
  <2>3. WeightsPart(<<>>, PredictionsOf(recs)) /\ Len(<<>>) < Len(PredictionsOf(recs))
    BY <1>2, <2>2 DEF WeightsPart
  <2> QED BY <1>1, <1>5, <2>3 DEF OutSound
<1>6. CASE ex.pc = "paper_execution"
  <2>1. /\ PredictDone(PredictionsOf(recs), ArtifactOf(recs))
        /\ WeightsDone(WeightsIn(recs), PredictionsOf(recs))
    BY <1>1, <1>6, Knows, BeforeOthers
  <2>2. Len(WeightsIn(recs)) \in Nat /\ Len(WeightsIn(recs)) # 0
    BY <2>1, PredictShape, SomeHaveLength DEF PredictDone, WeightsDone
  <2>3. PaperPart(<<>>, WeightsIn(recs), 0) /\ 0 \in 0..(Len(WeightsIn(recs)) - 1)
    BY <1>2, <2>2 DEF PaperPart
  <2> QED BY <1>1, <1>6, <2>3 DEF OutSound
<1> QED BY <1>1, <1>4, <1>5, <1>6 DEF OutSound

\* An execute that goes on to the stage after its own.
LEMMA GoesOn ==
  ASSUME NEW plan, IsPlan(plan), NEW recs, RecordsSound(plan, recs), NEW ex, NEW next,
         \E a \in Attempts : next.args = {a},
         DOMAIN next = DOMAIN Idle,
         Way(plan, recs, ex), ex.stage \in ToSet(plan), ex.pc # "risk_gate",
         Has(recs, ex.stage),
         next.done = ex.done, next.stage = After(plan, ex.stage), next.out = <<>>,
         next.pc = IF ex.stage = "prediction_publication" THEN "risk_gate" ELSE next.stage,
         DOMAIN next.plan = StageNames,
         next.plan[ex.stage] = ApplyBindings(Inputs(ex.stage), recs[ex.stage].bindings),
         \A s \in ToSet(plan) : s # ex.stage => next.plan[s] = ex.plan[s]
  PROVE  RunSound(plan, recs, next)
<1>1. /\ next.stage \in ToSet(plan) \cup {End}
      /\ Before(plan, next.stage) = Before(plan, ex.stage) \cup {ex.stage}
      /\ ex.stage = "prediction_publication" => next.stage = "portfolio_construction"
      /\ "portfolio_construction" \in ToSet(plan)
  BY DEF IsPlan, StageNames
<1>2. /\ next.pc \notin {"idle", "resume", "failing", "fold", "receipt", "train", "artifact", "state"}
      /\ "risk_gate" \notin ToSet(plan) \cup {End}
  BY <1>1, StepsAreNoStages
<1>3. \A s \in ToSet(plan) :
        Has(recs, s) <=> (s \in Before(plan, next.stage) \/ s \in next.done)
  BY <1>1 DEF Way
<1>4. \A s \in ToSet(plan) :
        next.plan[s] = IF Has(recs, s) THEN ApplyBindings(Inputs(s), recs[s].bindings) ELSE Inputs(s)
  BY DEF Way
<1>5. next.done \subseteq ToSet(plan)
  BY DEF Way
<1>6. Way(plan, recs, next)
  BY <1>1, <1>2, <1>3, <1>4, <1>5 DEF Way
<1>7. OutSound(recs, next)
  <2> SUFFICES ASSUME next.pc \in StageNames PROVE OutSound(recs, next)
    BY <1>1, <1>2, StepsAreNoStages DEF OutSound, StageNames
  <2> QED BY <1>6, Begun
<1>8. next.done \subseteq StageNames
  BY <1>5, StepsAreNoStages
<1> QED BY <1>2, <1>6, <1>7, <1>8 DEF RunSound

-----------------------------------------------------------------------------
(* What the helpers of a step do to the execute of r.                      *)

\* The fields of an execute, of one that has not begun.
LEMMA IdleFields ==
  /\ DOMAIN Idle = {"pc", "stage", "plan", "done", "out", "args"}
  /\ Idle.pc = "idle" /\ Idle.stage = "factor_computation" /\ Idle.out = <<>>
  /\ Idle.plan = [s \in ToSet(Stages) |-> <<>>] /\ Idle.done = {} /\ Idle.args = {}
BY DEF Idle, Stages

\* Bind, GoTo and Raise change the place, and what is bound; Enter and Proceed the stage.
LEMMA Binds ==
  ASSUME NEW r \in Runners, DOMAIN run = Runners, DOMAIN run[r] = DOMAIN Idle,
         NEW pc, NEW bindings, Bind(r, pc, bindings)
  PROVE  /\ DOMAIN run' = Runners /\ DOMAIN run'[r] = DOMAIN Idle
         /\ run'[r].pc = pc /\ run'[r].out = run[r].out \o bindings
         /\ run'[r].stage = run[r].stage /\ run'[r].plan = run[r].plan
         /\ run'[r].done = run[r].done /\ run'[r].args = run[r].args
BY IdleFields DEF Bind

\* Only the place changes.
LEMMA Goes ==
  ASSUME NEW r \in Runners, DOMAIN run = Runners, DOMAIN run[r] = DOMAIN Idle,
         NEW pc, GoTo(r, pc)
  PROVE  /\ DOMAIN run' = Runners /\ DOMAIN run'[r] = DOMAIN Idle
         /\ run'[r].pc = pc /\ run'[r].out = run[r].out
         /\ run'[r].stage = run[r].stage /\ run'[r].plan = run[r].plan
         /\ run'[r].done = run[r].done /\ run'[r].args = run[r].args
BY IdleFields DEF GoTo

\* An execute that raises has nothing to answer for.
LEMMA Raises ==
  ASSUME NEW r \in Runners, DOMAIN run = Runners, NEW plan, NEW recs,
         RunSound(plan, recs, run[r]), run[r].pc # "idle", Raise(r), NEW later, NEW others
  PROVE  DOMAIN run' = Runners /\ RunSound(later, others, run'[r])
<1>1. /\ DOMAIN run[r] = DOMAIN Idle /\ \E a \in Attempts : run[r].args = {a}
      /\ run[r].done \subseteq StageNames
  BY DEF RunSound
<1>2. DOMAIN run' = Runners /\ DOMAIN run'[r] = DOMAIN Idle /\ run'[r].pc = "failing"
      /\ run'[r].args = run[r].args /\ run'[r].done = run[r].done
  BY <1>1, Goes DEF Raise
<1> QED BY <1>1, <1>2 DEF RunSound

\* An execute that comes to a stage has bound nothing.
LEMMA Enters ==
  ASSUME NEW r \in Runners, DOMAIN run = Runners, DOMAIN run[r] = DOMAIN Idle,
         NEW stage, Enter(r, stage)
  PROVE  /\ DOMAIN run' = Runners /\ DOMAIN run'[r] = DOMAIN Idle
         /\ run'[r].pc = stage /\ run'[r].out = <<>> /\ run'[r].stage = stage
         /\ run'[r].plan = run[r].plan
         /\ run'[r].done = run[r].done /\ run'[r].args = run[r].args
BY IdleFields DEF Enter

\* An execute that goes on takes its plan along.
LEMMA Proceeds ==
  ASSUME NEW r \in Runners, DOMAIN run = Runners, DOMAIN run[r] = DOMAIN Idle
  PROVE  LET ex == Proceed(r)[r]
         IN  /\ DOMAIN Proceed(r) = Runners /\ DOMAIN ex = DOMAIN Idle
             /\ ex.pc = Following(r) /\ ex.out = <<>> /\ ex.stage = After(Plan, run[r].stage)
             /\ ex.plan = run[r].plan /\ ex.done = run[r].done /\ ex.args = run[r].args
BY IdleFields DEF Proceed

\* Nothing is asked of an execute that has not begun.
LEMMA IdleIsSound ==
  ASSUME NEW plan, NEW recs
  PROVE  RunSound(plan, recs, Idle)
BY IdleFields DEF RunSound

\* A step that changes no record and no memory: what is left is to show where it goes.
LEMMA OnlyTheRunMoves ==
  ASSUME NEW r \in Runners, Lineage(r), UNCHANGED <<request, states, results, memory>>,
         DOMAIN run' = Runners, RunSound(Plan, states, run'[r])
  PROVE  Lineage(r)'
<1>1. Plan' = Plan
  BY DEF Plan
<1>2. (ResultIsOneLineage /\ EveryDateReachesResult)'
  BY DEF Lineage, ResultIsOneLineage, EveryDateReachesResult
<1>3. Course(r)'
  BY <1>1 DEF Lineage, Course
<1> QED BY <1>2, <1>3 DEF Lineage

\* What every step of a stage can count on.
LEMMA Standing ==
  ASSUME NEW r \in Runners, Lineage(r)
  PROVE  /\ IsPlan(Plan) /\ RecordsSound(Plan, states) /\ MemorySound(states, memory[r])
         /\ DOMAIN run = Runners /\ DOMAIN memory = Runners
         /\ RunSound(Plan, states, run[r]) /\ DOMAIN run[r] = DOMAIN Idle
         /\ run[r].pc \notin {"idle", "resume", "failing"} =>
              Way(Plan, states, run[r]) /\ OutSound(states, run[r])
         /\ run[r].pc # "idle" => \E a \in Attempts : run[r].args = {a}
BY EveryPlan DEF Lineage, Course, RunSound

-----------------------------------------------------------------------------
(* The steps of an execute that record nothing.                            *)

\* An execute that is called.
LEMMA ExecuteKeeps ==
  ASSUME NEW r \in Runners, Lineage(r), NEW a \in Attempts, Execute(r, a)
  PROVE  Lineage(r)'
<1> DEFINE ex == [Idle EXCEPT !.pc = "resume", !.args = {a}]
<1>1. DOMAIN run' = Runners /\ run'[r] = ex
  BY Standing DEF Execute
<1>2. /\ DOMAIN ex = DOMAIN Idle /\ ex.pc = "resume" /\ ex.args = {a}
      /\ ex.stage = "factor_computation" /\ ex.out = <<>> /\ ex.done = {}
  BY IdleFields
<1> HIDE DEF ex
<1>3. RunSound(Plan, states, ex)
  BY <1>2 DEF RunSound
<1> QED BY <1>1, <1>3, OnlyTheRunMoves DEF Execute

\* An error from outside.
LEMMA FaultKeeps ==
  ASSUME NEW r \in Runners, Lineage(r), Fault(r)
  PROVE  Lineage(r)'
<1>1. DOMAIN run' = Runners /\ RunSound(Plan, states, run'[r])
  BY Standing, Raises DEF Fault
<1> QED BY <1>1, OnlyTheRunMoves DEF Fault

\* A stage that has passed is in the plan as it was recorded.
LEMMA SkipKeeps ==
  ASSUME NEW r \in Runners, Lineage(r), Skip(r)
  PROVE  Lineage(r)'
<1> DEFINE ex == run[r]
<1>0. ex.pc \notin {"idle", "resume", "failing"}
  <2>1. ex.pc \in StageNames
    BY Standing DEF Skip, RunSound
  <2> QED BY <2>1, Standing, StepsAreNoStages
<1>1. Way(Plan, states, ex) /\ IsPlan(Plan)
  BY <1>0, Standing
<1>2. ex.pc \in ToSet(Plan) /\ ex.pc \in StageNames /\ ex.pc \in ex.done
  BY <1>1, StepsAreNoStages DEF Skip, Way
<1>3. ex.stage = ex.pc /\ ex.pc \notin {"fold", "risk_gate"}
  BY <1>1, <1>2, AtStage, StepsAreNoStages
<1>4. Has(states, ex.stage)
  BY <1>1, <1>2, <1>3 DEF Way
<1>5. /\ \A s \in ToSet(Plan) :
           Has(states, s) => ex.plan[s] = ApplyBindings(Inputs(s), states[s].bindings)
      /\ DOMAIN ex.plan = StageNames
  BY <1>1, <1>3 DEF Way
<1>6. DOMAIN run' = Runners /\ run' = Proceed(r)
  BY Standing, Proceeds DEF Skip
<1>7. RunSound(Plan, states, run'[r])
  BY <1>0, <1>1, <1>2, <1>3, <1>4, <1>5, <1>6, Standing, Proceeds, GoesOn DEF Following
<1> QED BY <1>6, <1>7, OnlyTheRunMoves DEF Skip

-----------------------------------------------------------------------------
(* From the factors to the model.                                          *)

\* A stage that is run: where the execute is, and what it can go by.
LEMMA InStage ==
  ASSUME NEW r \in Runners, Lineage(r), NEW stage \in StageNames, In(r, stage)
  PROVE  /\ Way(Plan, states, run[r]) /\ OutSound(states, run[r])
         /\ run[r].pc = stage /\ run[r].stage = stage /\ stage # End /\ stage \notin run[r].done
         /\ stage \in ToSet(Plan) /\ ~Has(states, stage)
         /\ stage \notin {"idle", "resume", "failing", "fold", "risk_gate", "state"}
<1>1. run[r].pc = stage /\ stage \notin run[r].done
  BY DEF In
<1>2. /\ stage \notin {"idle", "resume", "failing", "fold", "risk_gate", "state"}
      /\ Way(Plan, states, run[r]) /\ OutSound(states, run[r])
  BY <1>1, Standing, StepsAreNoStages
<1> QED BY <1>1, <1>2, Standing, AtStage

\* What ends a stage well is the record of it that will be written.
LEMMA Recordable ==
  ASSUME NEW recs, NEW ex, ex.pc = "state", StageDone(recs, ex.stage, ex.out)
  PROVE  OutSound(recs, ex)
BY DEF OutSound

\* The factors and the dataset: nothing later goes by what they record.
LEMMA FactorsKeeps ==
  ASSUME NEW r \in Runners, Lineage(r), Factors(r)
  PROVE  Lineage(r)'
<1>1. In(r, "factor_computation") /\ "factor_computation" \in StageNames
  BY DEF Factors, StageNames
<1>2. /\ DOMAIN run' = Runners /\ DOMAIN run'[r] = DOMAIN Idle /\ run'[r].pc = "state"
      /\ run'[r].stage = run[r].stage /\ run'[r].plan = run[r].plan
      /\ run'[r].done = run[r].done /\ run'[r].args = run[r].args
  BY Standing, Binds DEF Factors
<1>3. OutSound(states, run'[r])
  BY <1>1, <1>2, InStage, Recordable DEF StageDone
<1>4. RunSound(Plan, states, run'[r])
  BY <1>1, <1>2, <1>3, Standing, InStage, Advances
<1> QED BY <1>2, <1>4, OnlyTheRunMoves DEF Factors

LEMMA PrepareKeeps ==
  ASSUME NEW r \in Runners, Lineage(r), Prepare(r)
  PROVE  Lineage(r)'
<1>1. In(r, "dataset_preparation") /\ "dataset_preparation" \in StageNames
  BY DEF Prepare, StageNames
<1>2. /\ DOMAIN run' = Runners /\ DOMAIN run'[r] = DOMAIN Idle /\ run'[r].pc = "state"
      /\ run'[r].stage = run[r].stage /\ run'[r].plan = run[r].plan
      /\ run'[r].done = run[r].done /\ run'[r].args = run[r].args
  BY Standing, Binds DEF Prepare
<1>3. OutSound(states, run'[r])
  BY <1>1, <1>2, InStage, Recordable DEF StageDone
<1>4. RunSound(Plan, states, run'[r])
  BY <1>1, <1>2, <1>3, Standing, InStage, Advances
<1> QED BY <1>2, <1>4, OnlyTheRunMoves DEF Prepare

\* The export, and the receipt after it.
LEMMA ExportKeeps ==
  ASSUME NEW r \in Runners, Lineage(r), Export(r)
  PROVE  Lineage(r)'
<1> DEFINE x == Binding("qlib_dataset_export", Dataset, NoDate)
<1>1. In(r, "qlib_export") /\ "qlib_export" \in StageNames
  BY DEF Export, StageNames
<1>2. CASE Raise(r)
  BY <1>1, <1>2, Standing, InStage, Raises, OnlyTheRunMoves DEF Export
<1>3. CASE Bind(r, "receipt", <<x>>)
  <2>1. run[r].out = <<>>
    BY <1>1, InStage DEF OutSound
  <2> HIDE DEF x
  <2>2. /\ DOMAIN run' = Runners /\ DOMAIN run'[r] = DOMAIN Idle /\ run'[r].pc = "receipt"
        /\ run'[r].stage = run[r].stage /\ run'[r].plan = run[r].plan
        /\ run'[r].done = run[r].done /\ run'[r].args = run[r].args
        /\ run'[r].out = <<>> \o <<x>>
    BY <1>3, <2>1, Standing, Binds
  <2>3. run'[r].out = <<x>>
    BY <2>2, NoneAndSome, OneIsSeq
  <2>4. OutSound(states, run'[r])
    BY <2>2, <2>3 DEF OutSound, x
  <2>5. RunSound(Plan, states, run'[r])
    BY <1>1, <2>2, <2>4, Standing, InStage, Advances
  <2> QED BY <2>2, <2>5, OnlyTheRunMoves DEF Export
<1> QED BY <1>2, <1>3 DEF Export

LEMMA AttestKeeps ==
  ASSUME NEW r \in Runners, Lineage(r), Attest(r)
  PROVE  Lineage(r)'
<1> DEFINE x == Binding("qlib_dataset_export", Dataset, NoDate)
           y == Binding("qlib_init_receipt", Receipt(Args(r).qlib), NoDate)
<1>1. /\ run[r].pc = "receipt" /\ Way(Plan, states, run[r]) /\ OutSound(states, run[r])
      /\ run[r].pc \notin ToSet(Plan) \cup {End}
  BY Standing, StepsAreNoStages DEF Attest
<1>2. run[r].out = <<x>> /\ run[r].stage = "qlib_export" /\ run[r].stage \notin run[r].done
  BY <1>1 DEF Way, OutSound
<1> HIDE DEF x, y
<1>3. /\ DOMAIN run' = Runners /\ DOMAIN run'[r] = DOMAIN Idle /\ run'[r].pc = "state"
      /\ run'[r].stage = run[r].stage /\ run'[r].plan = run[r].plan
      /\ run'[r].done = run[r].done /\ run'[r].args = run[r].args
      /\ run'[r].out = <<x, y>>
  BY <1>2, Standing, Binds, OneAndOne DEF Attest, y
<1>4. y = Binding("qlib_init_receipt", y.gen, NoDate)
  BY BindingFields DEF y
<1>5. ExportDone(run'[r].out)
  BY <1>3, <1>4 DEF ExportDone, x
<1>6. OutSound(states, run'[r])
  <2>1. StageDone(states, "qlib_export", run'[r].out)
    BY <1>5 DEF StageDone
  <2> QED BY <1>2, <1>3, <2>1, Recordable
<1>7. "qlib_export" # End
  BY DEF End
<1>8. RunSound(Plan, states, run'[r])
  BY <1>1, <1>2, <1>3, <1>6, <1>7, Standing, Advances
<1> QED BY <1>3, <1>8, OnlyTheRunMoves DEF Attest

\* The run names the receipt of the plan, which is the recorded one.
LEMMA RecordRunKeeps ==
  ASSUME NEW r \in Runners, Lineage(r), RecordRun(r)
  PROVE  Lineage(r)'
<1>1. In(r, "model_training") /\ "model_training" \in StageNames
  BY DEF RecordRun, StageNames
<1>2. CASE Raise(r)
  BY <1>1, <1>2, Standing, InStage, Raises, OnlyTheRunMoves DEF RecordRun
<1>3. ASSUME NEW receipt \in Bound(r, "qlib_export", "qlib_init_receipt"),
             Bind(r, "train", <<Binding("model_run", ModelRun(receipt), NoDate)>>)
      PROVE  Lineage(r)'
  <2>1. receipt = ReceiptOf(states)
    <3>1. /\ ExportDone(states["qlib_export"].bindings)
          /\ run[r].plan["qlib_export"] = states["qlib_export"].bindings
      BY <1>1, Standing, InStage, Knows, BeforeOthers
    <3> QED BY <3>1, ExportShape DEF Bound, ReceiptOf
  <2> DEFINE x == Binding("model_run", ModelRun(receipt), NoDate)
  <2>2. run[r].out = <<>>
    BY <1>1, InStage DEF OutSound
  <2> HIDE DEF x
  <2>3. /\ DOMAIN run' = Runners /\ DOMAIN run'[r] = DOMAIN Idle /\ run'[r].pc = "train"
        /\ run'[r].stage = run[r].stage /\ run'[r].plan = run[r].plan
        /\ run'[r].done = run[r].done /\ run'[r].args = run[r].args
        /\ run'[r].out = <<>> \o <<x>>
    BY <1>3, <2>2, Standing, Binds DEF x
  <2>4. run'[r].out = <<x>>
    BY <2>3, NoneAndSome, OneIsSeq
  <2>5. OutSound(states, run'[r])
    BY <2>1, <2>3, <2>4 DEF OutSound, x
  <2>6. RunSound(Plan, states, run'[r])
    BY <1>1, <2>3, <2>5, Standing, InStage, Advances
  <2> QED BY <2>3, <2>6, OnlyTheRunMoves DEF RecordRun
<1> QED BY <1>2, <1>3 DEF RecordRun

\* The artifact names the run that is bound.
LEMMA TrainKeeps ==
  ASSUME NEW r \in Runners, Lineage(r), Train(r)
  PROVE  Lineage(r)'
<1> DEFINE x == Binding("model_run", ModelRun(ReceiptOf(states)), NoDate)
<1>1. /\ run[r].pc = "train" /\ Way(Plan, states, run[r]) /\ OutSound(states, run[r])
      /\ run[r].pc \notin ToSet(Plan) \cup {End}
  BY Standing, StepsAreNoStages DEF Train
<1>2. /\ run[r].out = <<x>> /\ run[r].stage = "model_training"
      /\ run[r].stage \notin run[r].done
  BY <1>1 DEF Way, OutSound
<1>3. CASE Raise(r)
  BY <1>1, <1>3, Standing, Raises, OnlyTheRunMoves DEF Train
<1>4. ASSUME NEW bytes \in Bytes, NEW pc \in {"state", "artifact"},
             Bind(r, pc, <<Binding("model_artifact", Artifact(run[r].out[1].gen, bytes), NoDate)>>)
      PROVE  Lineage(r)'
  <2> DEFINE y == Binding("model_artifact", Artifact(ModelRun(ReceiptOf(states)), bytes), NoDate)
  <2>1. x.gen = ModelRun(ReceiptOf(states))
    BY BindingFields
  <2>2. y.gen.bytes = bytes
    BY BindingFields DEF Artifact
  <2> HIDE DEF x
  <2>3. run[r].out[1] = x
    BY <1>2, OneIsSeq
  <2>4. Bind(r, pc, <<y>>)
    BY <1>4, <2>1, <2>3
  <2>5. y = Binding("model_artifact", Artifact(ModelRun(ReceiptOf(states)), y.gen.bytes), NoDate)
    BY <2>2
  <2> HIDE DEF y
  <2>6. /\ DOMAIN run' = Runners /\ DOMAIN run'[r] = DOMAIN Idle /\ run'[r].pc = pc
        /\ run'[r].stage = run[r].stage /\ run'[r].plan = run[r].plan
        /\ run'[r].done = run[r].done /\ run'[r].args = run[r].args
        /\ run'[r].out = <<x, y>>
    <3>1. DOMAIN run = Runners /\ DOMAIN run[r] = DOMAIN Idle
      BY Standing
    <3>2. /\ DOMAIN run' = Runners /\ DOMAIN run'[r] = DOMAIN Idle /\ run'[r].pc = pc
          /\ run'[r].stage = run[r].stage /\ run'[r].plan = run[r].plan
          /\ run'[r].done = run[r].done /\ run'[r].args = run[r].args
          /\ run'[r].out = run[r].out \o <<y>>
      BY <2>4, <3>1, IdleFields DEF Bind
    <3>3. run'[r].out = <<x, y>>
      BY <1>2, <3>2, OneAndOne DEF x
    <3> QED BY <3>2, <3>3
  <2>7. TrainDone(run'[r].out, ReceiptOf(states))
    BY <2>5, <2>6 DEF TrainDone, x
  <2>8. OutSound(states, run'[r])
    <3>1. CASE pc = "state"
      <4>1. StageDone(states, "model_training", run'[r].out)
        BY <2>7 DEF StageDone
      <4> QED BY <1>2, <2>6, <3>1, <4>1, Recordable
    <3>2. CASE pc = "artifact"
      BY <2>6, <2>7, <3>2 DEF OutSound
    <3> QED BY <3>1, <3>2
  <2>9. "model_training" # End
    BY DEF End
  <2>10. RunSound(Plan, states, run'[r])
    BY <1>1, <1>2, <2>6, <2>8, <2>9, Standing, Advances
  <2> QED BY <2>6, <2>10, OnlyTheRunMoves DEF Train
<1> QED BY <1>3, <1>4 DEF Train

\* The rename does not change what is bound.
LEMMA PublishArtifactKeeps ==
  ASSUME NEW r \in Runners, Lineage(r), PublishArtifact(r)
  PROVE  Lineage(r)'
<1>1. /\ run[r].pc = "artifact" /\ Way(Plan, states, run[r]) /\ OutSound(states, run[r])
      /\ run[r].pc \notin ToSet(Plan) \cup {End}
  BY Standing, StepsAreNoStages DEF PublishArtifact
<1>2. /\ TrainDone(run[r].out, ReceiptOf(states)) /\ run[r].stage = "model_training"
      /\ run[r].stage \notin run[r].done
  BY <1>1 DEF Way, OutSound
<1>3. CASE Raise(r)
  BY <1>1, <1>3, Standing, Raises, OnlyTheRunMoves DEF PublishArtifact
<1>4. CASE GoTo(r, "state")
  <2>1. /\ DOMAIN run' = Runners /\ DOMAIN run'[r] = DOMAIN Idle /\ run'[r].pc = "state"
        /\ run'[r].stage = run[r].stage /\ run'[r].plan = run[r].plan
        /\ run'[r].done = run[r].done /\ run'[r].args = run[r].args
        /\ run'[r].out = run[r].out
    BY <1>4, Standing, Goes
  <2>2. StageDone(states, "model_training", run'[r].out)
    BY <1>2, <2>1 DEF StageDone
  <2>3. OutSound(states, run'[r])
    BY <1>2, <2>1, <2>2, Recordable
  <2>4. "model_training" # End
    BY DEF End
  <2>5. RunSound(Plan, states, run'[r])
    BY <1>1, <1>2, <2>1, <2>3, <2>4, Standing, Advances
  <2> QED BY <2>1, <2>5, OnlyTheRunMoves DEF PublishArtifact
<1> QED BY <1>3, <1>4 DEF PublishArtifact

\* An execute passes the risk gate with the records it has.
LEMMA GateKeeps ==
  ASSUME NEW r \in Runners, Lineage(r), Gate(r)
  PROVE  Lineage(r)'
<1>1. /\ run[r].pc = "risk_gate" /\ Way(Plan, states, run[r])
      /\ run[r].pc \notin ToSet(Plan) \cup {End} /\ run[r].pc \notin {"idle", "fold"}
  BY Standing, StepsAreNoStages DEF Gate
<1>2. CASE Raise(r)
  BY <1>1, <1>2, Standing, Raises, OnlyTheRunMoves DEF Gate
<1>3. CASE Enter(r, "portfolio_construction")
  <2> DEFINE next == run'[r]
  <2>1. /\ DOMAIN run' = Runners /\ DOMAIN next = DOMAIN Idle /\ next.out = <<>>
        /\ next.pc = "portfolio_construction" /\ next.stage = "portfolio_construction"
        /\ next.plan = run[r].plan /\ next.done = run[r].done /\ next.args = run[r].args
    BY <1>3, Standing, Enters
  <2> HIDE DEF next
  <2>2. run[r].stage = "portfolio_construction" /\ run[r].stage \in ToSet(Plan)
    BY <1>1 DEF Way
  <2>3. Way(Plan, states, next)
    BY <1>1, <2>1, <2>2 DEF Way
  <2>4. "portfolio_construction" \in StageNames
    BY DEF StageNames
  <2>5. \E a \in Attempts : next.args = {a}
    BY <1>1, <2>1, Standing
  <2>6. OutSound(states, next)
    BY <2>1, <2>3, <2>4, <2>5, Standing, Begun
  <2>7. run[r].done \subseteq StageNames
    BY Standing DEF RunSound
  <2>8. RunSound(Plan, states, next)
    BY <2>1, <2>3, <2>4, <2>5, <2>6, <2>7, StepsAreNoStages DEF RunSound
  <2> QED BY <2>1, <2>8, OnlyTheRunMoves DEF Gate, next
<1> QED BY <1>2, <1>3 DEF Gate

-----------------------------------------------------------------------------
(* Dates, one after the other.                                             *)

\* A binding of a later date at the end.
LEMMA Later ==
  ASSUME NEW b, Ascending(b), NEW x, x.date \in Nat, \A d \in DatesOf(b) : d < x.date
  PROVE  /\ Ascending(b \o <<x>>) /\ DatesOf(b \o <<x>>) = DatesOf(b) \cup {x.date}
         /\ b \o <<x>> # <<>>
         /\ DOMAIN (b \o <<x>>) = 1..(Len(b) + 1) /\ Len(b \o <<x>>) = Len(b) + 1
         /\ \A i \in 1..Len(b) : (b \o <<x>>)[i] = b[i]
         /\ (b \o <<x>>)[Len(b) + 1] = x
<1> DEFINE u == b \o <<x>>
<1>1. IsSeq(b) /\ Len(b) \in Nat /\ DOMAIN b = 1..Len(b)
  BY SeqShape DEF Ascending
<1>2. /\ IsSeq(u) /\ Len(u) = Len(b) + 1 /\ ToSet(u) = ToSet(b) \cup {x}
      /\ \A i \in 1..Len(b) : u[i] = b[i]
      /\ u[Len(b) + 1] = x
  <2>1. IsSeq(<<x>>) /\ Len(<<x>>) = 1 /\ <<x>>[1] = x /\ ToSet(<<x>>) = {x}
    BY OneIsSeq
  <2>2. 1 \in 1..1
    OBVIOUS
  <2>3. /\ IsSeq(u) /\ Len(u) = Len(b) + Len(<<x>>) /\ ToSet(u) = ToSet(b) \cup ToSet(<<x>>)
        /\ \A i \in 1..Len(b) : u[i] = b[i]
        /\ \A i \in 1..Len(<<x>>) : u[Len(b) + i] = <<x>>[i]
    BY <1>1, <2>1, Extended
  <2> HIDE DEF u
  <2>4. u[Len(b) + 1] = x
    BY <2>1, <2>2, <2>3
  <2> QED BY <2>1, <2>3, <2>4
<1> HIDE DEF u
<1>3. Len(u) \in Nat /\ DOMAIN u = 1..Len(u)
  BY <1>2, SeqShape
<1>4. DatesOf(u) = DatesOf(b) \cup {x.date}
  BY <1>2 DEF DatesOf
<1>5. \A i \in DOMAIN u : i \in 1..Len(b) \/ i = Len(b) + 1
  BY <1>1, <1>2, <1>3
<1>6. \A i \in DOMAIN b : b[i].date \in DatesOf(b) /\ b[i].date \in Nat
  BY DatesAre DEF Ascending
<1>7. \A i \in DOMAIN u : u[i].date \in Nat
  BY <1>1, <1>2, <1>5, <1>6
<1>8. \A i, j \in DOMAIN u : i < j => u[i].date < u[j].date
  <2> SUFFICES ASSUME NEW i \in DOMAIN u, NEW j \in DOMAIN u, i < j
               PROVE  u[i].date < u[j].date
    OBVIOUS
  <2>1. i \in 1..Len(b)
    BY <1>1, <1>2, <1>3
  <2>2. CASE j = Len(b) + 1
    BY <1>1, <1>2, <1>6, <2>1, <2>2
  <2>3. CASE j \in 1..Len(b)
    BY <1>1, <1>2, <2>1, <2>3 DEF Ascending
  <2> QED BY <1>5, <2>2, <2>3
<1>9. Ascending(u)
  BY <1>2, <1>7, <1>8 DEF Ascending
<1>10. u # <<>>
  BY <1>1, <1>2, EmptyIsSeq
<1> QED BY <1>1, <1>2, <1>3, <1>4, <1>9, <1>10 DEF u

\* The least of the dates that are left is the first one not done.
LEMMA NextDate ==
  ASSUME NEW b, Ascending(b), NEW k \in 0..(Len(b) - 1)
  PROVE  LET left == DatesOf(b) \ {b[i].date : i \in 1..k}
         IN  /\ k + 1 \in DOMAIN b /\ Min(left) = b[k + 1].date
             /\ left = {Min(left)} <=> k + 1 = Len(b)
<1> DEFINE left == DatesOf(b) \ {b[i].date : i \in 1..k}
<1>1. Len(b) \in Nat /\ DOMAIN b = 1..Len(b)
  BY SeqShape DEF Ascending
<1>2. k + 1 \in DOMAIN b /\ k \in Nat /\ k < Len(b)
  BY <1>1
<1>3. \A j \in DOMAIN b : b[j].date \in left <=> k < j
  <2> TAKE j \in DOMAIN b
  <2>1. b[j].date \in DatesOf(b)
    BY DatesAre
  <2>2. \A i \in 1..k : i \in DOMAIN b /\ (b[i].date = b[j].date <=> i = j)
    BY <1>1, <1>2, AscendingDistinct
  <2> QED BY <1>1, <1>2, <2>1, <2>2
<1>4. \A x \in left : \E j \in DOMAIN b : x = b[j].date /\ k < j
  BY <1>3, DatesAre
<1>5. left \subseteq Nat /\ b[k + 1].date \in left
  BY <1>2, <1>3, <1>4 DEF Ascending
<1>6. \A x \in left : b[k + 1].date <= x
  <2> SUFFICES ASSUME NEW j \in DOMAIN b, k < j PROVE b[k + 1].date <= b[j].date
    BY <1>4
  <2>1. k + 1 <= j
    BY <1>1, <1>2
  <2> QED BY <1>2, <2>1, AscendingDistinct
<1> HIDE DEF left
<1>7. Min(left) \in left /\ Min(left) <= b[k + 1].date
  BY <1>5, LeastDate
<1>8. Min(left) = b[k + 1].date
  <2>1. Min(left) \in Nat /\ b[k + 1].date \in Nat
    BY <1>5, <1>7
  <2>2. b[k + 1].date <= Min(left)
    BY <1>6, <1>7
  <2> QED BY <1>7, <2>1, <2>2
<1>9. ASSUME k + 1 = Len(b) PROVE left = {b[k + 1].date}
  <2>1. \A j \in DOMAIN b : k < j => j = k + 1
    BY <1>1, <1>2, <1>9
  <2> QED BY <1>4, <1>5, <2>1
<1>10. ASSUME left = {b[k + 1].date} PROVE k + 1 = Len(b)
  <2>1. Len(b) \in DOMAIN b /\ k < Len(b)
    BY <1>1, <1>2
  <2>2. b[Len(b)].date = b[k + 1].date
    BY <1>3, <1>10, <2>1
  <2> QED BY <1>2, <2>1, <2>2, AscendingDistinct
<1> QED BY <1>2, <1>8, <1>9, <1>10 DEF left

-----------------------------------------------------------------------------
(* From the predictions to the result.                                     *)

\* Every date is predicted with the artifact in memory, which is the recorded one.
LEMMA PredictKeeps ==
  ASSUME NEW r \in Runners, Lineage(r), Predict(r)
  PROVE  Lineage(r)'
<1>1. In(r, "prediction_publication") /\ "prediction_publication" \in StageNames
  BY DEF Predict, StageNames
<1>2. /\ Way(Plan, states, run[r]) /\ OutSound(states, run[r]) /\ IsPlan(Plan)
      /\ RecordsSound(Plan, states) /\ MemorySound(states, memory[r])
      /\ run[r].pc = "prediction_publication" /\ run[r].stage = "prediction_publication"
      /\ "prediction_publication" \notin run[r].done
  BY <1>1, InStage, Standing
<1>3. CASE Raise(r)
  BY <1>2, <1>3, Standing, Raises, OnlyTheRunMoves DEF Predict
<1>4. PICK a \in Attempts : run[r].args = {a}
  BY <1>2, Standing
<1>5. /\ ArgsOf(run[r]) = a /\ Args(r) = a
      /\ Scored(a) # {} /\ Scored(a) \subseteq Nat
  BY <1>4, Asked DEF ArgsOf, Args
<1> DEFINE out == run[r].out
           left == Left(r, Scored(Args(r)))
           date == Min(left)
<1>6. /\ PredictPart(out, ArtifactOf(states)) /\ DatesOf(out) \subseteq Scored(a)
      /\ left # {} /\ \A x \in left, d \in DatesOf(out) : d < x
      /\ left = Scored(a) \ DatesOf(out)
  <2>1. left = Pending(run[r]) /\ left = Scored(a) \ DatesOf(out)
    BY <1>5 DEF Left, Pending, DatesOf
  <2> QED BY <1>2, <1>5, <2>1 DEF OutSound
<1> HIDE DEF left, out
<1>7. /\ date \in left /\ date \in Nat /\ \A x \in left : date <= x
      /\ left \subseteq Nat
  BY <1>5, <1>6, LeastDate
<1>8. ASSUME NEW scores \in Scores(r), NEW artifact \in memory[r].model,
             Bind(r, IF left = {date} THEN "state" ELSE run[r].pc,
                  <<Binding("prediction_set", Prediction(date, artifact, scores), date)>>)
      PROVE  Lineage(r)'
  <2>1. artifact = ArtifactOf(states)
    BY <1>2 DEF MemorySound
  <2>2. scores.model \subseteq {ArtifactOf(states)}
    <3>1. Bound(r, "model_training", "model_artifact") = {ArtifactOf(states)}
      <4>1. /\ TrainDone(states["model_training"].bindings, ReceiptOf(states))
            /\ run[r].plan["model_training"] = states["model_training"].bindings
        BY <1>2, Knows, BeforeOthers
      <4> QED BY <4>1, TrainShape DEF Bound, ArtifactOf
    <3>2. scores = FromFile \/ \E x \in {ArtifactOf(states)} : scores = Inferred(x)
      BY <3>1 DEF Scores
    <3> QED BY <3>2 DEF FromFile, Inferred
  <2> DEFINE doc == Prediction(date, artifact, scores)
             x == Binding("prediction_set", doc, date)
             pc == IF left = {date} THEN "state" ELSE run[r].pc
             next == run'[r]
  <2>3. x.date = date /\ x.gen = doc /\ doc.scores = scores
    BY BindingFields DEF Prediction
  <2>4. Predicted(x, ArtifactOf(states))
    BY <2>1, <2>2, <2>3 DEF Predicted
  <2>5. /\ DOMAIN run' = Runners /\ DOMAIN next = DOMAIN Idle /\ next.pc = pc
        /\ next.stage = run[r].stage /\ next.plan = run[r].plan
        /\ next.done = run[r].done /\ next.args = run[r].args
        /\ next.out = out \o <<x>>
    BY <1>8, Standing, IdleFields DEF Bind, out
  <2> HIDE DEF x, doc, pc, next
  <2>6. Ascending(out) /\ \A d \in DatesOf(out) : d < x.date
    BY <1>6, <1>7, <2>3 DEF PredictPart
  <2>7. /\ Ascending(next.out) /\ DatesOf(next.out) = DatesOf(out) \cup {date}
        /\ next.out # <<>>
        /\ DOMAIN next.out = 1..(Len(out) + 1)
        /\ \A i \in 1..Len(out) : next.out[i] = out[i]
        /\ next.out[Len(out) + 1] = x
    BY <1>7, <2>3, <2>5, <2>6, Later
  <2>8. PredictPart(next.out, ArtifactOf(states))
    <3>1. Len(out) \in Nat /\ DOMAIN out = 1..Len(out)
      BY <2>6, SeqShape DEF Ascending
    <3>2. \A i \in DOMAIN next.out : i \in 1..Len(out) \/ i = Len(out) + 1
      BY <2>7, <3>1
    <3>3. \A i \in DOMAIN next.out : Predicted(next.out[i], ArtifactOf(states))
      BY <1>6, <2>4, <2>7, <3>1, <3>2 DEF PredictPart
    <3> QED BY <2>7, <3>3 DEF PredictPart
  <2>9. OutSound(states, next)
    <3>1. CASE left = {date}
      <4>1. DatesOf(next.out) = Scored(a)
        BY <1>6, <2>7, <3>1
      <4>2. StageDone(states, "prediction_publication", next.out)
        BY <2>7, <2>8, <4>1 DEF StageDone, PredictDone
      <4> QED BY <1>2, <2>5, <3>1, <4>2, Recordable DEF pc
    <3>2. CASE left # {date}
      <4>1. ArgsOf(next) = a
        BY <1>4, <2>5, Asked
      <4>2. Pending(next) = left \ {date}
        BY <1>6, <2>7, <4>1 DEF Pending
      <4>3. Pending(next) # {} /\ DatesOf(next.out) \subseteq Scored(a)
        BY <1>6, <1>7, <2>7, <3>2, <4>2
      <4>4. \A y \in Pending(next), d \in DatesOf(next.out) : d < y
        <5> TAKE y \in Pending(next), d \in DatesOf(next.out)
        <5>1. y \in left /\ y # date /\ date \in Nat /\ y \in Nat /\ date <= y
          BY <1>7, <4>2
        <5>2. d \in DatesOf(out) \/ d = date
          BY <2>7
        <5>3. CASE d = date
          BY <5>1, <5>3
        <5>4. CASE d \in DatesOf(out)
          BY <1>6, <5>1, <5>4
        <5> QED BY <5>2, <5>3, <5>4
      <4>5. next.pc = "prediction_publication"
        BY <1>2, <2>5, <3>2 DEF pc
      <4> QED BY <2>8, <4>1, <4>3, <4>4, <4>5 DEF OutSound
    <3> QED BY <3>1, <3>2
  <2>10. next.pc = run[r].pc \/ next.pc = "state"
    BY <2>5 DEF pc
  <2>11. RunSound(Plan, states, next)
    BY <1>1, <1>2, <2>5, <2>9, <2>10, Standing, InStage, Advances
  <2> QED BY <2>5, <2>11, OnlyTheRunMoves DEF Predict, next
<1> QED BY <1>3, <1>8 DEF Predict, left

\* What follows from the last of the bindings before a date.
LEMMA LastBefore ==
  ASSUME NEW b, Ascending(b), NEW date \in Nat, \A d \in DatesOf(b) : d < date
  PROVE  LET before == {x \in ToSet(b) : x.date < date}
         IN  {x.gen : x \in {y \in before : \A z \in before : z.date <= y.date}}
               = IF Len(b) = 0 THEN {} ELSE {b[Len(b)].gen}
<1> DEFINE before == {x \in ToSet(b) : x.date < date}
           last == {y \in before : \A z \in before : z.date <= y.date}
<1>1. IsSeq(b) /\ Len(b) \in Nat /\ DOMAIN b = 1..Len(b)
  BY SeqShape DEF Ascending
<1>2. before = ToSet(b)
  BY DEF DatesOf
<1>3. CASE Len(b) = 0
  <2>1. ToSet(b) = {}
    BY <1>1, <1>3 DEF ToSet
  <2> QED BY <1>2, <1>3, <2>1
<1>4. CASE Len(b) # 0
  <2>1. b # <<>>
    BY <1>4, EmptyIsSeq
  <2>2. Len(b) \in DOMAIN b /\ \A i \in DOMAIN b : b[i].date <= b[Len(b)].date
    BY <2>1, LatestIsLast
  <2>3. b[Len(b)] \in last
    BY <1>2, <2>2 DEF ToSet
  <2>4. ASSUME NEW y \in last PROVE y = b[Len(b)]
    <3>1. PICK i \in DOMAIN b : y = b[i]
      BY <1>2 DEF ToSet
    <3>2. b[Len(b)] \in before
      BY <1>2, <2>2 DEF ToSet
    <3>3. b[Len(b)].date <= b[i].date /\ b[i].date <= b[Len(b)].date
      BY <2>2, <3>1, <3>2
    <3>4. b[i].date \in Nat /\ b[Len(b)].date \in Nat
      BY <2>2 DEF Ascending
    <3>5. i = Len(b)
      BY <2>2, <3>3, <3>4, AscendingDistinct
    <3> QED BY <3>1, <3>5
  <2>5. last = {b[Len(b)]}
    BY <2>3, <2>4
  <2> HIDE DEF last
  <2> QED BY <1>4, <2>5 DEF last
<1> QED BY <1>3, <1>4

\* Every date is weighted after the date before it, for the recorded predictions and
\* under the definition of the last of them.
LEMMA ConstructKeeps ==
  ASSUME NEW r \in Runners, Lineage(r), Construct(r)
  PROVE  Lineage(r)'
<1>1. In(r, "portfolio_construction") /\ "portfolio_construction" \in StageNames
  BY DEF Construct, StageNames
<1>2. /\ Way(Plan, states, run[r]) /\ OutSound(states, run[r]) /\ IsPlan(Plan)
      /\ RecordsSound(Plan, states) /\ MemorySound(states, memory[r])
      /\ run[r].pc = "portfolio_construction" /\ run[r].stage = "portfolio_construction"
      /\ "portfolio_construction" \notin run[r].done
  BY <1>1, InStage, Standing
<1>3. CASE Raise(r)
  BY <1>2, <1>3, Standing, Raises, OnlyTheRunMoves DEF Construct
<1> DEFINE out == run[r].out
           P == PredictionsOf(states)
           bindings == OfFamily(run[r].plan["prediction_publication"], "prediction_set")
           predictions == ByDate(bindings)
           left == Left(r, DOMAIN predictions)
           date == Min(left)
           k == Len(out)
<1>4. PredictDone(P, ArtifactOf(states)) /\ run[r].plan["prediction_publication"] = P
  BY <1>2, Knows, BeforeOthers
<1>5. Ascending(P) /\ bindings = P
  BY <1>4, PredictShape DEF PredictDone
<1>6. WeightsPart(out, P) /\ k < Len(P)
  BY <1>2 DEF OutSound
<1> HIDE DEF bindings, P, out
<1>7. /\ Ascending(out) /\ IsSeq(out) /\ DOMAIN out = 1..k /\ k \in Nat
      /\ Len(P) \in Nat /\ DOMAIN P = 1..Len(P)
      /\ \A i \in DOMAIN out : out[i].date = P[i].date
  <2>1. WeightsPart(out, P) /\ Ascending(P)
    BY <1>5, <1>6
  <2>2. /\ Ascending(out) /\ IsSeq(out) /\ DOMAIN out = 1..Len(out) /\ Len(out) \in Nat
        /\ Len(P) \in Nat /\ DOMAIN P = 1..Len(P)
    BY <2>1, WeightsShape
  <2>3. \A i \in DOMAIN out : out[i].date = P[i].date
    BY <2>1, WeightsDates
  <2> QED BY <2>2, <2>3
<1>8. DatesOf(out) = {P[i].date : i \in 1..k}
  BY <1>7, DatesAre
<1>9. left = DatesOf(P) \ {P[i].date : i \in 1..k}
  <2>1. DOMAIN predictions = DatesOf(P)
    BY <1>5, ByDateIs
  <2> QED BY <1>8, <2>1 DEF Left, DatesOf, out
<1> HIDE DEF left
<1>10. /\ k + 1 \in DOMAIN P /\ date = P[k + 1].date
       /\ left = {date} <=> k + 1 = Len(P)
  <2>1. k \in 0..(Len(P) - 1)
    BY <1>6, <1>7
  <2> QED BY <1>5, <1>9, <2>1, NextDate
<1>11. date \in Nat /\ \A d \in DatesOf(out) : d < date
  <2>1. \A i \in 1..k : i \in DOMAIN P /\ i < k + 1
    BY <1>6, <1>7
  <2> QED BY <1>5, <1>8, <1>10, <2>1 DEF Ascending
<1>12. predictions[date] = P[k + 1].gen
  BY <1>5, <1>10, ByDateIs
<1> HIDE DEF predictions
<1>13. ASSUME NEW p \in memory[r].prediction,
              Bind(r, IF left = {date} THEN "state" ELSE run[r].pc,
                   <<Binding("target_weights",
                             WeightsOf(r, date, predictions[date], Definition(p)), date)>>)
       PROVE  Lineage(r)'
  <2> DEFINE previous == IF k = 0 THEN {} ELSE {out[k].gen}
             doc == TargetWeights(P[k + 1].date, P[k + 1].gen, Definition(LastOf(P)), previous)
             x == Binding("target_weights", doc, P[k + 1].date)
             pc == IF left = {date} THEN "state" ELSE run[r].pc
             next == run'[r]
  <2>1. p = LastOf(P)
    BY <1>2 DEF MemorySound, P
  <2>2. WeightsOf(r, date, predictions[date], Definition(p)) = doc
    <3>1. {b.gen : b \in {c \in {b \in ToSet(out) : b.date < date} :
             \A d \in {b \in ToSet(out) : b.date < date} : d.date <= c.date}} = previous
      BY <1>7, <1>11, LastBefore
    <3> QED BY <1>10, <1>12, <2>1, <3>1 DEF WeightsOf, out
  <2>3. x.date = date /\ x.gen = doc
    BY <1>10, BindingFields
  <2>4. /\ DOMAIN run' = Runners /\ DOMAIN next = DOMAIN Idle /\ next.pc = pc
        /\ next.stage = run[r].stage /\ next.plan = run[r].plan
        /\ next.done = run[r].done /\ next.args = run[r].args
        /\ next.out = out \o <<x>>
    <3>1. Bind(r, pc, <<x>>)
      BY <1>10, <1>13, <2>2
    <3> HIDE DEF pc, x
    <3> QED BY <3>1, Standing, IdleFields DEF Bind, out
  <2> HIDE DEF x, doc, pc, next
  <2>5. /\ Ascending(next.out) /\ Len(next.out) = k + 1
        /\ DOMAIN next.out = 1..(k + 1)
        /\ \A i \in 1..k : next.out[i] = out[i]
        /\ next.out[k + 1] = x
    BY <1>7, <1>11, <2>3, <2>4, Later
  <2>6. WeightsPart(next.out, P)
    <3>1. IsSeq(next.out) /\ Len(next.out) <= Len(P)
      BY <1>6, <1>7, <2>5 DEF Ascending
    <3>2. ASSUME NEW i \in 1..k
          PROVE  next.out[i] = Binding("target_weights",
                   TargetWeights(P[i].date, P[i].gen, Definition(LastOf(P)),
                                 IF i = 1 THEN {} ELSE {next.out[i - 1].gen}), P[i].date)
      <4>1. i # 1 => i - 1 \in 1..k
        BY <1>7
      <4>2. i # 1 => next.out[i - 1] = out[i - 1]
        BY <2>5, <4>1
      <4>3. (IF i = 1 THEN {} ELSE {next.out[i - 1].gen}) = IF i = 1 THEN {} ELSE {out[i - 1].gen}
        BY <4>2
      <4>4. out[i] = Binding("target_weights",
                       TargetWeights(P[i].date, P[i].gen, Definition(LastOf(P)),
                                     IF i = 1 THEN {} ELSE {out[i - 1].gen}), P[i].date)
        BY <1>6, <1>7 DEF WeightsPart
      <4> QED BY <2>5, <4>3, <4>4
    <3>3. x = Binding("target_weights",
                TargetWeights(P[k + 1].date, P[k + 1].gen, Definition(LastOf(P)),
                  IF k + 1 = 1 THEN {} ELSE {next.out[(k + 1) - 1].gen}), P[k + 1].date)
      <4>1. k + 1 = 1 <=> k = 0
        BY <1>7
      <4>2. k # 0 => next.out[(k + 1) - 1] = out[k]
        <5>1. (k + 1) - 1 = k /\ (k # 0 => k \in 1..k)
          BY <1>7
        <5> QED BY <2>5, <5>1
      <4>3. (IF k + 1 = 1 THEN {} ELSE {next.out[(k + 1) - 1].gen}) = previous
        BY <4>1, <4>2
      <4> QED BY <4>3 DEF x, doc
    <3>4. \A i \in DOMAIN next.out : i \in 1..k \/ i = k + 1
      BY <1>7, <2>5
    <3> HIDE DEF k
    <3> QED BY <2>5, <3>1, <3>2, <3>3, <3>4 DEF WeightsPart
  <2>7. OutSound(states, next)
    <3>1. CASE k + 1 = Len(P)
      <4>1. StageDone(states, "portfolio_construction", next.out)
        BY <2>5, <2>6, <3>1 DEF StageDone, WeightsDone, P
      <4>2. next.pc = "state"
        BY <1>10, <2>4, <3>1 DEF pc
      <4> QED BY <1>2, <2>4, <4>1, <4>2, Recordable
    <3>2. CASE k + 1 # Len(P)
      <4>1. Len(next.out) < Len(P)
        <5>1. k + 1 <= Len(P)
          BY <1>6, <1>7
        <5>2. Len(next.out) = k + 1 /\ k \in Nat /\ Len(P) \in Nat
          BY <1>7, <2>5
        <5> QED BY <3>2, <5>1, <5>2
      <4>2. next.pc = "portfolio_construction"
        BY <1>2, <1>10, <2>4, <3>2 DEF pc
      <4> QED BY <2>6, <4>1, <4>2 DEF OutSound, P
    <3> QED BY <3>1, <3>2
  <2>8. next.pc = run[r].pc \/ next.pc = "state"
    BY <2>4 DEF pc
  <2>9. RunSound(Plan, states, next)
    BY <1>1, <1>2, <2>4, <2>7, <2>8, Standing, InStage, Advances
  <2> QED BY <2>4, <2>9, OnlyTheRunMoves DEF Construct, next
<1> QED
  <2> DEFINE named == {p \in memory[r].prediction : \E b \in ToSet(bindings) : b.gen = p}
  <2>1. \/ Raise(r)
        \/ \E p \in named :
             Bind(r, IF left = {date} THEN "state" ELSE run[r].pc,
                  <<Binding("target_weights",
                            WeightsOf(r, date, predictions[date], Definition(p)), date)>>)
    BY DEF Construct, bindings, predictions, left
  <2> QED BY <1>3, <1>13, <2>1

\* The portfolio in memory is the recorded one, whatever attempt left it there.
LEMMA ReplayKeeps ==
  ASSUME NEW r \in Runners, Lineage(r), Replay(r)
  PROVE  Lineage(r)'
<1>1. In(r, "backtest_execution") /\ "backtest_execution" \in StageNames
  BY DEF Replay, StageNames
<1>2. /\ Way(Plan, states, run[r]) /\ OutSound(states, run[r]) /\ IsPlan(Plan)
      /\ RecordsSound(Plan, states) /\ MemorySound(states, memory[r])
      /\ run[r].pc = "backtest_execution" /\ run[r].stage = "backtest_execution"
  BY <1>1, InStage, Standing
<1>3. CASE Raise(r)
  BY <1>2, <1>3, Standing, Raises, OnlyTheRunMoves DEF Replay
<1> DEFINE P == PredictionsOf(states)
           W == WeightsIn(states)
<1>4. /\ PredictDone(P, ArtifactOf(states)) /\ WeightsDone(W, P)
  BY <1>2, Knows, BeforeOthers
<1>5. Ascending(P) /\ Ascending(W) /\ run[r].out = <<>>
  BY <1>2, <1>4, WeightsShape DEF PredictDone, PredictPart, WeightsDone, OutSound
<1> HIDE DEF P, W
<1>6. ASSUME NEW p \in memory[r].portfolio,
             Bind(r, "state", <<Binding("backtest_result",
               BacktestResult(p.definition, {p.weights[d] : d \in DOMAIN p.weights}), NoDate)>>)
      PROVE  Lineage(r)'
  <2>1. p.definition = Definition(LastOf(P)) /\ p.weights = ByDate(W)
    BY <1>2 DEF MemorySound, P, W
  <2>2. {p.weights[d] : d \in DOMAIN p.weights} = {W[i].gen : i \in DOMAIN W}
    <3>1. DOMAIN ByDate(W) = {W[i].date : i \in DOMAIN W}
      BY <1>5, ByDateIs, DatesAre
    <3>2. \A i \in DOMAIN W : ByDate(W)[W[i].date] = W[i].gen
      BY <1>5, ByDateIs
    <3> QED BY <2>1, <3>1, <3>2
  <2> DEFINE x == Binding("backtest_result",
                    BacktestResult(Definition(LastOf(P)), {W[i].gen : i \in DOMAIN W}), NoDate)
             next == run'[r]
  <2>3. /\ DOMAIN run' = Runners /\ DOMAIN next = DOMAIN Idle /\ next.pc = "state"
        /\ next.stage = run[r].stage /\ next.plan = run[r].plan
        /\ next.done = run[r].done /\ next.args = run[r].args
        /\ next.out = <<>> \o <<x>>
    <3>1. Bind(r, "state", <<x>>)
      BY <1>6, <2>1, <2>2
    <3> HIDE DEF x
    <3> QED BY <1>5, <3>1, Standing, IdleFields DEF Bind
  <2> HIDE DEF next
  <2>4. next.out = <<x>>
    <3> HIDE DEF x
    <3> QED BY <2>3, NoneAndSome, OneIsSeq
  <2>5. StageDone(states, "backtest_execution", next.out)
    BY <2>4 DEF StageDone, BacktestDone, P, W
  <2>6. OutSound(states, next)
    BY <1>2, <2>3, <2>5, Recordable
  <2>7. RunSound(Plan, states, next)
    BY <1>1, <1>2, <2>3, <2>6, Standing, InStage, Advances
  <2> QED BY <2>3, <2>7, OnlyTheRunMoves DEF Replay, next
<1> QED
  <2>1. \/ Raise(r)
        \/ \E p \in memory[r].portfolio :
             Bind(r, "state", <<Binding("backtest_result",
               BacktestResult(p.definition, {p.weights[d] : d \in DOMAIN p.weights}), NoDate)>>)
    BY DEF Replay
  <2> QED BY <1>3, <1>6, <2>1

\* The four documents of a day, after those of the days before.
FourOf(day, weights, n) ==
  /\ IsSeq(day) /\ Len(day) = 4
  /\ \A i \in 1..4 : /\ day[i].date = weights[n].date
                     /\ day[i].gen.weights = weights[n].gen /\ day[i].path

\* A day of paper more.
LEMMA FourMore ==
  ASSUME NEW out, NEW weights, NEW k \in Nat, PaperPart(out, weights, k), k < Len(weights),
         Len(weights) \in Nat, NEW day, FourOf(day, weights, k + 1)
  PROVE  PaperPart(out \o day, weights, k + 1)
<1> DEFINE u == out \o day
<1>1. IsSeq(out) /\ Len(out) = 4 * k /\ DOMAIN out = 1..(4 * k)
  BY SeqShape DEF PaperPart
<1>2. IsSeq(day) /\ Len(day) = 4
  BY DEF FourOf
<1>3. /\ IsSeq(u) /\ Len(u) = 4 * k + 4
      /\ \A i \in 1..(4 * k) : u[i] = out[i]
      /\ \A i \in 1..4 : u[4 * k + i] = day[i]
      /\ \A i \in 1..(4 * k + 4) : i <= 4 * k \/ \E j \in 1..4 : i = 4 * k + j
  <2>1. IsSeq(u) /\ Len(u) = Len(out) + Len(day)
    BY <1>1, <1>2, Extended
  <2>2. \A i \in 1..Len(out) : u[i] = out[i]
    BY <1>1, <1>2, Extended
  <2>3. ASSUME NEW i \in 1..4 PROVE u[4 * k + i] = day[i]
    <3> DEFINE m == 4 * k + i
    <3>1. IsSeq(out) /\ IsSeq(day) /\ m = Len(out) + i /\ u = out \o day /\ i \in 1..Len(day)
      BY <1>1, <1>2
    <3> HIDE DEF m, u
    <3>2. u[m] = day[i]
      BY <3>1, SecondPart
    <3> QED BY <3>2 DEF m
  <2>4. \A i \in 1..(4 * k + 4) : i <= 4 * k \/ \E j \in 1..4 : i = 4 * k + j
    <3> TAKE i \in 1..(4 * k + 4)
    <3>1. CASE i > 4 * k
      <4>1. i - 4 * k \in 1..4 /\ i = 4 * k + (i - 4 * k)
        BY <3>1
      <4> QED BY <4>1
    <3> QED BY <3>1
  <2> HIDE DEF u
  <2>5. Len(u) = 4 * k + 4
    BY <1>1, <1>2, <2>1
  <2>6. \A i \in 1..(4 * k) : u[i] = out[i]
    BY <1>1, <2>2
  <2> QED BY <2>1, <2>3, <2>4, <2>5, <2>6
<1> HIDE DEF u
<1>4. DOMAIN u = 1..(4 * k + 4)
  BY <1>3, SeqShape
<1>5. ASSUME NEW i \in DOMAIN u
      PROVE  /\ u[i].date = weights[(i + 3) \div 4].date
             /\ u[i].gen.weights = weights[(i + 3) \div 4].gen /\ u[i].path
  <2>1. CASE i <= 4 * k
    <3>1. i \in DOMAIN out
      BY <1>1, <1>4, <2>1
    <3> QED BY <1>1, <1>3, <3>1 DEF PaperPart
  <2>2. ASSUME NEW j \in 1..4, i = 4 * k + j
        PROVE  /\ u[i].date = weights[(i + 3) \div 4].date
               /\ u[i].gen.weights = weights[(i + 3) \div 4].gen /\ u[i].path
    <3>1. (4 * k + j + 3) \div 4 = k + 1
      OBVIOUS
    <3>2. u[i] = day[j]
      BY <1>3, <2>2
    <3>3. day[j].date = weights[k + 1].date /\ day[j].gen.weights = weights[k + 1].gen /\ day[j].path
      BY DEF FourOf
    <3> QED BY <2>2, <3>1, <3>2, <3>3
  <2> QED BY <1>3, <1>4, <2>1, <2>2
<1>6. k + 1 \in 0..Len(weights) /\ Len(u) = 4 * (k + 1)
  BY <1>3
<1>7. PaperPart(u, weights, k + 1)
  BY <1>3, <1>5, <1>6 DEF PaperPart
<1> QED BY <1>7 DEF u

\* The dates of the days of paper.
LEMMA PaperDates ==
  ASSUME NEW out, NEW weights, NEW k \in Nat, PaperPart(out, weights, k)
  PROVE  DatesOf(out) = {weights[i].date : i \in 1..k}
<1>1. IsSeq(out) /\ Len(out) = 4 * k /\ DOMAIN out = 1..(4 * k)
  BY SeqShape DEF PaperPart
<1>2. \A i \in 1..(4 * k) : (i + 3) \div 4 \in 1..k /\ out[i].date = weights[(i + 3) \div 4].date
  BY <1>1 DEF PaperPart
<1>3. \A n \in 1..k : 4 * n \in 1..(4 * k) /\ (4 * n + 3) \div 4 = n
  OBVIOUS
<1>4. DatesOf(out) = {out[i].date : i \in 1..(4 * k)}
  BY <1>1, DatesAre
<1>5. \A n \in 1..k : weights[n].date \in {out[i].date : i \in 1..(4 * k)}
  BY <1>2, <1>3
<1>6. \A i \in 1..(4 * k) : out[i].date \in {weights[n].date : n \in 1..k}
  BY <1>2
<1> QED BY <1>4, <1>5, <1>6

\* Every date trades the weights of the portfolio in memory, which is the recorded one.
LEMMA TradeKeeps ==
  ASSUME NEW r \in Runners, Lineage(r), Trade(r)
  PROVE  Lineage(r)'
<1>1. In(r, "paper_execution") /\ "paper_execution" \in StageNames
  BY DEF Trade, StageNames
<1>2. /\ Way(Plan, states, run[r]) /\ OutSound(states, run[r]) /\ IsPlan(Plan)
      /\ RecordsSound(Plan, states) /\ MemorySound(states, memory[r])
      /\ run[r].pc = "paper_execution" /\ run[r].stage = "paper_execution"
      /\ "paper_execution" \notin run[r].done
  BY <1>1, InStage, Standing
<1>3. CASE Raise(r)
  BY <1>2, <1>3, Standing, Raises, OnlyTheRunMoves DEF Trade
<1> DEFINE out == run[r].out
           P == PredictionsOf(states)
           W == WeightsIn(states)
           weights == ByDate(W)
           left == Left(r, DOMAIN weights)
           date == Min(left)
<1>4. PredictDone(P, ArtifactOf(states)) /\ WeightsDone(W, P)
  BY <1>2, Knows, BeforeOthers
<1>5. Ascending(P) /\ Ascending(W)
  BY <1>4, WeightsShape DEF PredictDone, PredictPart, WeightsDone
<1>6. PICK k \in 0..(Len(W) - 1) : PaperPart(out, W, k)
  BY <1>2 DEF OutSound
<1> HIDE DEF P, W, out
<1>7. Len(W) \in Nat /\ k \in Nat /\ k < Len(W) /\ DOMAIN W = 1..Len(W)
  BY <1>5, SeqShape DEF Ascending
<1>8. left = DatesOf(W) \ {W[i].date : i \in 1..k}
  <2>1. DOMAIN weights = DatesOf(W)
    BY <1>5, ByDateIs
  <2>2. DatesOf(out) = {W[i].date : i \in 1..k}
    BY <1>6, <1>7, PaperDates
  <2> QED BY <2>1, <2>2 DEF Left, DatesOf, out
<1> HIDE DEF left
<1>9. /\ k + 1 \in DOMAIN W /\ date = W[k + 1].date
      /\ left = {date} <=> k + 1 = Len(W)
  BY <1>5, <1>8, NextDate
<1>10. weights[date] = W[k + 1].gen
  BY <1>5, <1>9, ByDateIs
<1> HIDE DEF weights
<1>11. ASSUME NEW previous,
              Bind(r, IF left = {date} THEN "state" ELSE run[r].pc,
                   [i \in 1..4 |-> Binding(PaperFamilies[i],
                                           PaperDay(date, weights[date], previous), date)])
       PROVE  Lineage(r)'
  <2> DEFINE doc == PaperDay(date, weights[date], previous)
             day == [i \in 1..4 |-> Binding(PaperFamilies[i], doc, date)]
             pc == IF left = {date} THEN "state" ELSE run[r].pc
             next == run'[r]
  <2>1. doc.weights = W[k + 1].gen
    BY <1>10 DEF PaperDay
  <2> HIDE DEF doc
  <2>2. FourOf(day, W, k + 1)
    <3>1. \A i \in 1..4 : i = 1 \/ i = 2 \/ i = 3 \/ i = 4
      OBVIOUS
    <3>2. DOMAIN day = 1..4 /\ \A i \in 1..4 : day[i] = Binding(PaperFamilies[i], doc, date)
      OBVIOUS
    <3>3. \A i \in 1..4 : day[i].date = date /\ day[i].gen = doc /\ day[i].path
      BY <3>2, BindingFields
    <3>4. day = [i \in 1..4 |-> day[i]]
      OBVIOUS
    <3> HIDE DEF day
    <3>5. \A i \in 1..4 : day[i] \in {day[1], day[2], day[3], day[4]}
      BY <3>1
    <3>6. ToSet(day) = {day[1], day[2], day[3], day[4]}
      BY <3>1, <3>2 DEF ToSet
    <3>7. IsSeq(day) /\ Len(day) = 4
      BY <3>2, <3>4, <3>5, <3>6 DEF IsSeq
    <3> QED BY <1>9, <2>1, <3>3, <3>7 DEF FourOf
  <2>3. /\ DOMAIN run' = Runners /\ DOMAIN next = DOMAIN Idle /\ next.pc = pc
        /\ next.stage = run[r].stage /\ next.plan = run[r].plan
        /\ next.done = run[r].done /\ next.args = run[r].args
        /\ next.out = out \o day
    <3>1. Bind(r, pc, day)
      BY <1>11 DEF doc
    <3> HIDE DEF pc, day
    <3> QED BY <3>1, Standing, IdleFields DEF Bind, out
  <2> HIDE DEF day, pc, next
  <2>4. PaperPart(next.out, W, k + 1)
    BY <1>6, <1>7, <2>2, <2>3, FourMore
  <2>5. OutSound(states, next)
    <3>1. CASE k + 1 = Len(W)
      <4>1. StageDone(states, "paper_execution", next.out)
        BY <2>4, <3>1 DEF StageDone, W
      <4>2. next.pc = "state"
        BY <1>9, <2>3, <3>1 DEF pc
      <4> QED BY <1>2, <2>3, <4>1, <4>2, Recordable
    <3>2. CASE k + 1 # Len(W)
      <4>1. k + 1 \in 0..(Len(W) - 1)
        <5>1. Len(W) \in Nat /\ k \in Nat /\ k < Len(W)
          BY <1>7
        <5> QED BY <3>2, <5>1
      <4>2. next.pc = "paper_execution"
        BY <1>2, <1>9, <2>3, <3>2 DEF pc
      <4> QED BY <2>4, <4>1, <4>2 DEF OutSound, W
    <3> QED BY <3>1, <3>2
  <2>6. next.pc = run[r].pc \/ next.pc = "state"
    BY <2>3 DEF pc
  <2>7. RunSound(Plan, states, next)
    BY <1>1, <1>2, <2>3, <2>5, <2>6, Standing, InStage, Advances
  <2> QED BY <2>3, <2>7, OnlyTheRunMoves DEF Trade, next
<1> QED
  <2>1. \A p \in memory[r].portfolio : p.weights = weights
    BY <1>2 DEF MemorySound, weights, W
  <2> DEFINE Rest(p) == Left(r, DOMAIN p.weights)
             Day(p) == Min(Rest(p))
             Past(p) == {b \in ToSet(run[r].out) : b.date < Day(p)}
             Previous(p) == {b.gen : b \in {c \in Past(p) : \A d \in Past(p) : d.date <= c.date}}
  <2>2. \/ Raise(r)
        \/ \E p \in memory[r].portfolio :
             Bind(r, IF Rest(p) = {Day(p)} THEN "state" ELSE run[r].pc,
                  [i \in 1..4 |-> Binding(PaperFamilies[i],
                                          PaperDay(Day(p), p.weights[Day(p)], Previous(p)), Day(p))])
    BY DEF Trade
  <2> HIDE DEF Previous
  <2>3. \/ Raise(r)
        \/ \E previous :
             Bind(r, IF left = {date} THEN "state" ELSE run[r].pc,
                  [i \in 1..4 |-> Binding(PaperFamilies[i],
                                          PaperDay(date, weights[date], previous), date)])
    BY <2>1, <2>2 DEF left
  <2> QED BY <1>3, <1>11, <2>3

-----------------------------------------------------------------------------
(* The steps that change a record or a memory.                             *)

\* A record of a stage, once those of all stages before it are there.
LEMMA NewRecord ==
  ASSUME NEW plan, IsPlan(plan), NEW recs, RecordsSound(plan, recs),
         NEW s \in ToSet(plan), ~Has(recs, s), \A t \in Before(plan, s) : Has(recs, t),
         NEW out, StageDone(recs, s, out), NEW others, DOMAIN others = StageNames,
         others[s] = StageState(out), \A t \in StageNames : t # s => others[t] = recs[t]
  PROVE  RecordsSound(plan, others) /\ Has(others, s)
<1>1. s \in StageNames /\ DOMAIN recs = StageNames
  BY StepsAreNoStages DEF RecordsSound
<1>2. /\ DOMAIN others = StageNames /\ others[s] = StageState(out)
      /\ \A t \in StageNames : t # s => others[t] = recs[t]
  BY <1>1
<1>3. Has(others, s) /\ others[s].bindings = out
  BY <1>2 DEF Has, StageState
<1>4. ASSUME NEW t \in ToSet(plan), Has(others, t)
      PROVE  /\ StageDone(others, t, others[t].bindings)
             /\ \A u \in Before(plan, t) : Has(others, u)
  <2>1. /\ \A u \in Before(plan, t) : Has(recs, u) /\ u # s /\ u \in StageNames
        /\ StageDone(recs, t, others[t].bindings)
    <3>1. Before(plan, t) \subseteq StageNames
      BY BeforeOthers, StepsAreNoStages
    <3>2. t \in StageNames
      BY StepsAreNoStages
    <3> QED BY <1>2, <1>3, <1>4, <3>1, <3>2 DEF RecordsSound, Has
  <2>2. \A u \in Before(plan, t) : others[u] = recs[u]
    BY <1>2, <2>1
  <2>3. StageDone(others, t, others[t].bindings)
    BY <2>1, <2>2, StageStands
  <2> QED BY <2>1, <2>2, <2>3 DEF Has
<1> QED BY <1>2, <1>3, <1>4 DEF RecordsSound

\* What the adapters remember stands as long as the records it is of do.
LEMMA MemoryStands ==
  ASSUME NEW plan, IsPlan(plan), NEW recs, RecordsSound(plan, recs), NEW others, NEW held,
         MemorySound(recs, held),
         \A t \in StageNames : Has(recs, t) => Has(others, t) /\ others[t].bindings = recs[t].bindings
  PROVE  MemorySound(others, held)
<1>1. {"model_training", "prediction_publication", "portfolio_construction"} \subseteq ToSet(plan)
  BY DEF IsPlan, StageNames
<1>2. {"model_training", "prediction_publication", "portfolio_construction"} \subseteq StageNames
  BY DEF StageNames
<1>3. Has(recs, "portfolio_construction") => Has(recs, "prediction_publication")
  BY <1>1, BeforeOthers DEF RecordsSound
<1> QED BY <1>2, <1>3 DEF MemorySound, ArtifactOf, PredictionsOf, WeightsIn

\* The record of a stage leaves its execute to take it over.
LEMMA RecordStateKeeps ==
  ASSUME NEW r \in Runners, Runners = {r}, Lineage(r), RecordState(r)
  PROVE  Lineage(r)'
<1> DEFINE ex == run[r]
           s == ex.stage
           next == run'[r]
<1>1. /\ ex.pc = "state" /\ Way(Plan, states, ex) /\ OutSound(states, ex) /\ IsPlan(Plan)
      /\ "state" \notin ToSet(Plan) \cup {End} /\ "fold" \notin ToSet(Plan) \cup {End}
      /\ RecordsSound(Plan, states) /\ MemorySound(states, memory[r])
      /\ ToSet(Plan) \subseteq StageNames
  BY Standing, StepsAreNoStages DEF RecordState
<1>2. /\ s \in ToSet(Plan) /\ s \notin ex.done /\ s \notin Before(Plan, s)
      /\ StageDone(states, s, ex.out)
      /\ \A t \in ToSet(Plan) : Has(states, t) <=> t \in Before(Plan, s) \/ t \in ex.done
      /\ Before(Plan, s) \subseteq ToSet(Plan)
  BY <1>1, BeforeOthers DEF Way, OutSound
<1>3. ~Has(states, s) /\ \A t \in Before(Plan, s) : Has(states, t)
  BY <1>2
<1>4. /\ DOMAIN states' = StageNames /\ states'[s] = StageState(ex.out)
      /\ \A t \in StageNames : t # s => states'[t] = states[t]
  <2>1. DOMAIN states = StageNames /\ s \in StageNames
    BY <1>1, <1>2 DEF RecordsSound
  <2> QED BY <2>1 DEF RecordState
<1> HIDE DEF s
<1>5. RecordsSound(Plan, states') /\ Has(states', s)
  BY <1>1, <1>2, <1>3, <1>4, NewRecord
<1>6. MemorySound(states', memory[r])
  BY <1>1, <1>3, <1>4, MemoryStands DEF Has
<1>7. /\ DOMAIN run' = Runners /\ DOMAIN next = DOMAIN Idle /\ next.pc = "fold"
      /\ next.out = ex.out /\ next.stage = s /\ next.plan = ex.plan /\ next.done = ex.done
      /\ next.args = ex.args
  BY Standing, Goes DEF RecordState, s
<1> HIDE DEF next
<1>8. Way(Plan, states', next)
  <2>1. \A t \in ToSet(Plan) :
          Has(states', t) <=> t \in Before(Plan, s) \/ t \in ex.done \/ t = s
    BY <1>1, <1>2, <1>4, <1>5 DEF Has
  <2>2. \A t \in ToSet(Plan) :
          ex.plan[t] = IF Has(states', t) /\ t # s
                         THEN ApplyBindings(Inputs(t), states'[t].bindings) ELSE Inputs(t)
    BY <1>1, <1>3, <1>4 DEF Way, Has, s
  <2>3. ex.done \subseteq ToSet(Plan) /\ DOMAIN ex.plan = StageNames
    BY <1>1 DEF Way
  <2> QED BY <1>1, <1>2, <1>7, <2>1, <2>2, <2>3 DEF Way
<1>9. OutSound(states', next)
  BY <1>4, <1>7 DEF OutSound
<1>10. RunSound(Plan, states', next)
  BY <1>1, <1>7, <1>8, <1>9, Standing DEF RunSound
<1>11. Plan' = Plan /\ UNCHANGED <<results, memory>>
  BY DEF RecordState, Plan
<1>12. Course(r)'
  BY <1>5, <1>6, <1>7, <1>10, <1>11, Standing DEF Course, next
<1> QED BY <1>11, <1>12 DEF Lineage, ResultIsOneLineage, EveryDateReachesResult

\* Memories that are lost, with an execute or between two.
LEMMA CrashKeeps ==
  ASSUME NEW r \in Runners, Lineage(r), Crash(r)
  PROVE  Lineage(r)'
<1>1. /\ DOMAIN run' = Runners /\ run'[r] = Idle
      /\ DOMAIN memory' = Runners /\ memory'[r] = Nothing
  BY Standing DEF Crash
<1>2. MemorySound(states, Nothing)
  BY DEF MemorySound, Nothing
<1>3. Plan' = Plan /\ UNCHANGED <<results, states>>
  BY DEF Crash, Plan
<1>4. Course(r)'
  BY <1>1, <1>2, <1>3, Standing, IdleIsSound DEF Course
<1> QED BY <1>3, <1>4 DEF Lineage, ResultIsOneLineage, EveryDateReachesResult

\* A new process, which remembers nothing.
LEMMA LeaveKeeps ==
  ASSUME NEW r \in Runners, Lineage(r), Leave(r)
  PROVE  Lineage(r)'
<1>1. DOMAIN memory' = Runners /\ memory'[r] = Nothing
  BY Standing DEF Leave
<1>2. MemorySound(states, Nothing)
  BY DEF MemorySound, Nothing
<1>3. Plan' = Plan /\ UNCHANGED <<results, states, run>>
  BY DEF Leave, Plan
<1>4. Course(r)'
  BY <1>1, <1>2, <1>3, Standing DEF Course
<1> QED BY <1>3, <1>4 DEF Lineage, ResultIsOneLineage, EveryDateReachesResult

\* The record of a failure takes the place of no other.
LEMMA FailKeeps ==
  ASSUME NEW r \in Runners, Lineage(r), Fail(r)
  PROVE  Lineage(r)'
<1>1. /\ DOMAIN states' = DOMAIN states
      /\ \A s \in DOMAIN states :
           \/ states'[s] = states[s]
           \/ states[s] = NoState /\ states'[s] = [NoState EXCEPT !.status = "failed"]
  <2> DEFINE next == Max({0} \cup {i \in DOMAIN Plan : Plan[i] \in Passed}) + 1
             It(s) == next \in DOMAIN Plan /\ s = Plan[next] /\ states[s] = NoState
  <2>1. states' = [s \in DOMAIN states |->
                     IF It(s) THEN [NoState EXCEPT !.status = "failed"] ELSE states[s]]
    BY DEF Fail
  <2>2. \A s : It(s) => states[s] = NoState
    OBVIOUS
  <2> HIDE DEF It
  <2> QED BY <2>1, <2>2
<1>2. /\ NoState.status # "passed" /\ [NoState EXCEPT !.status = "failed"].status # "passed"
      /\ [NoState EXCEPT !.status = "failed"].bindings = NoState.bindings
  BY DEF NoState
<1>3. \A s \in DOMAIN states : /\ Has(states', s) <=> Has(states, s)
                               /\ states'[s].bindings = states[s].bindings
  BY <1>1, <1>2 DEF Has
<1>4. /\ IsPlan(Plan) /\ RecordsSound(Plan, states) /\ MemorySound(states, memory[r])
      /\ DOMAIN states = StageNames /\ ToSet(Plan) \subseteq StageNames
  BY Standing, StepsAreNoStages DEF RecordsSound
<1>5. RecordsSound(Plan, states')
  <2> SUFFICES ASSUME NEW s \in ToSet(Plan), Has(states', s)
               PROVE  /\ StageDone(states', s, states'[s].bindings)
                      /\ \A t \in Before(Plan, s) : Has(states', t)
    BY <1>1, <1>4 DEF RecordsSound
  <2>1. Before(Plan, s) \subseteq StageNames
    BY <1>4, BeforeOthers
  <2>2. /\ StageDone(states, s, states'[s].bindings)
        /\ \A t \in Before(Plan, s) : Has(states, t)
    BY <1>3, <1>4 DEF RecordsSound
  <2> QED BY <1>3, <1>4, <2>1, <2>2, StageStands
<1>6. MemorySound(states', memory[r])
  BY <1>3, <1>4, MemoryStands
<1>7. DOMAIN run' = Runners /\ run'[r] = Idle
  BY Standing DEF Fail
<1>8. Plan' = Plan /\ UNCHANGED <<results, memory>>
  BY DEF Fail, Plan
<1>9. Course(r)'
  BY <1>5, <1>6, <1>7, <1>8, Standing, IdleIsSound DEF Course
<1> QED BY <1>8, <1>9 DEF Lineage, ResultIsOneLineage, EveryDateReachesResult

-----------------------------------------------------------------------------
(* Taking over what a stage recorded.                                      *)

\* Every weights document names the definition of the last prediction.
LEMMA WeightsDefinition ==
  ASSUME NEW out, NEW predictions, WeightsPart(out, predictions), NEW i \in DOMAIN out
  PROVE  out[i].gen.definition = Definition(LastOf(predictions))
<1> DEFINE doc == TargetWeights(predictions[i].date, predictions[i].gen,
                    Definition(LastOf(predictions)), IF i = 1 THEN {} ELSE {out[i - 1].gen})
<1>1. out[i] = Binding("target_weights", doc, predictions[i].date)
  BY DEF WeightsPart
<1>2. doc.definition = Definition(LastOf(predictions))
  BY DEF TargetWeights
<1> HIDE DEF doc
<1> QED BY <1>1, <1>2, BindingFields

\* What an adapter keeps of the stage it has run is what was recorded of it.
LEMMA KeptIsSound ==
  ASSUME NEW r \in Runners, Lineage(r), run[r].pc = "fold"
  PROVE  MemorySound(states, Kept(r))
<1> DEFINE ex == run[r]
           s == ex.stage
           out == ex.out
           held == memory[r]
           P == PredictionsOf(states)
           W == WeightsIn(states)
<1>1. /\ Way(Plan, states, ex) /\ OutSound(states, ex) /\ IsPlan(Plan)
      /\ RecordsSound(Plan, states) /\ MemorySound(states, held)
      /\ "fold" \notin ToSet(Plan) \cup {End}
  BY Standing, StepsAreNoStages
<1>2. states[s] = StageState(out) /\ s \in ToSet(Plan) /\ Has(states, s)
  BY <1>1 DEF Way, OutSound
<1>3. states[s].bindings = out /\ StageDone(states, s, out)
  BY <1>1, <1>2 DEF RecordsSound, StageState
<1>4. DOMAIN held = {"model", "prediction", "portfolio", "paper"}
  BY <1>1 DEF MemorySound, Nothing
<1> DEFINE last == out[Len(out)].gen
           kept == [definition |-> last.definition, weights |-> ByDate(out), state |-> out]
<1>5. CASE s = "model_training"
  <2>1. last = ArtifactOf(states)
    <3>1. Len(out) = 2
      BY <1>3, <1>5, TrainShape DEF StageDone
    <3> QED BY <1>3, <1>5, <3>1 DEF ArtifactOf
  <2>2. Kept(r) = [held EXCEPT !.model = {last}]
    BY <1>5 DEF Kept
  <2> HIDE DEF last, held
  <2>3. /\ DOMAIN Kept(r) = DOMAIN held /\ Kept(r).model = {last}
        /\ Kept(r).prediction = held.prediction /\ Kept(r).portfolio = held.portfolio
    BY <1>4, <2>2
  <2> QED BY <1>1, <1>2, <1>5, <2>1, <2>3 DEF MemorySound
<1>6. CASE s = "prediction_publication"
  <2>1. last = LastOf(P)
    BY <1>3, <1>6 DEF LastOf, PredictionsOf
  <2>2. Kept(r) = [held EXCEPT !.prediction = {last}]
    BY <1>6 DEF Kept
  <2> HIDE DEF last, held, P
  <2>3. /\ DOMAIN Kept(r) = DOMAIN held /\ Kept(r).prediction = {last}
        /\ Kept(r).model = held.model /\ Kept(r).portfolio = held.portfolio
    BY <1>4, <2>2
  <2> QED BY <1>1, <1>2, <1>6, <2>1, <2>3 DEF MemorySound, P
<1>7. CASE s = "portfolio_construction"
  <2>1. out = W /\ WeightsDone(out, P)
    BY <1>3, <1>7 DEF WeightsIn, StageDone
  <2>2. PredictDone(P, ArtifactOf(states))
    BY <1>1, <1>7, Knows, BeforeOthers
  <2>3. Len(out) \in DOMAIN out
    <3>1. Len(P) \in Nat /\ Len(P) # 0
      BY <2>2, PredictShape, SomeHaveLength DEF PredictDone
    <3>2. Len(out) = Len(P) /\ IsSeq(out)
      BY <2>1 DEF WeightsDone, WeightsPart
    <3>3. DOMAIN out = 1..Len(out) /\ Len(out) \in Nat /\ Len(out) # 0
      BY <3>1, <3>2, SeqShape
    <3> HIDE DEF out
    <3> QED BY <3>3
  <2>4. last.definition = Definition(LastOf(P))
    BY <2>1, <2>3, WeightsDefinition DEF WeightsDone
  <2>5. Kept(r) = [held EXCEPT !.portfolio = {kept}]
    BY <1>7 DEF Kept
  <2>6. kept = [definition |-> Definition(LastOf(P)), weights |-> ByDate(W), state |-> W]
    BY <2>1, <2>4
  <2> HIDE DEF kept, held, P, W
  <2>7. /\ DOMAIN Kept(r) = DOMAIN held /\ Kept(r).portfolio = {kept}
        /\ Kept(r).model = held.model /\ Kept(r).prediction = held.prediction
    BY <1>4, <2>5
  <2> QED BY <1>1, <1>2, <1>7, <2>6, <2>7 DEF MemorySound, P, W
<1>8. CASE s = "paper_execution"
  <2>1. Kept(r) = [held EXCEPT !.paper = {out}]
    BY <1>8 DEF Kept
  <2> HIDE DEF held
  <2>2. /\ DOMAIN Kept(r) = DOMAIN held /\ Kept(r).model = held.model
        /\ Kept(r).prediction = held.prediction /\ Kept(r).portfolio = held.portfolio
    BY <1>4, <2>1
  <2> QED BY <1>1, <2>2 DEF MemorySound
<1>9. CASE s \notin {"model_training", "prediction_publication", "portfolio_construction",
                     "paper_execution"}
  <2>1. Kept(r) = held
    BY <1>9 DEF Kept
  <2> QED BY <1>1, <2>1
<1> QED BY <1>5, <1>6, <1>7, <1>8, <1>9

\* An execute that takes over the record of its stage goes on to the next.
LEMMA FoldKeeps ==
  ASSUME NEW r \in Runners, Lineage(r), Fold(r)
  PROVE  Lineage(r)'
<1> DEFINE ex == run[r]
           s == ex.stage
           next == run'[r]
<1>1. /\ ex.pc = "fold" /\ Way(Plan, states, ex) /\ OutSound(states, ex) /\ IsPlan(Plan)
      /\ "fold" \notin ToSet(Plan) \cup {End} /\ ToSet(Plan) \subseteq StageNames
      /\ RecordsSound(Plan, states) /\ DOMAIN ex = DOMAIN Idle /\ DOMAIN run = Runners
      /\ \E a \in Attempts : ex.args = {a}
  BY Standing, StepsAreNoStages DEF Fold
<1>2. s \in ToSet(Plan) /\ Has(states, s) /\ s \in StageNames
  BY <1>1 DEF Way
<1>3. /\ DOMAIN ex.plan = StageNames /\ ex.plan[s] = Inputs(s)
  BY <1>1, <1>2 DEF Way
<1> DEFINE went == Proceed(r)
<1>4. /\ DOMAIN went = Runners /\ DOMAIN went[r] = DOMAIN Idle
      /\ went[r].pc = Following(r) /\ went[r].out = <<>> /\ went[r].stage = After(Plan, s)
      /\ went[r].plan = ex.plan /\ went[r].done = ex.done /\ went[r].args = ex.args
  BY <1>1, Proceeds
<1>5. run' = [went EXCEPT ![r].plan[s] = ApplyBindings(@, states[s].bindings)]
  BY DEF Fold
<1> HIDE DEF went, s
<1>6. /\ DOMAIN run' = Runners /\ DOMAIN next = DOMAIN Idle
      /\ next.pc = Following(r) /\ next.out = <<>> /\ next.stage = After(Plan, s)
      /\ next.done = ex.done /\ next.args = ex.args
      /\ next.plan = [ex.plan EXCEPT ![s] = ApplyBindings(ex.plan[s], states[s].bindings)]
  BY <1>4, <1>5, IdleFields
<1>7. /\ DOMAIN next.plan = StageNames
      /\ next.plan[s] = ApplyBindings(Inputs(s), states[s].bindings)
      /\ \A t \in ToSet(Plan) : t # s => next.plan[t] = ex.plan[t]
  BY <1>1, <1>2, <1>3, <1>6
<1>8. next.pc = IF s = "prediction_publication" THEN "risk_gate" ELSE next.stage
  BY <1>6 DEF Following, s
<1> HIDE DEF next
<1>9. RunSound(Plan, states, next)
  BY <1>1, <1>2, <1>6, <1>7, <1>8, GoesOn DEF s
<1>10. DOMAIN memory' = Runners /\ memory'[r] = Kept(r)
  BY Standing DEF Fold
<1>11. MemorySound(states, memory'[r])
  BY <1>1, <1>10, KeptIsSound
<1>12. Plan' = Plan /\ UNCHANGED <<results, states>>
  BY DEF Fold, Plan
<1>13. Course(r)'
  BY <1>1, <1>6, <1>9, <1>10, <1>11, <1>12 DEF Course, next
<1> QED BY <1>12, <1>13 DEF Lineage, ResultIsOneLineage, EveryDateReachesResult

\* What a retry restores from the stores is what was recorded.
LEMMA RestoredIsSound ==
  ASSUME NEW plan, IsPlan(plan), NEW recs, RecordsSound(plan, recs)
  PROVE  /\ Has(recs, "model_training") =>
              TheBinding(ApplyBindings(Inputs("model_training"), recs["model_training"].bindings),
                         "model_artifact") = {ArtifactOf(recs)}
         /\ Has(recs, "prediction_publication") =>
              LET held == ApplyBindings(Inputs("prediction_publication"), PredictionsOf(recs))
              IN  /\ LatestBinding(OfFamily(held, "prediction_set")).gen = LastOf(PredictionsOf(recs))
                  /\ LatestBinding(held).gen = LastOf(PredictionsOf(recs))
         /\ Has(recs, "portfolio_construction") =>
              LET held == ApplyBindings(Inputs("portfolio_construction"), WeightsIn(recs))
              IN  OfFamily(held, "target_weights") = WeightsIn(recs)
<1>1. {"model_training", "prediction_publication", "portfolio_construction"} \subseteq ToSet(plan)
  BY DEF IsPlan, StageNames
<1>2. ASSUME Has(recs, "model_training")
      PROVE  TheBinding(ApplyBindings(Inputs("model_training"), recs["model_training"].bindings),
                        "model_artifact") = {ArtifactOf(recs)}
  <2>1. StageDone(recs, "model_training", recs["model_training"].bindings)
    BY <1>1, <1>2 DEF RecordsSound
  <2> DEFINE held == ApplyBindings(Inputs("model_training"), recs["model_training"].bindings)
  <2>2. TrainDone(recs["model_training"].bindings, ReceiptOf(recs))
        /\ held = recs["model_training"].bindings
    BY <2>1, PlanShows
  <2> HIDE DEF held
  <2> QED BY <2>2, TrainShape DEF ArtifactOf, held
<1>3. ASSUME Has(recs, "prediction_publication")
      PROVE  LET held == ApplyBindings(Inputs("prediction_publication"), PredictionsOf(recs))
             IN  /\ LatestBinding(OfFamily(held, "prediction_set")).gen = LastOf(PredictionsOf(recs))
                 /\ LatestBinding(held).gen = LastOf(PredictionsOf(recs))
  <2> DEFINE held == ApplyBindings(Inputs("prediction_publication"), PredictionsOf(recs))
             P == PredictionsOf(recs)
  <2>1. StageDone(recs, "prediction_publication", P)
    BY <1>1, <1>3 DEF RecordsSound, PredictionsOf
  <2>2. PredictDone(P, ArtifactOf(recs)) /\ held = P
    BY <2>1, PlanShows DEF PredictionsOf
  <2> HIDE DEF held, P
  <2>3. Ascending(P) /\ OfFamily(P, "prediction_set") = P /\ P # <<>>
    BY <2>2, PredictShape DEF PredictDone
  <2>4. LatestBinding(P) = P[Len(P)]
    BY <2>3, LatestIsLast
  <2>5. LatestBinding(OfFamily(held, "prediction_set")).gen = LastOf(P) /\ LatestBinding(held).gen = LastOf(P)
    BY <2>2, <2>3, <2>4 DEF LastOf
  <2> QED BY <2>5 DEF held, P
<1>4. ASSUME Has(recs, "portfolio_construction")
      PROVE  LET held == ApplyBindings(Inputs("portfolio_construction"), WeightsIn(recs))
             IN  OfFamily(held, "target_weights") = WeightsIn(recs)
  <2> DEFINE held == ApplyBindings(Inputs("portfolio_construction"), WeightsIn(recs))
             W == WeightsIn(recs)
             P == PredictionsOf(recs)
  <2>1. /\ StageDone(recs, "portfolio_construction", W) /\ Has(recs, "prediction_publication")
    BY <1>1, <1>4, BeforeOthers DEF RecordsSound, WeightsIn
  <2>2. WeightsDone(W, P) /\ held = W
    BY <2>1, PlanShows DEF WeightsIn
  <2>3. PredictDone(P, ArtifactOf(recs))
    BY <1>1, <2>1 DEF RecordsSound, PredictionsOf, StageDone
  <2> HIDE DEF held, P, W
  <2>4. OfFamily(W, "target_weights") = W
    <3>1. Ascending(P)
      BY <2>3 DEF PredictDone, PredictPart
    <3> QED BY <2>2, <3>1, WeightsShape DEF WeightsDone
  <2>5. OfFamily(held, "target_weights") = W
    BY <2>2, <2>4
  <2> QED BY <2>5 DEF held, W
<1> QED BY <1>2, <1>3, <1>4

\* The stages of the longer plan are all there are.
LEMMA AllStages == ToSet(Stages) = StageNames /\ Stages[1] = "factor_computation"
<1>1. /\ DOMAIN Stages = 1..8
      /\ Stages[1] = "factor_computation" /\ Stages[2] = "dataset_preparation"
      /\ Stages[3] = "qlib_export" /\ Stages[4] = "model_training"
      /\ Stages[5] = "prediction_publication" /\ Stages[6] = "portfolio_construction"
      /\ Stages[7] = "backtest_execution" /\ Stages[8] = "paper_execution"
  BY DEF Stages
<1> QED BY <1>1 DEF ToSet, StageNames

\* A retry starts from the stages that have passed, with what they handed over.
LEMMA ResumeKeeps ==
  ASSUME NEW r \in Runners, Lineage(r), Resume(r)
  PROVE  Lineage(r)'
<1> DEFINE ex == run[r]
           next == run'[r]
           held == memory[r]
           after == memory'[r]
           P == PredictionsOf(states)
           W == WeightsIn(states)
<1>1. /\ ex.pc = "resume" /\ IsPlan(Plan) /\ ToSet(Plan) \subseteq StageNames
      /\ RecordsSound(Plan, states) /\ MemorySound(states, held)
      /\ RunSound(Plan, states, ex) /\ DOMAIN ex = DOMAIN Idle
      /\ DOMAIN run = Runners /\ DOMAIN memory = Runners
      /\ \E a \in Attempts : ex.args = {a}
  BY Standing, StepsAreNoStages DEF Resume
<1>2. ex.stage = "factor_computation" /\ ex.out = <<>>
  BY <1>1 DEF RunSound
<1>3. /\ DOMAIN run' = Runners /\ DOMAIN next = DOMAIN Idle
      /\ next.pc = "factor_computation" /\ next.plan = ResumedPlan /\ next.done = Passed
      /\ next.stage = ex.stage /\ next.out = ex.out /\ next.args = ex.args
  <2> HIDE DEF ResumedPlan
  <2> QED BY <1>1, AllStages, IdleFields DEF Resume
<1>4. Passed = {s \in ToSet(Plan) : Has(states, s)}
  BY DEF Passed, Has
<1>5. /\ DOMAIN ResumedPlan = StageNames
      /\ \A s \in ToSet(Plan) :
           ResumedPlan[s] = IF Has(states, s) THEN ApplyBindings(Inputs(s), states[s].bindings)
                                              ELSE Inputs(s)
  BY <1>1, <1>4, AllStages DEF ResumedPlan
<1> HIDE DEF next
<1>6. Way(Plan, states, next)
  <2>1. "factor_computation" \in ToSet(Plan) /\ Before(Plan, "factor_computation") = {}
    BY <1>1 DEF IsPlan, StageNames
  <2> QED BY <1>2, <1>3, <1>4, <1>5, <2>1 DEF Way
<1>7. OutSound(states, next)
  <2>1. "factor_computation" \in StageNames
    BY DEF StageNames
  <2> QED BY <1>1, <1>2, <1>3, <1>6, <2>1, Begun
<1>8. RunSound(Plan, states, next)
  BY <1>1, <1>3, <1>4, <1>6, <1>7 DEF RunSound
<1>9. {"model_training", "prediction_publication", "portfolio_construction"} \subseteq ToSet(Plan)
  BY <1>1 DEF IsPlan, StageNames
<1>10. RestoredModel(ResumedPlan) # {} /\ Has(states, "model_training") =>
         RestoredModel(ResumedPlan) = {ArtifactOf(states)}
  <2>1. Has(states, "model_training") =>
          TheBinding(ResumedPlan["model_training"], "model_artifact") = {ArtifactOf(states)}
    BY <1>1, <1>5, <1>9, RestoredIsSound
  <2> QED BY <2>1 DEF RestoredModel
<1>11. Has(states, "prediction_publication") =>
         /\ RestoredPrediction(ResumedPlan) = {LastOf(P)}
         /\ LatestBinding(ResumedPlan["prediction_publication"]).gen = LastOf(P)
  <2>1. Has(states, "prediction_publication") =>
          /\ LatestBinding(OfFamily(ResumedPlan["prediction_publication"], "prediction_set")).gen
               = LastOf(P)
          /\ LatestBinding(ResumedPlan["prediction_publication"]).gen = LastOf(P)
    <3>1. Has(states, "prediction_publication") =>
            ResumedPlan["prediction_publication"] = ApplyBindings(Inputs("prediction_publication"), P)
      BY <1>5, <1>9 DEF PredictionsOf
    <3> QED BY <1>1, <3>1, RestoredIsSound
  <2> QED BY <2>1 DEF RestoredPrediction
<1>12. Has(states, "portfolio_construction") =>
         /\ Has(states, "prediction_publication")
         /\ RestoredPortfolio(ResumedPlan) =
              {[definition |-> Definition(LastOf(P)), weights |-> ByDate(W), state |-> W]}
  <2>1. Has(states, "portfolio_construction") =>
          OfFamily(ResumedPlan["portfolio_construction"], "target_weights") = W
    <3>1. Has(states, "portfolio_construction") =>
            ResumedPlan["portfolio_construction"] = ApplyBindings(Inputs("portfolio_construction"), W)
      BY <1>5, <1>9 DEF WeightsIn
    <3> QED BY <1>1, <3>1, RestoredIsSound
  <2>2. Has(states, "portfolio_construction") => Has(states, "prediction_publication")
    BY <1>1, <1>9, BeforeOthers DEF RecordsSound
  <2>3. states["portfolio_construction"].bindings = W
    BY DEF WeightsIn
  <2> HIDE DEF W, P
  <2> QED BY <1>11, <2>1, <2>2, <2>3 DEF RestoredPortfolio
<1>13. /\ DOMAIN memory' = Runners /\ DOMAIN after = DOMAIN Nothing
       /\ after.model = IF Has(states, "model_training")
                          THEN RestoredModel(ResumedPlan) ELSE held.model
       /\ \/ after.prediction = held.prediction
          \/ /\ Has(states, "prediction_publication")
             /\ after.prediction = RestoredPrediction(ResumedPlan)
       /\ \/ after.portfolio = held.portfolio
          \/ /\ Has(states, "portfolio_construction")
             /\ after.portfolio = RestoredPortfolio(ResumedPlan)
  <2>1. DOMAIN held = {"model", "prediction", "portfolio", "paper"}
    BY <1>1 DEF MemorySound, Nothing
  <2>2. DOMAIN Nothing = {"model", "prediction", "portfolio", "paper"}
    BY DEF Nothing
  <2> DEFINE model == IF "model_training" \in Passed THEN RestoredModel(ResumedPlan) ELSE held.model
             prediction == IF {"model_training", "prediction_publication"} \subseteq Passed
                             THEN RestoredPrediction(ResumedPlan) ELSE held.prediction
             portfolio == IF {"model_training", "portfolio_construction"} \subseteq Passed
                            THEN RestoredPortfolio(ResumedPlan) ELSE held.portfolio
  <2>4. /\ model = IF Has(states, "model_training") THEN RestoredModel(ResumedPlan) ELSE held.model
        /\ prediction = held.prediction \/ (/\ Has(states, "prediction_publication")
                                            /\ prediction = RestoredPrediction(ResumedPlan))
        /\ portfolio = held.portfolio \/ (/\ Has(states, "portfolio_construction")
                                          /\ portfolio = RestoredPortfolio(ResumedPlan))
    BY <1>4, <1>9
  <2>5. /\ DOMAIN memory' = Runners /\ DOMAIN after = DOMAIN held /\ after.model = model
        /\ after.prediction = prediction /\ after.portfolio = portfolio
    <3>1. DOMAIN memory' = Runners /\ after = Restored(held, ResumedPlan)
      BY <1>1 DEF Resume
    <3> HIDE DEF after, held
    <3>2. Restored(held, ResumedPlan) = [held EXCEPT !.model = model, !.prediction = prediction,
                                                     !.portfolio = portfolio]
      BY DEF Restored
    <3> HIDE DEF model, prediction, portfolio
    <3> QED BY <2>1, <3>1, <3>2
  <2> HIDE DEF model, prediction, portfolio
  <2> QED BY <2>1, <2>2, <2>4, <2>5
<1> HIDE DEF after, held, P, W
<1>14. MemorySound(states, after)
  <2>1. after.model # {} => Has(states, "model_training") /\ after.model = {ArtifactOf(states)}
    BY <1>1, <1>10, <1>13 DEF MemorySound
  <2>2. after.prediction # {} => /\ Has(states, "prediction_publication")
                                 /\ after.prediction = {LastOf(P)}
    BY <1>1, <1>11, <1>13 DEF MemorySound, P
  <2>3. after.portfolio # {} =>
          /\ Has(states, "portfolio_construction")
          /\ after.portfolio = {[definition |-> Definition(LastOf(P)), weights |-> ByDate(W),
                                 state |-> W]}
    BY <1>1, <1>12, <1>13 DEF MemorySound, P, W
  <2> QED BY <1>13, <2>1, <2>2, <2>3 DEF MemorySound, P, W
<1>15. Plan' = Plan /\ UNCHANGED <<results, states>>
  BY DEF Resume, Plan
<1>16. Course(r)'
  BY <1>1, <1>3, <1>8, <1>13, <1>14, <1>15 DEF Course, next, after
<1> QED BY <1>15, <1>16 DEF Lineage, ResultIsOneLineage, EveryDateReachesResult

-----------------------------------------------------------------------------
(* The result.                                                             *)

\* A result that shows what all stages of a plan have recorded.
ShowsAll(plan, recs, result) ==
  /\ DOMAIN result = ToSet(plan)
  /\ \A s \in ToSet(plan) :
       Has(recs, s) /\ result[s] = Listed(ApplyBindings(Inputs(s), recs[s].bindings))

\* What such a result lists: the recorded documents.
LEMMA ShownRecords ==
  ASSUME NEW plan, IsPlan(plan), NEW recs, RecordsSound(plan, recs), NEW result,
         ShowsAll(plan, recs, result)
  PROVE  /\ BindingOf(result, "qlib_export", "qlib_init_receipt") = ReceiptOf(recs)
         /\ BindingOf(result, "model_training", "model_run") = ModelRun(ReceiptOf(recs))
         /\ BindingOf(result, "model_training", "model_artifact") = ArtifactOf(recs)
         /\ ArtifactOf(recs).run = ModelRun(ReceiptOf(recs))
         /\ ArtifactOf(recs).run.receipt = ReceiptOf(recs)
         /\ BindingOf(result, "backtest_execution", "backtest_result") =
              BacktestResult(Definition(LastOf(PredictionsOf(recs))),
                             {WeightsIn(recs)[i].gen : i \in DOMAIN WeightsIn(recs)})
         /\ PredictDone(PredictionsOf(recs), ArtifactOf(recs))
         /\ WeightsDone(WeightsIn(recs), PredictionsOf(recs))
         /\ result["prediction_publication"] = PredictionsOf(recs)
         /\ result["portfolio_construction"] = WeightsIn(recs)
         /\ "paper_execution" \in ToSet(plan) =>
              PaperPart(result["paper_execution"], WeightsIn(recs), Len(WeightsIn(recs)))
<1>1. /\ {"qlib_export", "model_training", "prediction_publication", "portfolio_construction",
          "backtest_execution"} \subseteq ToSet(plan)
  BY DEF IsPlan, StageNames
<1>2. \A s \in ToSet(plan) :
        /\ StageDone(recs, s, recs[s].bindings)
        /\ result[s] = Listed(ApplyBindings(Inputs(s), recs[s].bindings))
  BY DEF ShowsAll, RecordsSound
<1>3. \A x : (CHOOSE g \in {x} : TRUE) = x
  OBVIOUS
<1>4. BindingOf(result, "qlib_export", "qlib_init_receipt") = ReceiptOf(recs)
  <2> DEFINE out == recs["qlib_export"].bindings
  <2>1. ExportDone(out)
    BY <1>1, <1>2 DEF StageDone
  <2>2. ReceiptOf(recs) = out[2].gen
    BY DEF ReceiptOf
  <2>3. result["qlib_export"] = Listed(ApplyBindings(Inputs("qlib_export"), out))
    BY <1>1, <1>2
  <2> HIDE DEF out
  <2>4. result["qlib_export"] = out
    BY <2>1, <2>3, ExportShape, RecordsAreShown
  <2> QED BY <1>3, <2>1, <2>2, <2>4, ExportShape DEF BindingOf
<1>5. /\ BindingOf(result, "model_training", "model_run") = ModelRun(ReceiptOf(recs))
      /\ BindingOf(result, "model_training", "model_artifact") = ArtifactOf(recs)
      /\ ArtifactOf(recs).run = ModelRun(ReceiptOf(recs))
      /\ ArtifactOf(recs).run.receipt = ReceiptOf(recs)
  <2> DEFINE out == recs["model_training"].bindings
             receipt == ReceiptOf(recs)
  <2>1. TrainDone(out, receipt)
    BY <1>1, <1>2 DEF StageDone
  <2>2. ArtifactOf(recs) = out[2].gen
    BY DEF ArtifactOf
  <2>3. result["model_training"] = Listed(ApplyBindings(Inputs("model_training"), out))
    BY <1>1, <1>2
  <2> HIDE DEF out, receipt
  <2>4. result["model_training"] = out
    BY <2>1, <2>3, TrainShape, RecordsAreShown
  <2>5. /\ BindingOf(result, "model_training", "model_run") = ModelRun(receipt)
        /\ BindingOf(result, "model_training", "model_artifact") = out[2].gen
        /\ out[2].gen.run = ModelRun(receipt) /\ out[2].gen.run.receipt = receipt
    BY <1>3, <2>1, <2>4, TrainShape DEF BindingOf
  <2> QED BY <2>2, <2>5 DEF receipt
<1>6. /\ PredictDone(PredictionsOf(recs), ArtifactOf(recs))
      /\ result["prediction_publication"] = PredictionsOf(recs)
  <2> DEFINE out == PredictionsOf(recs)
  <2>1. PredictDone(out, ArtifactOf(recs))
    BY <1>1, <1>2 DEF StageDone, PredictionsOf
  <2>2. result["prediction_publication"] =
          Listed(ApplyBindings(Inputs("prediction_publication"), out))
    BY <1>1, <1>2 DEF PredictionsOf
  <2> HIDE DEF out
  <2>3. IsSeq(out) /\ \A i \in DOMAIN out : out[i].path
    BY <2>1, PredictShape DEF PredictDone
  <2>4. result["prediction_publication"] = out
    BY <2>2, <2>3, RecordsAreShown
  <2> QED BY <2>1, <2>4 DEF out
<1>7. /\ WeightsDone(WeightsIn(recs), PredictionsOf(recs))
      /\ result["portfolio_construction"] = WeightsIn(recs)
  <2> DEFINE out == WeightsIn(recs)
             P == PredictionsOf(recs)
  <2>1. WeightsDone(out, P)
    BY <1>1, <1>2 DEF StageDone, WeightsIn
  <2>2. result["portfolio_construction"] =
          Listed(ApplyBindings(Inputs("portfolio_construction"), out))
    BY <1>1, <1>2 DEF WeightsIn
  <2> HIDE DEF out, P
  <2>3. IsSeq(out) /\ \A i \in DOMAIN out : out[i].path
    <3>1. WeightsPart(out, P)
      BY <2>1 DEF WeightsDone
    <3>2. ASSUME NEW i \in DOMAIN out PROVE out[i].path
      <4> DEFINE doc == TargetWeights(P[i].date, P[i].gen, Definition(LastOf(P)),
                                      IF i = 1 THEN {} ELSE {out[i - 1].gen})
      <4>1. out[i] = Binding("target_weights", doc, P[i].date)
        BY <3>1 DEF WeightsPart
      <4> HIDE DEF doc
      <4> QED BY <4>1, BindingFields
    <3> QED BY <3>1, <3>2 DEF WeightsPart
  <2>4. result["portfolio_construction"] = out
    BY <2>2, <2>3, RecordsAreShown
  <2> QED BY <2>1, <2>4 DEF out, P
<1>8. BindingOf(result, "backtest_execution", "backtest_result") =
        BacktestResult(Definition(LastOf(PredictionsOf(recs))),
                       {WeightsIn(recs)[i].gen : i \in DOMAIN WeightsIn(recs)})
  <2> DEFINE out == recs["backtest_execution"].bindings
             P == PredictionsOf(recs)
             W == WeightsIn(recs)
             doc == BacktestResult(Definition(LastOf(P)), {W[i].gen : i \in DOMAIN W})
  <2>1. BacktestDone(out, P, W)
    BY <1>1, <1>2 DEF StageDone
  <2>2. result["backtest_execution"] = Listed(ApplyBindings(Inputs("backtest_execution"), out))
    BY <1>1, <1>2
  <2> HIDE DEF out, P, W
  <2>3. TheBinding(result["backtest_execution"], "backtest_result") = {doc}
    BY <2>1, <2>2, BacktestIsShown
  <2> HIDE DEF doc
  <2>4. BindingOf(result, "backtest_execution", "backtest_result") = doc
    BY <1>3, <2>3 DEF BindingOf
  <2> QED BY <2>4 DEF doc, P, W
<1>9. "paper_execution" \in ToSet(plan) =>
        PaperPart(result["paper_execution"], WeightsIn(recs), Len(WeightsIn(recs)))
  <2> SUFFICES ASSUME "paper_execution" \in ToSet(plan)
               PROVE PaperPart(result["paper_execution"], WeightsIn(recs), Len(WeightsIn(recs)))
    OBVIOUS
  <2> DEFINE out == recs["paper_execution"].bindings
  <2>1. PaperPart(out, WeightsIn(recs), Len(WeightsIn(recs)))
    BY <1>2 DEF StageDone
  <2>2. result["paper_execution"] = Listed(ApplyBindings(Inputs("paper_execution"), out))
    BY <1>2
  <2> HIDE DEF out
  <2>3. IsSeq(out) /\ \A i \in DOMAIN out : out[i].path
    BY <2>1 DEF PaperPart
  <2>4. result["paper_execution"] = out
    BY <2>2, <2>3, RecordsAreShown
  <2> QED BY <2>1, <2>4
<1> QED BY <1>4, <1>5, <1>6, <1>7, <1>8, <1>9

\* The greatest of the dates before the i-th is the one before it.
LEMMA DateBefore ==
  ASSUME NEW b, Ascending(b), NEW i \in DOMAIN b
  PROVE  LET before == {d \in DatesOf(b) : d < b[i].date}
         IN  /\ i = 1 => before = {}
             /\ i # 1 => before # {} /\ i - 1 \in DOMAIN b /\ Max(before) = b[i - 1].date
<1> DEFINE before == {d \in DatesOf(b) : d < b[i].date}
<1>1. DOMAIN b = 1..Len(b) /\ Len(b) \in Nat /\ \A j \in DOMAIN b : b[j].date \in Nat
  BY SeqShape DEF Ascending
<1>2. DatesOf(b) = {b[j].date : j \in DOMAIN b}
  BY DatesAre
<1>3. ASSUME NEW d \in before PROVE \E j \in DOMAIN b : j < i /\ d = b[j].date
  <2>1. PICK j \in DOMAIN b : d = b[j].date
    BY <1>2
  <2> QED BY <2>1, AscendingDistinct
<1>4. i = 1 => before = {}
  BY <1>1, <1>3
<1>5. ASSUME i # 1
      PROVE  before # {} /\ i - 1 \in DOMAIN b /\ Max(before) = b[i - 1].date
  <2> DEFINE k == i - 1
  <2>1. k \in DOMAIN b /\ k < i
    BY <1>1, <1>5
  <2>2. b[k].date \in before
    BY <1>2, <2>1, AscendingDistinct
  <2>3. \A d \in before : d \in Nat /\ b[k].date >= d
    <3> TAKE d \in before
    <3>1. PICK j \in DOMAIN b : j < i /\ d = b[j].date
      BY <1>3
    <3>2. j <= k /\ j \in Int /\ k \in Int
      BY <1>1, <2>1, <3>1
    <3>3. b[j].date <= b[k].date
      BY <2>1, <3>2, AscendingDistinct
    <3> QED BY <1>1, <2>1, <3>1, <3>3
  <2> DEFINE m == b[k].date
  <2>4. m \in before /\ m \in Nat /\ \A d \in before : d \in Nat /\ m >= d
    BY <1>1, <2>1, <2>2, <2>3
  <2> HIDE DEF m, before
  <2>5. Max(before) = m
    <3>1. \A x \in before : (\A d \in before : x >= d) => x = m
      BY <2>4
    <3> QED BY <2>4, <3>1 DEF Max
  <2> QED BY <2>1, <2>4, <2>5 DEF m
<1> QED BY <1>4, <1>5

\* What the documents of such weights say: each of the prediction of its date, and of
\* the weights of the date before.
LEMMA WeightsFollow ==
  ASSUME NEW P, Ascending(P), NEW W, WeightsDone(W, P), NEW i \in DOMAIN W
  PROVE  /\ Ascending(W) /\ DatesOf(W) = DatesOf(P) /\ DOMAIN W = DOMAIN P
         /\ W[i].date = P[i].date /\ W[i].gen.prediction = P[i].gen
         /\ i = 1 => W[i].gen.previous = {}
         /\ i # 1 => W[i].gen.previous = {W[i - 1].gen}
         /\ W[i].gen.definition = Definition(LastOf(P))
<1>1. WeightsPart(W, P) /\ Len(W) = Len(P)
  BY DEF WeightsDone
<1>2. Ascending(W) /\ DOMAIN W = DOMAIN P
  BY <1>1, WeightsShape
<1>3. DatesOf(W) = DatesOf(P)
  <2>1. DatesOf(W) = {W[j].date : j \in DOMAIN W} /\ DatesOf(P) = {P[j].date : j \in DOMAIN P}
    BY DatesAre
  <2>2. \A j \in DOMAIN W : W[j].date = P[j].date
    BY <1>1, WeightsDates
  <2> QED BY <1>2, <2>1, <2>2
<1> DEFINE previous == IF i = 1 THEN {} ELSE {W[i - 1].gen}
           doc == TargetWeights(P[i].date, P[i].gen, Definition(LastOf(P)), previous)
<1>4. W[i] = Binding("target_weights", doc, P[i].date)
  BY <1>1 DEF WeightsPart
<1> HIDE DEF previous
<1>5. /\ doc.prediction = P[i].gen /\ doc.previous = previous
      /\ doc.definition = Definition(LastOf(P))
  BY DEF TargetWeights
<1> HIDE DEF doc
<1>6. W[i].date = P[i].date /\ W[i].gen = doc
  BY <1>4, BindingFields
<1> QED BY <1>2, <1>3, <1>5, <1>6 DEF previous

\* A result that shows what all stages have recorded is of one piece, and has the dates
\* that were asked for.
Dated(result) ==
  /\ \E a \in Attempts : DatesOf(result["prediction_publication"]) = Scored(a)
  /\ DatesOf(result["portfolio_construction"]) = DatesOf(result["prediction_publication"])
  /\ Len(result["portfolio_construction"]) =
       Cardinality(DatesOf(result["prediction_publication"]))
  /\ "paper_execution" \in DOMAIN result =>
       DatesOf(result["paper_execution"]) = DatesOf(result["prediction_publication"])

\* The date of a paper document is that of the weights it trades.
LEMMA PaperFollows ==
  ASSUME NEW out, NEW W, Ascending(W), PaperPart(out, W, Len(W)), NEW x \in ToSet(out)
  PROVE  \E j \in DOMAIN W : x.date = W[j].date /\ x.gen.weights = W[j].gen
<1>1. /\ IsSeq(out) /\ Len(out) = 4 * Len(W) /\ DOMAIN out = 1..Len(out)
      /\ Len(W) \in Nat /\ DOMAIN W = 1..Len(W)
  BY SeqShape DEF PaperPart, Ascending
<1>2. PICK i \in DOMAIN out : x = out[i]
  BY DEF ToSet
<1> DEFINE j == (i + 3) \div 4
<1>3. j \in 1..Len(W)
  <2> DEFINE n == Len(W)
  <2>1. n \in Nat /\ i \in 1..(4 * n)
    BY <1>1, <1>2
  <2> HIDE DEF n
  <2>2. j \in 1..n
    BY <2>1
  <2> QED BY <2>2 DEF n
<1>4. out[i].date = W[j].date /\ out[i].gen.weights = W[j].gen
  BY <1>2 DEF PaperPart
<1> HIDE DEF j
<1> QED BY <1>1, <1>2, <1>3, <1>4

\* The dates of a result are those of the predictions it shows.
LEMMA ShownIsDated ==
  ASSUME NEW plan, IsPlan(plan), NEW recs, RecordsSound(plan, recs), NEW result,
         ShowsAll(plan, recs, result)
  PROVE  Dated(result)
<1> DEFINE P == PredictionsOf(recs)
           W == WeightsIn(recs)
<1>1. /\ PredictDone(P, ArtifactOf(recs)) /\ WeightsDone(W, P)
      /\ result["prediction_publication"] = P /\ result["portfolio_construction"] = W
      /\ "paper_execution" \in DOMAIN result => PaperPart(result["paper_execution"], W, Len(W))
  BY ShownRecords DEF ShowsAll
<1> HIDE DEF P, W
<1>2. Ascending(P) /\ P # <<>> /\ \E a \in Attempts : DatesOf(P) = Scored(a)
  BY <1>1 DEF PredictDone, PredictPart
<1>3. Len(W) = Len(P) /\ Cardinality(DatesOf(P)) = Len(P)
  BY <1>1, <1>2, AsManyDates DEF WeightsDone
<1>4. Ascending(W) /\ DatesOf(W) = DatesOf(P)
  <2>1. PICK i : i \in DOMAIN W
    <3>1. Len(P) \in Nat /\ Len(P) # 0
      BY <1>1, PredictShape, SomeHaveLength DEF PredictDone
    <3>2. IsSeq(W)
      BY <1>1 DEF WeightsDone, WeightsPart
    <3>3. DOMAIN W = 1..Len(W)
      BY <3>2, SeqShape
    <3> QED BY <1>3, <3>1, <3>3
  <2> QED BY <1>1, <1>2, <2>1, WeightsFollow
<1>5. "paper_execution" \in DOMAIN result => DatesOf(result["paper_execution"]) = DatesOf(W)
  <2>1. DOMAIN W = 1..Len(W) /\ Len(W) \in Nat
    BY <1>4, SeqShape DEF Ascending
  <2>2. "paper_execution" \in DOMAIN result =>
          DatesOf(result["paper_execution"]) = {W[i].date : i \in 1..Len(W)}
    BY <1>1, <2>1, PaperDates
  <2> QED BY <2>1, <2>2, DatesAre
<1> QED BY <1>1, <1>2, <1>3, <1>4, <1>5 DEF Dated

\* The documents of a result are of one piece.
LEMMA ShownIsOneLineage ==
  ASSUME NEW plan, IsPlan(plan), NEW recs, RecordsSound(plan, recs), NEW result,
         ShowsAll(plan, recs, result)
  PROVE  OneLineage(result)
<1> DEFINE P == PredictionsOf(recs)
           W == WeightsIn(recs)
           artifact == BindingOf(result, "model_training", "model_artifact")
           predictions == ByDate(result["prediction_publication"])
           weights == ByDate(result["portfolio_construction"])
           backtest == BindingOf(result, "backtest_execution", "backtest_result")
           earlier(date) == {d \in DOMAIN weights : d < date}
<1>1. /\ PredictDone(P, artifact) /\ WeightsDone(W, P)
      /\ result["prediction_publication"] = P /\ result["portfolio_construction"] = W
      /\ "paper_execution" \in DOMAIN result => PaperPart(result["paper_execution"], W, Len(W))
      /\ artifact.run = BindingOf(result, "model_training", "model_run")
      /\ artifact.run.receipt = BindingOf(result, "qlib_export", "qlib_init_receipt")
  <2>1. /\ artifact = ArtifactOf(recs)
        /\ BindingOf(result, "model_training", "model_run") = ModelRun(ReceiptOf(recs))
        /\ BindingOf(result, "qlib_export", "qlib_init_receipt") = ReceiptOf(recs)
        /\ ArtifactOf(recs).run = ModelRun(ReceiptOf(recs))
        /\ ArtifactOf(recs).run.receipt = ReceiptOf(recs)
    BY ShownRecords, Zenon
  <2>2. /\ PredictDone(P, ArtifactOf(recs)) /\ WeightsDone(W, P)
        /\ result["prediction_publication"] = P /\ result["portfolio_construction"] = W
        /\ "paper_execution" \in DOMAIN result => PaperPart(result["paper_execution"], W, Len(W))
    BY ShownRecords DEF ShowsAll
  <2> HIDE DEF artifact, P, W
  <2> QED BY <2>1, <2>2
<1>2. backtest.definition = Definition(LastOf(P)) /\ backtest.weights = {W[i].gen : i \in DOMAIN W}
  <2> DEFINE doc == BacktestResult(Definition(LastOf(P)), {W[i].gen : i \in DOMAIN W})
  <2>1. backtest = doc
    BY ShownRecords, Zenon
  <2>2. doc.definition = Definition(LastOf(P)) /\ doc.weights = {W[i].gen : i \in DOMAIN W}
    BY DEF BacktestResult
  <2> HIDE DEF doc, backtest
  <2> QED BY <2>1, <2>2
<1>14. ByDate(result["prediction_publication"]) = ByDate(P)
      /\ ByDate(result["portfolio_construction"]) = ByDate(W)
  BY <1>1
<1> HIDE DEF P, W, artifact, backtest
<1>3. /\ Ascending(P) /\ P # <<>>
      /\ \A i \in DOMAIN P : P[i].gen.artifact = artifact /\ P[i].gen.scores.model \subseteq {artifact}
  BY <1>1, PredictShape DEF PredictDone
<1>4. ASSUME NEW i \in DOMAIN W
      PROVE  /\ Ascending(W) /\ DatesOf(W) = DatesOf(P) /\ DOMAIN W = DOMAIN P
             /\ W[i].date = P[i].date /\ W[i].gen.prediction = P[i].gen
             /\ i = 1 => W[i].gen.previous = {}
             /\ i # 1 => W[i].gen.previous = {W[i - 1].gen}
             /\ W[i].gen.definition = Definition(LastOf(P))
  <2>1. Ascending(P) /\ WeightsDone(W, P)
    BY <1>1, <1>3
  <2> QED BY <2>1, WeightsFollow
<1>5. Ascending(W)
  BY <1>1, <1>3, WeightsShape DEF WeightsDone
<1>6. /\ DOMAIN predictions = DatesOf(P) /\ \A i \in DOMAIN P : predictions[P[i].date] = P[i].gen
      /\ DOMAIN weights = DatesOf(W) /\ \A i \in DOMAIN W : weights[W[i].date] = W[i].gen
  BY <1>3, <1>5, <1>14, ByDateIs
<1>7. /\ DatesOf(P) = {P[i].date : i \in DOMAIN P}
      /\ DatesOf(W) = {W[i].date : i \in DOMAIN W}
  BY DatesAre
<1> HIDE DEF predictions, weights
<1>8. \A d \in DOMAIN predictions :
        /\ predictions[d].artifact = artifact
        /\ predictions[d].scores.model \subseteq {artifact}
  BY <1>3, <1>6, <1>7
<1>9. ASSUME NEW d \in DOMAIN weights
      PROVE  /\ d \in DOMAIN predictions /\ weights[d].prediction = predictions[d]
             /\ weights[d].previous =
                  IF earlier(d) = {} THEN {} ELSE {weights[Max(earlier(d))]}
             /\ weights[d].definition = backtest.definition
  <2>1. PICK i \in DOMAIN W : d = W[i].date
    BY <1>6, <1>7
  <2>2. weights[d] = W[i].gen
    BY <1>6, <2>1
  <2>3. d \in DOMAIN predictions /\ predictions[d] = P[i].gen
    BY <1>4, <1>6, <1>7, <2>1
  <2>4. weights[d].previous = IF earlier(d) = {} THEN {} ELSE {weights[Max(earlier(d))]}
    <3>1. earlier(d) = {x \in DatesOf(W) : x < W[i].date}
      BY <1>6, <2>1
    <3>2. /\ i = 1 => earlier(d) = {}
          /\ i # 1 => earlier(d) # {} /\ i - 1 \in DOMAIN W /\ Max(earlier(d)) = W[i - 1].date
      BY <1>5, <3>1, DateBefore
    <3> HIDE DEF earlier
    <3>3. i # 1 => weights[Max(earlier(d))] = W[i - 1].gen
      BY <1>6, <3>2
    <3>4. /\ i = 1 => weights[d].previous = {}
          /\ i # 1 => weights[d].previous = {W[i - 1].gen}
      BY <1>4, <2>2
    <3> QED BY <3>2, <3>3, <3>4
  <2>5. weights[d].definition = backtest.definition
    BY <1>2, <1>4, <2>2
  <2> QED BY <1>4, <2>2, <2>3, <2>4, <2>5
<1>10. backtest.weights = {weights[d] : d \in DOMAIN weights}
  BY <1>2, <1>6, <1>7
<1>11. "paper_execution" \in DOMAIN result =>
         \A b \in ToSet(result["paper_execution"]) : b.gen.weights = weights[b.date]
  BY <1>1, <1>5, <1>6, PaperFollows
<1> HIDE DEF earlier
<1>12. \A d \in DOMAIN weights :
         /\ d \in DOMAIN predictions /\ weights[d].prediction = predictions[d]
         /\ weights[d].previous = IF earlier(d) = {} THEN {} ELSE {weights[Max(earlier(d))]}
         /\ weights[d].definition = backtest.definition
  BY <1>9
<1>13. "paper_execution" \in DOMAIN result =>
         \A b \in ToSet(result["paper_execution"]) : b.gen.weights = weights[b.date]
  BY <1>11
<1> USE DEF artifact, predictions, weights, backtest, earlier
<1> QED BY <1>1, <1>8, <1>10, <1>12, <1>13, Zenon DEF OneLineage

\* The results that are published: of one piece, and with the dates that were asked for.
ResultsSound == \A result \in results : OneLineage(result) /\ Dated(result)

\* The two properties, said of each result.
LEMMA SoundResults == ResultsSound <=> ResultIsOneLineage /\ EveryDateReachesResult
BY DEF ResultsSound, ResultIsOneLineage, EveryDateReachesResult, Dated, DatesOf

\* The execute that publishes the result has what all stages recorded in its plan.
LEMMA ReconcileKeeps ==
  ASSUME NEW r \in Runners, Lineage(r), Reconcile(r)
  PROVE  Lineage(r)'
<1> DEFINE ex == run[r]
           listed == [s \in ToSet(Plan) |-> Listed(ex.plan[s])]
<1>1. /\ ex.pc = End /\ IsPlan(Plan) /\ RecordsSound(Plan, states)
      /\ Way(Plan, states, ex) /\ MemorySound(states, memory[r])
      /\ DOMAIN run = Runners /\ DOMAIN memory = Runners
      /\ RunSound(Plan, states, ex)
  BY Standing, StepsAreNoStages DEF Reconcile, End
<1>2. CASE Raise(r) /\ UNCHANGED results
  <2>1. ex.pc # "idle"
    BY <1>1 DEF End
  <2>2. DOMAIN run' = Runners /\ RunSound(Plan, states, run'[r])
    BY <1>1, <1>2, <2>1, Raises
  <2> QED BY <1>2, <2>2, OnlyTheRunMoves DEF Reconcile
<1>3. CASE results' = results \cup {listed} /\ run' = [run EXCEPT ![r] = Idle]
  <2>1. \A s \in ToSet(Plan) :
          Has(states, s) /\ ex.plan[s] = ApplyBindings(Inputs(s), states[s].bindings)
    <3>1. ex.stage = End /\ Before(Plan, End) = ToSet(Plan) /\ ex.pc # "fold"
      BY <1>1 DEF Way, IsPlan, End
    <3> QED BY <1>1, <3>1 DEF Way
  <2>2. ShowsAll(Plan, states, listed)
    BY <2>1 DEF ShowsAll
  <2> HIDE DEF listed
  <2>3. OneLineage(listed) /\ Dated(listed)
    BY <1>1, <2>2, ShownIsOneLineage, ShownIsDated
  <2>4. ResultsSound'
    <3>1. ResultsSound
      BY SoundResults DEF Lineage
    <3> QED BY <1>3, <2>3, <3>1 DEF ResultsSound
  <2>5. (ResultIsOneLineage /\ EveryDateReachesResult)'
    BY <2>4 DEF ResultsSound, ResultIsOneLineage, EveryDateReachesResult, Dated, DatesOf
  <2>6. Plan' = Plan /\ UNCHANGED <<states, memory>>
    BY DEF Reconcile, Plan
  <2>7. DOMAIN run' = Runners /\ run'[r] = Idle
    BY <1>1, <1>3
  <2>8. Course(r)'
    BY <1>1, <2>6, <2>7, IdleIsSound DEF Course
  <2> QED BY <2>5, <2>8 DEF Lineage
<1> QED BY <1>2, <1>3 DEF Reconcile

-----------------------------------------------------------------------------
(* The theorems.                                                           *)

\* A run that has not begun.
LEMMA LineageInit ==
  ASSUME NEW r, Runners = {r}, Init
  PROVE  Lineage(r)
<1>1. r \in Runners
  OBVIOUS
<1>2. RecordsSound(Plan, states)
  <2>1. DOMAIN states = StageNames /\ \A s \in StageNames : states[s] = NoState
    BY AllStages DEF Init
  <2>2. NoState.status # "passed"
    BY DEF NoState
  <2>3. ToSet(Plan) \subseteq StageNames
    BY EveryPlan, StepsAreNoStages
  <2> QED BY <2>1, <2>2, <2>3 DEF RecordsSound, Has
<1>3. DOMAIN memory = Runners /\ memory[r] = Nothing /\ DOMAIN run = Runners /\ run[r] = Idle
  BY <1>1 DEF Init
<1>4. MemorySound(states, Nothing)
  BY DEF MemorySound, Nothing
<1>5. Course(r)
  BY <1>2, <1>3, <1>4, IdleIsSound DEF Course
<1>6. ResultIsOneLineage /\ EveryDateReachesResult
  BY DEF Init, ResultIsOneLineage, EveryDateReachesResult
<1> QED BY <1>5, <1>6 DEF Lineage

\* Every step keeps it.
LEMMA LineageNext ==
  ASSUME NEW r, Runners = {r}, Lineage(r), [Next]_vars
  PROVE  Lineage(r)'
<1>1. CASE UNCHANGED vars
  <2>1. UNCHANGED <<request, states, results, memory, run>>
    BY <1>1 DEF vars
  <2>2. DOMAIN run' = Runners /\ RunSound(Plan, states, run'[r])
    BY <2>1, Standing
  <2> QED BY <2>1, <2>2, OnlyTheRunMoves
<1>2. CASE \E a \in Attempts : Execute(r, a)
  BY <1>2, ExecuteKeeps
<1>3. CASE Step(r)
  BY <1>3, ResumeKeeps, SkipKeeps, FactorsKeeps, PrepareKeeps, ExportKeeps, AttestKeeps,
     RecordRunKeeps, TrainKeeps, PublishArtifactKeeps, PredictKeeps, GateKeeps, ConstructKeeps,
     ReplayKeeps, TradeKeeps, RecordStateKeeps, FoldKeeps, ReconcileKeeps, FailKeeps DEF Step
<1>4. CASE Fault(r) \/ Crash(r) \/ Leave(r)
  BY <1>4, FaultKeeps, CrashKeeps, LeaveKeeps
<1> QED BY <1>1, <1>2, <1>3, <1>4 DEF Next

\* The invariant, of every behaviour of a run that one runner executes.
THEOREM LineageInvariance ==
  ASSUME NEW r, Runners = {r}
  PROVE  Spec => []Lineage(r)
<1>1. Init => Lineage(r)
  BY LineageInit
<1>2. Lineage(r) /\ [Next]_vars => Lineage(r)'
  BY LineageNext
<1> QED BY <1>1, <1>2, PTL DEF Spec

\* The documents of a published result are of one piece (_reconcile), whatever errors,
\* deaths and retries the run has met, for any number of decision dates: a result
\* never lists a prediction of an artifact that is not its own, weights that follow
\* another attempt's, a backtest of other weights or paper trades of other weights.
THEOREM OneRunnerOneLineage ==
  ASSUME NEW r, Runners = {r}
  PROVE  Spec => []ResultIsOneLineage
<1>1. Lineage(r) => ResultIsOneLineage
  BY DEF Lineage
<1> QED BY <1>1, LineageInvariance, PTL

\* The decision dates an execute was asked to score are those of the predictions, the
\* weights and the paper trades of the result, each once: no retry loses one.
THEOREM OneRunnerEveryDate ==
  ASSUME NEW r, Runners = {r}
  PROVE  Spec => []EveryDateReachesResult
<1>1. Lineage(r) => EveryDateReachesResult
  BY DEF Lineage
<1> QED BY <1>1, LineageInvariance, PTL

=============================================================================
