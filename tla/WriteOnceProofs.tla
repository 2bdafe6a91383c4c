---------------------------- MODULE WriteOnceProofs ----------------------------
(***************************************************************************)
(* The publication of the write-once stores, proved for any number of       *)
(* processes, of exceptions and of crashes, and for every store: success    *)
(* is reported only for what is on disk, and what a reader accepts stays.   *)
(***************************************************************************)
EXTENDS WriteOnce, SequenceTheorems, TLAPS

(* What the steps of a store are, read off its program.                     *)

\* The commands that put a subject under its name in one system call, those that
\* create its directory before its files, and those that write a named file.
Movers == {"move", "link", "overwrite"}
Opens == {"make", "enter"}
Writes == {"open", "fill", "place", "put"}
\* A command after which the review is there: it checks it or writes it.
Gives(step) == step.part = "review" /\ step.verb \in {"need", "open", "place", "put"}

\* What holds of every program: a file written is one of the four, and a jump over
\* commands stays inside the program and passes no command that makes the subject.
Ordered(program) ==
  /\ Len(program) \in Nat
  /\ \A i \in 1..Len(program) :
       /\ program[i].verb \in Writes => program[i].part \in Parts
       /\ program[i].verb \in {"keep", "same"} =>
            /\ program[i].skip \in Nat \ {0} /\ i + program[i].skip <= Len(program) + 1
            /\ \A j \in i..(i + program[i].skip - 1) : program[j].verb \notin Movers \cup Opens

\* A store that moves what it made elsewhere to its name, or links it: nothing but
\* the review and the shared temporary file is ever written under a name that
\* others see; a review written in place belongs to a store that is listed for it;
\* and a run to the end has moved, and has given the review that a reader needs.
MovesWhole(s) ==
  LET program == Publish[s]
  IN  /\ Ordered(program)
      /\ \A i \in 1..Len(program) :
           /\ program[i].verb \notin Opens
           /\ program[i].verb \in Writes => program[i].part \in {"review", "tmp"}
           /\ program[i].verb \in {"open", "put"} /\ "review" \in Needs[s] => s \in OpenReview
           /\ program[i].verb = "overwrite" => s \in LastWins
      /\ Needs[s] \subseteq {"manifest", "data", "review"}
      /\ \E i \in 1..Len(program) : program[i].verb \in Movers
      /\ "review" \in Needs[s] => \E i \in 1..Len(program) : Gives(program[i])

-----------------------------------------------------------------------------
(* The programs are concatenations of short tuples.  The provers have no    *)
(* rule for \o on tuples: one lemma per pair of lengths that occurs.        *)

LEMMA OneAndFive ==
  \A a, b, c, d, e, f : <<a>> \o <<b, c, d, e, f>> = <<a, b, c, d, e, f>>
<1> TAKE a, b, c, d, e, f
<1> DEFINE S == {a, b, c, d, e, f}
<1>1. <<a>> \in Seq(S) /\ <<b, c, d, e, f>> \in Seq(S) /\ <<a, b, c, d, e, f>> \in Seq(S)
  OBVIOUS
<1>2. <<a>> \o <<b, c, d, e, f>> \in Seq(S) /\ Len(<<a>> \o <<b, c, d, e, f>>) = 6
  BY <1>1, ConcatProperties
<1>3. \A i \in 1..6 : (<<a>> \o <<b, c, d, e, f>>)[i] = <<a, b, c, d, e, f>>[i]
  BY <1>1, ConcatProperties
<1> QED BY <1>1, <1>2, <1>3, SeqEqual

LEMMA TwoAndTwo ==
  \A a, b, c, d : <<a, b>> \o <<c, d>> = <<a, b, c, d>>
<1> TAKE a, b, c, d
<1> DEFINE S == {a, b, c, d}
<1>1. <<a, b>> \in Seq(S) /\ <<c, d>> \in Seq(S) /\ <<a, b, c, d>> \in Seq(S)
  OBVIOUS
<1>2. <<a, b>> \o <<c, d>> \in Seq(S) /\ Len(<<a, b>> \o <<c, d>>) = 4
  BY <1>1, ConcatProperties
<1>3. \A i \in 1..4 : (<<a, b>> \o <<c, d>>)[i] = <<a, b, c, d>>[i]
  BY <1>1, ConcatProperties
<1> QED BY <1>1, <1>2, <1>3, SeqEqual

LEMMA ThreeAndTwo ==
  \A a, b, c, d, e : <<a, b, c>> \o <<d, e>> = <<a, b, c, d, e>>
<1> TAKE a, b, c, d, e
<1> DEFINE S == {a, b, c, d, e}
<1>1. <<a, b, c>> \in Seq(S) /\ <<d, e>> \in Seq(S) /\ <<a, b, c, d, e>> \in Seq(S)
  OBVIOUS
<1>2. <<a, b, c>> \o <<d, e>> \in Seq(S) /\ Len(<<a, b, c>> \o <<d, e>>) = 5
  BY <1>1, ConcatProperties
<1>3. \A i \in 1..5 : (<<a, b, c>> \o <<d, e>>)[i] = <<a, b, c, d, e>>[i]
  BY <1>1, ConcatProperties
<1> QED BY <1>1, <1>2, <1>3, SeqEqual

LEMMA FourAndOne ==
  \A a, b, c, d, e : <<a, b, c, d>> \o <<e>> = <<a, b, c, d, e>>
<1> TAKE a, b, c, d, e
<1> DEFINE S == {a, b, c, d, e}
<1>1. <<a, b, c, d>> \in Seq(S) /\ <<e>> \in Seq(S) /\ <<a, b, c, d, e>> \in Seq(S)
  OBVIOUS
<1>2. <<a, b, c, d>> \o <<e>> \in Seq(S) /\ Len(<<a, b, c, d>> \o <<e>>) = 5
  BY <1>1, ConcatProperties
<1>3. \A i \in 1..5 : (<<a, b, c, d>> \o <<e>>)[i] = <<a, b, c, d, e>>[i]
  BY <1>1, ConcatProperties
<1> QED BY <1>1, <1>2, <1>3, SeqEqual

LEMMA FourAndTwo ==
  \A a, b, c, d, e, f : <<a, b, c, d>> \o <<e, f>> = <<a, b, c, d, e, f>>
<1> TAKE a, b, c, d, e, f
<1> DEFINE S == {a, b, c, d, e, f}
<1>1. <<a, b, c, d>> \in Seq(S) /\ <<e, f>> \in Seq(S) /\ <<a, b, c, d, e, f>> \in Seq(S)
  OBVIOUS
<1>2. <<a, b, c, d>> \o <<e, f>> \in Seq(S) /\ Len(<<a, b, c, d>> \o <<e, f>>) = 6
  BY <1>1, ConcatProperties
<1>3. \A i \in 1..6 : (<<a, b, c, d>> \o <<e, f>>)[i] = <<a, b, c, d, e, f>>[i]
  BY <1>1, ConcatProperties
<1> QED BY <1>1, <1>2, <1>3, SeqEqual

LEMMA FiveAndOne ==
  \A a, b, c, d, e, f : <<a, b, c, d, e>> \o <<f>> = <<a, b, c, d, e, f>>
<1> TAKE a, b, c, d, e, f
<1> DEFINE S == {a, b, c, d, e, f}
<1>1. <<a, b, c, d, e>> \in Seq(S) /\ <<f>> \in Seq(S) /\ <<a, b, c, d, e, f>> \in Seq(S)
  OBVIOUS
<1>2. <<a, b, c, d, e>> \o <<f>> \in Seq(S) /\ Len(<<a, b, c, d, e>> \o <<f>>) = 6
  BY <1>1, ConcatProperties
<1>3. \A i \in 1..6 : (<<a, b, c, d, e>> \o <<f>>)[i] = <<a, b, c, d, e, f>>[i]
  BY <1>1, ConcatProperties
<1> QED BY <1>1, <1>2, <1>3, SeqEqual

LEMMA FiveAndTwo ==
  \A a, b, c, d, e, f, g : <<a, b, c, d, e>> \o <<f, g>> = <<a, b, c, d, e, f, g>>
<1> TAKE a, b, c, d, e, f, g
<1> DEFINE S == {a, b, c, d, e, f, g}
<1>1. <<a, b, c, d, e>> \in Seq(S) /\ <<f, g>> \in Seq(S) /\ <<a, b, c, d, e, f, g>> \in Seq(S)
  OBVIOUS
<1>2. <<a, b, c, d, e>> \o <<f, g>> \in Seq(S) /\ Len(<<a, b, c, d, e>> \o <<f, g>>) = 7
  BY <1>1, ConcatProperties
<1>3. \A i \in 1..7 : (<<a, b, c, d, e>> \o <<f, g>>)[i] = <<a, b, c, d, e, f, g>>[i]
  BY <1>1, ConcatProperties
<1> QED BY <1>1, <1>2, <1>3, SeqEqual

LEMMA FiveAndThree ==
  \A a, b, c, d, e, f, g, h : <<a, b, c, d, e>> \o <<f, g, h>> = <<a, b, c, d, e, f, g, h>>
<1> TAKE a, b, c, d, e, f, g, h
<1> DEFINE S == {a, b, c, d, e, f, g, h}
<1>1. /\ <<a, b, c, d, e>> \in Seq(S)
      /\ <<f, g, h>> \in Seq(S)
      /\ <<a, b, c, d, e, f, g, h>> \in Seq(S)
  OBVIOUS
<1>2. <<a, b, c, d, e>> \o <<f, g, h>> \in Seq(S) /\ Len(<<a, b, c, d, e>> \o <<f, g, h>>) = 8
  BY <1>1, ConcatProperties
<1>3. \A i \in 1..8 : (<<a, b, c, d, e>> \o <<f, g, h>>)[i] = <<a, b, c, d, e, f, g, h>>[i]
  BY <1>1, ConcatProperties
<1> QED BY <1>1, <1>2, <1>3, SeqEqual

LEMMA SixAndOne ==
  \A a, b, c, d, e, f, g : <<a, b, c, d, e, f>> \o <<g>> = <<a, b, c, d, e, f, g>>
<1> TAKE a, b, c, d, e, f, g
<1> DEFINE S == {a, b, c, d, e, f, g}
<1>1. <<a, b, c, d, e, f>> \in Seq(S) /\ <<g>> \in Seq(S) /\ <<a, b, c, d, e, f, g>> \in Seq(S)
  OBVIOUS
<1>2. <<a, b, c, d, e, f>> \o <<g>> \in Seq(S) /\ Len(<<a, b, c, d, e, f>> \o <<g>>) = 7
  BY <1>1, ConcatProperties
<1>3. \A i \in 1..7 : (<<a, b, c, d, e, f>> \o <<g>>)[i] = <<a, b, c, d, e, f, g>>[i]
  BY <1>1, ConcatProperties
<1> QED BY <1>1, <1>2, <1>3, SeqEqual

-----------------------------------------------------------------------------
(* The stores one by one: what the publish function of each runs, written   *)
(* out, and that it moves whole.                                            *)

\* The 39 stores that publish by a rename, a link, a replace or an append
\* (ExposureStore.publish, WeightsStore.publish and so on) move whole.
LEMMA EveryMoveIsWhole ==
  \A s \in DOMAIN Publish \ InPlace : MovesWhole(s)
<1>exposure_steps. Publish["exposure"] =
     <<Lock, Absent, Stage, Same(2), To("open", "review"), To("fill", "review"), Move>>
  <2>1. <<Lock, Absent, Stage, Same(2)>> \o Write("review")
         = <<Lock, Absent, Stage, Same(2), To("open", "review"), To("fill", "review")>>
    BY FourAndTwo DEF Write
  <2>2. <<Lock, Absent, Stage, Same(2), To("open", "review"), To("fill", "review")>> \o <<Move>>
         = <<Lock, Absent, Stage, Same(2), To("open", "review"), To("fill", "review"), Move>>
    BY SixAndOne
  <2> QED BY <2>1, <2>2 DEF Publish, ExposurePublish
<1>preprocessing_steps. Publish["preprocessing"] =
     <<Absent, Stage, Same(2), To("open", "review"), To("fill", "review"), Move>>
  <2>1. <<Absent, Stage, Same(2)>> \o Write("review")
         = <<Absent, Stage, Same(2), To("open", "review"), To("fill", "review")>>
    BY ThreeAndTwo DEF Write
  <2>2. <<Absent, Stage, Same(2), To("open", "review"), To("fill", "review")>> \o <<Move>>
         = <<Absent, Stage, Same(2), To("open", "review"), To("fill", "review"), Move>>
    BY FiveAndOne
  <2> QED BY <2>1, <2>2 DEF Publish, PreprocessingPublish
<1>sample_steps. Publish["sample"] =
     <<Absent, Stage, To("open", "review"), To("fill", "review"), Move>>
  <2>1. <<Absent, Stage>> \o Write("review")
         = <<Absent, Stage, To("open", "review"), To("fill", "review")>>
    BY TwoAndTwo DEF Write
  <2>2. <<Absent, Stage, To("open", "review"), To("fill", "review")>> \o <<Move>>
         = <<Absent, Stage, To("open", "review"), To("fill", "review"), Move>>
    BY FourAndOne
  <2> QED BY <2>1, <2>2 DEF Publish, SamplePublish
<1>config_steps. Publish["config"] =
     <<Absent, Stage, To("open", "review"), To("fill", "review"), Move>>
  <2>1. <<Absent, Stage>> \o Write("review")
         = <<Absent, Stage, To("open", "review"), To("fill", "review")>>
    BY TwoAndTwo DEF Write
  <2>2. <<Absent, Stage, To("open", "review"), To("fill", "review")>> \o <<Move>>
         = <<Absent, Stage, To("open", "review"), To("fill", "review"), Move>>
    BY FourAndOne
  <2> QED BY <2>1, <2>2 DEF Publish, BacktestConfigPublish
<1>prediction_steps. Publish["prediction"] =
     <<Place("review"), Need, Absent, Stage, Lock, Move>>
  <2>1. <<Place("review")>> \o <<Need, Absent, Stage, Lock, Move>>
         = <<Place("review"), Need, Absent, Stage, Lock, Move>>
    BY OneAndFive
  <2> QED BY <2>1 DEF Publish, PredictionPublish, PredictionBuild
<1>weights_steps. Publish["weights"] =
     <<Absent, Stage, Keep(3), To("open", "tmp"), To("fill", "tmp"), Put("review"),
       Move>>
  <2>1. <<Absent, Stage, Keep(3)>> \o Write("tmp")
         = <<Absent, Stage, Keep(3), To("open", "tmp"), To("fill", "tmp")>>
    BY ThreeAndTwo DEF Write
  <2>2. <<Absent, Stage, Keep(3), To("open", "tmp"), To("fill", "tmp")>> \o <<Put("review"), Move>>
         = <<Absent, Stage, Keep(3), To("open", "tmp"), To("fill", "tmp"), Put("review"), Move>>
    BY FiveAndTwo
  <2> QED BY <2>1, <2>2 DEF Publish, WeightsPublish
<1>result_steps. Publish["result"] =
     <<Absent, Stage, Keep(2), To("open", "review"), To("fill", "review"), Move>>
  <2>1. <<Absent, Stage, Keep(2)>> \o Write("review")
         = <<Absent, Stage, Keep(2), To("open", "review"), To("fill", "review")>>
    BY ThreeAndTwo DEF Write
  <2>2. <<Absent, Stage, Keep(2), To("open", "review"), To("fill", "review")>> \o <<Move>>
         = <<Absent, Stage, Keep(2), To("open", "review"), To("fill", "review"), Move>>
    BY FiveAndOne
  <2> QED BY <2>1, <2>2 DEF Publish, ResultPublish
<1>review_first. ReviewFirst =
     <<Absent, Same(3), To("open", "tmp"), To("fill", "tmp"), Put("review")>>
  <2>1. <<Absent, Same(3)>> \o Write("tmp")
         = <<Absent, Same(3), To("open", "tmp"), To("fill", "tmp")>>
    BY TwoAndTwo DEF Write
  <2>2. <<Absent, Same(3), To("open", "tmp"), To("fill", "tmp")>> \o <<Put("review")>>
         = <<Absent, Same(3), To("open", "tmp"), To("fill", "tmp"), Put("review")>>
    BY FourAndOne
  <2> QED BY <2>1, <2>2 DEF ReviewFirst
<1>execution_config_steps. Publish["execution_config"] =
        <<Absent, Same(3), To("open", "tmp"), To("fill", "tmp"), Put("review"), Absent, Stage, Move>>
  <2>1. <<Absent, Same(3), To("open", "tmp"), To("fill", "tmp"), Put("review")>> \o <<Absent, Stage, Move>> =
         <<Absent, Same(3), To("open", "tmp"), To("fill", "tmp"), Put("review"), Absent, Stage, Move>>
    BY FiveAndThree
  <2> QED BY <1>review_first, <2>1 DEF Publish, ExecutionConfigPublish
<1>order_plan_steps. Publish["order_plan"] =
        <<Absent, Same(3), To("open", "tmp"), To("fill", "tmp"), Put("review"), Stage, Move>>
  <2>1. <<Absent, Same(3), To("open", "tmp"), To("fill", "tmp"), Put("review")>> \o <<Stage, Move>> =
         <<Absent, Same(3), To("open", "tmp"), To("fill", "tmp"), Put("review"), Stage, Move>>
    BY FiveAndTwo
  <2> QED BY <1>review_first, <2>1 DEF Publish, OrderPlanPublish
<1>execution_result_steps. Publish["execution_result"] =
        <<Absent, Same(3), To("open", "tmp"), To("fill", "tmp"), Put("review"), Stage, Move>>
  <2>1. <<Absent, Same(3), To("open", "tmp"), To("fill", "tmp"), Put("review")>> \o <<Stage, Move>> =
         <<Absent, Same(3), To("open", "tmp"), To("fill", "tmp"), Put("review"), Stage, Move>>
    BY FiveAndTwo
  <2> QED BY <1>review_first, <2>1 DEF Publish, ExecutionResultPublish
<1>paper_state_steps. Publish["paper_state"] =
        <<Absent, Same(3), To("open", "tmp"), To("fill", "tmp"), Put("review"), Stage, Move>>
  <2>1. <<Absent, Same(3), To("open", "tmp"), To("fill", "tmp"), Put("review")>> \o <<Stage, Move>> =
         <<Absent, Same(3), To("open", "tmp"), To("fill", "tmp"), Put("review"), Stage, Move>>
    BY FiveAndTwo
  <2> QED BY <1>review_first, <2>1 DEF Publish, PaperStatePublish
<1> USE DEF Ordered, Movers, Opens, Writes, Gives, Parts, Pair, Reviewed, OpenReview, LastWins,
           Absent, Agree, Lock, Stage, Move, Link, Overwrite, Need, New, Place, Put, Keep, Same,
           Do, To
<1>canonical. MovesWhole("canonical")
  <2>1. Publish["canonical"] = <<Absent, Lock, Absent, Stage, Move>>
    BY DEF Publish, CanonicalStorePublish
  <2> QED BY <2>1 DEF MovesWhole, Needs, ManifestFirstRead
<1>canonical_v2. MovesWhole("canonical_v2")
  <2>1. Publish["canonical_v2"] = <<Absent, Stage, Need, Move>>
    BY DEF Publish, CanonicalV2Publish
  <2>2. Gives(Publish["canonical_v2"][3]) /\ 3 \in 1..Len(Publish["canonical_v2"])
    BY <2>1
  <2>3. Ordered(Publish["canonical_v2"])
    BY <2>1
  <2> QED BY <2>1, <2>2, <2>3 DEF MovesWhole, Needs, ReadCanonicalV2
<1>factors. MovesWhole("factors")
  <2>1. Publish["factors"] = <<Stage, Lock, Absent, Need, Move>>
    BY DEF Publish, FactorStorePublish
  <2>2. Gives(Publish["factors"][4]) /\ 4 \in 1..Len(Publish["factors"])
    BY <2>1
  <2>3. Ordered(Publish["factors"])
    BY <2>1
  <2> QED BY <2>1, <2>2, <2>3 DEF MovesWhole, Needs, ReadFactorPartition
<1>universe. MovesWhole("universe")
  <2>1. Publish["universe"] = <<Absent, Stage, Move>>
    BY DEF Publish, UniverseSave
  <2> QED BY <2>1 DEF MovesWhole, Needs, UniverseRead
<1>report. MovesWhole("report")
  <2>1. Publish["report"] = <<Absent, Stage, Move>>
    BY DEF Publish, QualityReportSave
  <2> QED BY <2>1 DEF MovesWhole, Needs, QualityReportRead
<1>adjustment. MovesWhole("adjustment")
  <2>1. Publish["adjustment"] = <<Stage, Absent, Move>>
    BY DEF Publish, AdjustmentSave
  <2> QED BY <2>1 DEF MovesWhole, Needs, AdjustmentRead
<1>membership. MovesWhole("membership")
  <2>1. Publish["membership"] = <<Absent, Stage, Move>>
    BY DEF Publish, MembershipPublish
  <2> QED BY <2>1 DEF MovesWhole, Needs, MembershipRead
<1>dividend. MovesWhole("dividend")
  <2>1. Publish["dividend"] = <<Absent, Stage, Move>>
    BY DEF Publish, DividendPublish
  <2> QED BY <2>1 DEF MovesWhole, Needs, DividendRead
<1>dependency. MovesWhole("dependency")
  <2>1. Publish["dependency"] = <<Lock, Agree, Stage, Move>>
    BY DEF Publish, DependencyPublish
  <2> QED BY <2>1 DEF MovesWhole, Needs, DependencyRead
<1>migration. MovesWhole("migration")
  <2>1. Publish["migration"] = <<Absent, Lock, Overwrite>>
    BY DEF Publish, MigrationAppend
  <2> QED BY <2>1 DEF MovesWhole, Needs
<1>schema. MovesWhole("schema")
  <2>1. Publish["schema"] = <<Absent, Stage, Move>>
    BY DEF Publish, FeatureSchemaPublish
  <2> QED BY <2>1 DEF MovesWhole, Needs, FeatureSchemaRead
<1>exposure. MovesWhole("exposure")
  <2>2. Gives(Publish["exposure"][5]) /\ 5 \in 1..Len(Publish["exposure"])
    BY <1>exposure_steps
  <2>3. Ordered(Publish["exposure"])
    BY <1>exposure_steps
  <2> QED BY <1>exposure_steps, <2>2, <2>3 DEF MovesWhole, Needs, ExposureRead
<1>market. MovesWhole("market")
  <2>1. Publish["market"] = <<Agree, Stage, Move>>
    BY DEF Publish, MarketDatasetPublish
  <2> QED BY <2>1 DEF MovesWhole, Needs, MarketDatasetRead
<1>preprocessing. MovesWhole("preprocessing")
  <2>2. Gives(Publish["preprocessing"][4]) /\ 4 \in 1..Len(Publish["preprocessing"])
    BY <1>preprocessing_steps
  <2>3. Ordered(Publish["preprocessing"])
    BY <1>preprocessing_steps
  <2> QED BY <1>preprocessing_steps, <2>2, <2>3 DEF MovesWhole, Needs, PreprocessingRead
<1>sample. MovesWhole("sample")
  <2>2. Gives(Publish["sample"][3]) /\ 3 \in 1..Len(Publish["sample"])
    BY <1>sample_steps
  <2>3. Ordered(Publish["sample"])
    BY <1>sample_steps
  <2> QED BY <1>sample_steps, <2>2, <2>3 DEF MovesWhole, Needs, SampleRead
<1>config. MovesWhole("config")
  <2> QED BY <1>config_steps DEF MovesWhole, Needs, BacktestConfigRead
<1>label. MovesWhole("label")
  <2>1. Publish["label"] = <<Absent, Stage, Move>>
    BY DEF Publish, LabelPublish
  <2> QED BY <2>1 DEF MovesWhole, Needs, LabelRead
<1>dataset. MovesWhole("dataset")
  <2>1. Publish["dataset"] = <<Absent, Lock, Stage, Move, Same(1), Place("review")>>
    BY DEF Publish, DatasetWrite
  <2> QED BY <2>1 DEF MovesWhole, Needs, DatasetRead
<1>prediction. MovesWhole("prediction")
  <2>2. Gives(Publish["prediction"][1]) /\ 1 \in 1..Len(Publish["prediction"])
    BY <1>prediction_steps
  <2>3. Ordered(Publish["prediction"])
    BY <1>prediction_steps
  <2> QED BY <1>prediction_steps, <2>2, <2>3 DEF MovesWhole, Needs, PredictionRead
<1>artifact. MovesWhole("artifact")
  <2>1. Publish["artifact"] = <<Absent, Lock, Stage, New("review"), Place("review"), Move>>
    BY DEF Publish, ArtifactPublish
  <2>2. Gives(Publish["artifact"][5]) /\ 5 \in 1..Len(Publish["artifact"])
    BY <2>1
  <2>3. Ordered(Publish["artifact"])
    BY <2>1
  <2> QED BY <2>1, <2>2, <2>3 DEF MovesWhole, Needs, ArtifactRead
<1>model_run. MovesWhole("model_run")
  <2>1. Publish["model_run"] = <<Place("review"), Agree, Overwrite>>
    BY DEF Publish, ModelRunBuild
  <2> QED BY <2>1 DEF MovesWhole, Needs
<1>export. MovesWhole("export")
  <2>1. Publish["export"] = <<Stage, Lock, Place("review"), Absent, Move>>
    BY DEF Publish, QlibExport
  <2>2. Gives(Publish["export"][3]) /\ 3 \in 1..Len(Publish["export"])
    BY <2>1
  <2>3. Ordered(Publish["export"])
    BY <2>1
  <2> QED BY <2>1, <2>2, <2>3 DEF MovesWhole, Needs, QlibExportRead
<1>receipt. MovesWhole("receipt")
  <2>1. Publish["receipt"] = <<Overwrite>>
    BY DEF Publish, QlibReceipt
  <2> QED BY <2>1 DEF MovesWhole, Needs
<1>candidate. MovesWhole("candidate")
  <2>1. Publish["candidate"] = <<Lock, Agree, Stage, Move>>
    BY DEF Publish, CandidatePublish
  <2> QED BY <2>1 DEF MovesWhole, Needs, CandidateRead
<1>listing. MovesWhole("listing")
  <2>1. Publish["listing"] = <<Link>>
    BY DEF Publish, ListingPublish
  <2> QED BY <2>1 DEF MovesWhole, Needs, ListingRead
<1>weights. MovesWhole("weights")
  <2>2. Gives(Publish["weights"][6]) /\ 6 \in 1..Len(Publish["weights"])
    BY <1>weights_steps
  <2>3. Ordered(Publish["weights"])
    BY <1>weights_steps
  <2> QED BY <1>weights_steps, <2>2, <2>3 DEF MovesWhole, Needs, WeightsRead
<1>result. MovesWhole("result")
  <2>2. Gives(Publish["result"][4]) /\ 4 \in 1..Len(Publish["result"])
    BY <1>result_steps
  <2>3. Ordered(Publish["result"])
    BY <1>result_steps
  <2> QED BY <1>result_steps, <2>2, <2>3 DEF MovesWhole, Needs, ResultRead
<1>facts. MovesWhole("facts")
  <2>1. Publish["facts"] = <<Lock, Stage, Agree, Move>>
    BY DEF Publish, FactsPublish
  <2> QED BY <2>1 DEF MovesWhole, Needs, FactsRead
<1>risk_returns. MovesWhole("risk_returns")
  <2>1. Publish["risk_returns"] = <<Lock, Stage, Agree, Move>>
    BY DEF Publish, RiskReturnsPublish
  <2> QED BY <2>1 DEF MovesWhole, Needs, RiskReturnsRead
<1>evaluation. MovesWhole("evaluation")
  <2>1. Publish["evaluation"] = <<Lock, Stage, Agree, Move>>
    BY DEF Publish, EvaluationPublish
  <2> QED BY <2>1 DEF MovesWhole, Needs, EvaluationRead
<1>benchmark. MovesWhole("benchmark")
  <2>1. Publish["benchmark"] = <<Lock, Agree, Stage, Move>>
    BY DEF Publish, BenchmarkPublish
  <2> QED BY <2>1 DEF MovesWhole, Needs, BenchmarkRead
<1>archive. MovesWhole("archive")
  <2>1. Publish["archive"] = <<Lock, Agree, Stage, Move>>
    BY DEF Publish, ArchivePublish
  <2> QED BY <2>1 DEF MovesWhole, Needs, ArchiveRead
<1>stress. MovesWhole("stress")
  <2>1. Publish["stress"] = <<Lock, Agree, Stage, Move>>
    BY DEF Publish, StressPublish
  <2> QED BY <2>1 DEF MovesWhole, Needs, StressRead
<1>plan. MovesWhole("plan")
  <2>1. Publish["plan"] = <<Link>>
    BY DEF Publish, PlanPublish
  <2> QED BY <2>1 DEF MovesWhole, Needs, PlanRead
<1>replay. MovesWhole("replay")
  <2>1. Publish["replay"] = <<Link>>
    BY DEF Publish, ReplayPublish
  <2> QED BY <2>1 DEF MovesWhole, Needs, ReplayRead
<1>execution_config. MovesWhole("execution_config")
  <2>2. Gives(Publish["execution_config"][5]) /\ 5 \in 1..Len(Publish["execution_config"])
    BY <1>execution_config_steps
  <2>3. Ordered(Publish["execution_config"])
    BY <1>execution_config_steps
  <2> QED BY <1>execution_config_steps, <2>2, <2>3 DEF MovesWhole, Needs, ExecutionConfigRead
<1>order_plan. MovesWhole("order_plan")
  <2>2. Gives(Publish["order_plan"][5]) /\ 5 \in 1..Len(Publish["order_plan"])
    BY <1>order_plan_steps
  <2>3. Ordered(Publish["order_plan"])
    BY <1>order_plan_steps
  <2> QED BY <1>order_plan_steps, <2>2, <2>3 DEF MovesWhole, Needs, OrderPlanRead
<1>execution_result. MovesWhole("execution_result")
  <2>2. Gives(Publish["execution_result"][5]) /\ 5 \in 1..Len(Publish["execution_result"])
    BY <1>execution_result_steps
  <2>3. Ordered(Publish["execution_result"])
    BY <1>execution_result_steps
  <2> QED BY <1>execution_result_steps, <2>2, <2>3 DEF MovesWhole, Needs, ExecutionResultRead
<1>paper_state. MovesWhole("paper_state")
  <2>2. Gives(Publish["paper_state"][5]) /\ 5 \in 1..Len(Publish["paper_state"])
    BY <1>paper_state_steps
  <2>3. Ordered(Publish["paper_state"])
    BY <1>paper_state_steps
  <2> QED BY <1>paper_state_steps, <2>2, <2>3 DEF MovesWhole, Needs, PaperStateRead
<1> QED
  BY <1>canonical, <1>canonical_v2, <1>factors, <1>universe, <1>report, <1>adjustment,
     <1>membership, <1>dividend, <1>dependency, <1>migration, <1>schema, <1>exposure, <1>market,
     <1>preprocessing, <1>sample, <1>config, <1>label, <1>dataset, <1>prediction, <1>artifact,
     <1>model_run, <1>export, <1>receipt, <1>candidate, <1>listing, <1>weights, <1>result,
     <1>facts, <1>risk_returns, <1>evaluation, <1>benchmark, <1>archive, <1>stress, <1>plan,
     <1>replay, <1>execution_config, <1>order_plan, <1>execution_result, <1>paper_state DEF
     Publish, InPlace

-----------------------------------------------------------------------------
(* The stores that create their partition with an exclusive mkdir and write *)
(* into it where readers look.                                              *)

\* Such a store writes only its manifest and its data and only after the mkdir, and
\* closes a file right after it opened it.
WritesItsOwn(program) ==
  \A i \in 1..Len(program) :
    /\ program[i].verb \notin Movers \cup {"enter", "put", "agree", "keep", "same"}
    /\ program[i].verb \in Writes =>
         /\ program[i].part \in {"manifest", "data"}
         /\ \E m \in 1..(i - 1) : program[m].verb = "make"
    /\ program[i].verb = "fill" =>
         /\ i - 1 \in 1..Len(program)
         /\ program[i - 1].verb = "open" /\ program[i - 1].part = program[i].part

\* Each file is opened once, and after the only mkdir.
WritesEachOnce(program) ==
  \A i, j \in 1..Len(program) :
    /\ program[i].verb \in {"open", "place"} /\ program[j].verb \in {"open", "place"}
       /\ program[i].part = program[j].part => i = j
    /\ program[i].verb = "make" /\ program[j].verb \in Writes => i < j
    /\ program[i].verb = "make" /\ program[j].verb = "make" => i = j

\* A run to the end has made the directory and written both files whole.
WritesThemAll(program) ==
  /\ \E i \in 1..Len(program) : program[i].verb = "make"
  /\ \A part \in {"manifest", "data"} :
       \E i \in 1..Len(program) : program[i].verb \in {"fill", "place"} /\ program[i].part = part

MadeOnce(s) ==
  /\ Ordered(Publish[s]) /\ Needs[s] = {"manifest", "data"}
  /\ WritesItsOwn(Publish[s]) /\ WritesEachOnce(Publish[s]) /\ WritesThemAll(Publish[s])

\* The seven partitions written in place (calendar, suspension, bars and actions by
\* the point-in-time store, and the risk state, decision and run) do just that.
LEMMA EveryDirectoryIsMadeOnce ==
  \A s \in DOMAIN Publish \cap (InPlace \ {"risk_manifest"}) : MadeOnce(s)
<1>partition. /\ CalendarPublish = <<Absent, Make, To("open", "data"), To("fill", "data"),
                                     To("open", "manifest"), To("fill", "manifest")>>
              /\ SuspensionPublish = CalendarPublish
              /\ BarsPublish = CalendarPublish
              /\ ActionsPublish = CalendarPublish
  <2>1. <<Absent, Make>> \o Write("data") = <<Absent, Make, To("open", "data"), To("fill", "data")>>
    BY TwoAndTwo DEF Write
  <2>2. <<Absent, Make, To("open", "data"), To("fill", "data")>> \o Write("manifest")
         = <<Absent, Make, To("open", "data"), To("fill", "data"),
             To("open", "manifest"), To("fill", "manifest")>>
    BY FourAndTwo DEF Write
  <2> QED BY <2>1, <2>2 DEF CalendarPublish, SuspensionPublish, BarsPublish, ActionsPublish
<1> USE DEF Movers, Opens, Writes, Parts, Pair, Absent, Make, New, Place, Do, To
<1>1. ASSUME NEW p,
             p = <<Absent, Make, To("open", "data"), To("fill", "data"),
                   To("open", "manifest"), To("fill", "manifest")>>
      PROVE  Ordered(p) /\ WritesItsOwn(p) /\ WritesEachOnce(p) /\ WritesThemAll(p)
  <2>1. Ordered(p)
    BY <1>1 DEF Ordered
  <2>2. WritesItsOwn(p)
    BY <1>1 DEF WritesItsOwn
  <2>3. WritesEachOnce(p)
    BY <1>1 DEF WritesEachOnce
  <2>4. /\ p[6].verb = "fill" /\ p[6].part = "manifest" /\ p[4].verb = "fill" /\ p[4].part = "data"
        /\ p[2].verb = "make" /\ Len(p) = 6
    BY <1>1
  <2>5. WritesThemAll(p)
    BY <2>4 DEF WritesThemAll
  <2> QED BY <2>1, <2>2, <2>3, <2>5
<1>2. ASSUME NEW p, p = <<New("manifest"), New("data"), Make, Place("manifest"), Place("data")>>
      PROVE  Ordered(p) /\ WritesItsOwn(p) /\ WritesEachOnce(p) /\ WritesThemAll(p)
  <2>1. Ordered(p)
    BY <1>2 DEF Ordered
  <2>2. WritesItsOwn(p)
    BY <1>2 DEF WritesItsOwn
  <2>3. WritesEachOnce(p)
    BY <1>2 DEF WritesEachOnce
  <2>4. /\ p[4].verb = "place" /\ p[4].part = "manifest" /\ p[5].verb = "place" /\ p[5].part = "data"
        /\ p[3].verb = "make" /\ Len(p) = 5
    BY <1>2
  <2>5. WritesThemAll(p)
    BY <2>4 DEF WritesThemAll
  <2> QED BY <2>1, <2>2, <2>3, <2>5
<1>3. ASSUME NEW p, p = <<Make, Place("data"), Place("manifest")>>
      PROVE  Ordered(p) /\ WritesItsOwn(p) /\ WritesEachOnce(p) /\ WritesThemAll(p)
  <2>1. Ordered(p)
    BY <1>3 DEF Ordered
  <2>2. WritesItsOwn(p)
    BY <1>3 DEF WritesItsOwn
  <2>3. WritesEachOnce(p)
    BY <1>3 DEF WritesEachOnce
  <2>4. /\ p[3].verb = "place" /\ p[3].part = "manifest" /\ p[2].verb = "place" /\ p[2].part = "data"
        /\ p[1].verb = "make" /\ Len(p) = 3
    BY <1>3
  <2>5. WritesThemAll(p)
    BY <2>4 DEF WritesThemAll
  <2> QED BY <2>1, <2>2, <2>3, <2>5
<1> HIDE DEF Movers, Opens, Writes, Parts, Absent, Make, New, Place, Do, To
<1>4. \A s \in {"calendar", "suspension", "bars", "actions"} : MadeOnce(s)
  BY <1>partition, <1>1 DEF MadeOnce, Publish, Needs, PartitionRead
<1>5. \A s \in {"risk_state", "risk_decision"} : MadeOnce(s)
  BY <1>2 DEF MadeOnce, Publish, Needs, RiskStatePublish, RiskStateRead, RiskDecisionPublish,
              RiskDecisionRead
<1>6. MadeOnce("risk_run")
  BY <1>3 DEF MadeOnce, Publish, Needs, RiskRunPublish, RiskRunRead
<1> QED BY <1>4, <1>5, <1>6 DEF InPlace

\* A risk policy or event enters its directory with mkdir(exist_ok=True) and renames
\* a temporary file of a fixed name: the one store that is neither of the two kinds.
LEMMA RiskManifestSteps ==
  Publish["risk_manifest"] =
    <<Empty, Enter, To("open", "tmp"), To("fill", "tmp"), Put("manifest")>>
<1>1. <<Empty, Enter>> \o Write("tmp") = <<Empty, Enter, To("open", "tmp"), To("fill", "tmp")>>
  BY TwoAndTwo DEF Write
<1>2. <<Empty, Enter, To("open", "tmp"), To("fill", "tmp")>> \o <<Put("manifest")>>
       = <<Empty, Enter, To("open", "tmp"), To("fill", "tmp"), Put("manifest")>>
  BY FourAndOne
<1> QED BY <1>1, <1>2 DEF Publish, RiskManifestPublish

-----------------------------------------------------------------------------
(* The inductive invariant: one conjunct per kind of store.                 *)

\* A writer is past a command of some verbs; it has moved, so the directory is there
\* and, where the path does not name the content, is its own.
Past(w, verbs) == \E i \in 1..(pc[w] - 1) : Program[i].verb \in verbs
HasMoved(w) == dir /\ (store \in Dated => owner = w)
Reviews == "review" \in Needs[store]

\* Stores that move whole.  Under its name the subject is whole but for the review;
\* a reader's review is half there only where it is written in place; and a writer
\* past its move has its subject on disk, as has one that reported success.  Only
\* the review and the temporary file are ever open.
MovedSound ==
  /\ dir => \A part \in Needs[store] \ {"review"} : file[part] = "whole"
  /\ Reviews /\ file["review"] = "torn" => store \in OpenReview
  /\ \A w \in Writers :
       /\ held[w] \in {"none", "review", "tmp"}
       /\ Past(w, Movers) => HasMoved(w)
       /\ (\E i \in 1..(pc[w] - 1) : Gives(Program[i])) => file["review"] # "no"
       /\ outcome[w] = "passed" => HasMoved(w) /\ (Reviews => file["review"] # "no")

\* Stores that make their directory: the writer past its mkdir is the only one.  It
\* finds its files as its own program left them: whole when it is past writing them,
\* absent when it is not there yet, and open just after it opened them.
Inside(w) == Past(w, {"make"})
Wrote(w) ==
  \A i \in 1..Len(Program) :
    /\ Program[i].verb \in {"fill", "place"} /\ i < pc[w] => file[Program[i].part] = "whole"
    /\ Program[i].verb \in {"open", "place"} /\ i >= pc[w] => file[Program[i].part] = "no"
    /\ Program[i].verb = "open" /\ pc[w] = i + 1 => held[w] = Program[i].part

\* An attempt that ended early leaves the directory to nobody, so nobody gets in
\* again; the owner stays who made it, until a risk run takes its own away.
MadeSound ==
  /\ ~dir => owner = Nobody /\ file["manifest"] = "no" /\ file["data"] = "no"
  /\ \A w \in Writers :
       /\ Inside(w) => dir /\ owner = w /\ Wrote(w)
       /\ outcome[w] = "passed" => Accepted /\ owner = w

\* The risk policy and event: the directory stays, and once a document was renamed
\* to the manifest there is one, whole or half written.
EnteredSound ==
  /\ dir <=> owner # Nobody
  /\ \A w \in Writers :
       /\ pc[w] > 2 => dir
       /\ pc[w] > 5 => file["manifest"] # "no"
       /\ outcome[w] = "passed" => dir /\ file["manifest"] # "no"

\* The invariant of every publication.  No conjunct is about the lock: what readers
\* see rests on the rename, the link and the mkdir, which take a name once.
PublicationSound ==
  /\ TypeOK
  /\ store \notin InPlace => MovedSound
  /\ store \in InPlace \ {"risk_manifest"} => MadeSound
  /\ store = "risk_manifest" => EnteredSound

-----------------------------------------------------------------------------
(* What a step does, by the effect it has instead of by its command.        *)

\* The store at hand runs a program of its kind, since Stores names stores.
LEMMA ProgramsAreOrdered ==
  ASSUME store \in Stores
  PROVE  /\ Ordered(Program)
         /\ store \notin InPlace => MovesWhole(store)
         /\ store \in InPlace \ {"risk_manifest"} => MadeOnce(store)
<1>1. store \in DOMAIN Publish
  BY StoresAssumption
<1>2. ASSUME store = "risk_manifest" PROVE Ordered(Program)
  <2>1. Program = <<Empty, Enter, To("open", "tmp"), To("fill", "tmp"), Put("manifest")>>
    BY <1>2, RiskManifestSteps DEF Program
  <2> QED BY <2>1 DEF Ordered, Movers, Opens, Writes, Parts, Empty, Enter, Put, Do, To
<1> QED BY <1>1, <1>2, EveryMoveIsWhole, EveryDirectoryIsMadeOnce DEF MovesWhole, MadeOnce, Program

\* The command a writer is at, and the effects: the attempt ends; it goes on
\* without a change of the disk; it moves onto a free name, or over the old
\* document; it renames the temporary file; it makes the directory.
Command(w) == Program[pc[w]]
Quits(w, how) == Ends(w, how) /\ UNCHANGED disk
LooksOn(w) ==
  /\ UNCHANGED disk
  /\ \/ /\ Go(w, 1) /\ Command(w).verb \notin Movers \cup Opens \cup Writes
        /\ Command(w).verb = "need" => file["review"] # "no"
     \/ /\ Go(w, Command(w).skip) /\ Command(w).verb \in {"keep", "same"}
        /\ file["review"] # "no"
Moved(w) == Arrives(w) /\ Command(w).verb \in Movers /\ (dir => Command(w).verb = "overwrite")
Puts(w) == PutPart(w) /\ file["tmp"] # "no"
Makes(w) == MakeDirectory(w) /\ ~dir

\* Every step of a writer has one of these effects, and success is reported either
\* at the end or where an existing subject was read back and agrees.
LEMMA Kinds ==
  ASSUME NEW w \in Writers, Start(w) \/ Step(w) \/ Stop(w) \/ RunRaises(w)
  PROVE  \/ Start(w) \/ RunRaises(w)
         \/ Quits(w, "refused") \/ Quits(w, "stopped")
         \/ Quits(w, "passed") /\ Accepted /\ (store \in Dated => owner = w)
              /\ Command(w).verb \in {"agree", "link"} /\ pc[w] <= Len(Program)
         \/ Quits(w, "passed") /\ pc[w] > Len(Program)
         \/ /\ pc[w] <= Len(Program)
            /\ \/ LooksOn(w) \/ Moved(w) \/ Makes(w) \/ EnterDirectory(w)
               \/ OpenPart(w) \/ FillPart(w) \/ PlacePart(w) \/ Puts(w)
<1> USE DEF Command, Quits, Go, At
<1>1. CASE Start(w) \/ RunRaises(w)
  BY <1>1
<1>2. CASE Stop(w)
  BY <1>2 DEF Stop
<1>3. CASE LookAbsent(w) \/ TakeLock(w) \/ StagePrivately(w) \/ LookEmpty(w) \/ NeedReview(w)
           \/ LookNew(w)
  BY <1>3 DEF LookAbsent, TakeLock, StagePrivately, LookEmpty, NeedReview, LookNew, EndsAs, LooksOn,
              Movers, Opens, Writes, disk
<1>4. CASE LookAgree(w)
  BY <1>4 DEF LookAgree, Agreed, EndsAs, LooksOn, Movers, Opens, Writes, disk
<1>5. CASE KeepReview(w) \/ SameReview(w)
  BY <1>5 DEF KeepReview, SameReview, EndsAs, LooksOn, Movers, Opens, Writes, disk
<1>6. CASE MoveInto(w) \/ LinkInto(w) \/ OverwriteFile(w)
  BY <1>6 DEF MoveInto, LinkInto, OverwriteFile, Agreed, EndsAs, Moved, Movers
<1>7. CASE MakeDirectory(w) \/ EnterDirectory(w)
  BY <1>7 DEF MakeDirectory, EnterDirectory, EndsAs, Makes
<1>8. CASE OpenPart(w) \/ FillPart(w) \/ PlacePart(w)
  BY <1>8 DEF OpenPart, FillPart, PlacePart
<1>9. CASE PutPart(w)
  BY <1>9 DEF PutPart, EndsAs, Puts
<1>10. CASE Pass(w)
  BY <1>10 DEF Pass, EndsAs
<1> QED BY <1>1, <1>2, <1>3, <1>4, <1>5, <1>6, <1>7, <1>8, <1>9, <1>10 DEF Step

-----------------------------------------------------------------------------
(* Type correctness.                                                        *)

\* The first state has the types, whichever store is looked at.
LEMMA InitTyped == Init => TypeOK
<1> SUFFICES ASSUME Init PROVE TypeOK
  OBVIOUS
<1>1. store \in Stores /\ Len(Publish[store]) \in Nat
  BY ProgramsAreOrdered DEF Init, Ordered, Program
<1>3. 1 \in 1..(Len(Publish[store]) + 1) /\ 0 \in 0..MaxStops
  BY <1>1, WriteOnceAssumption
<1>2. file \in [Parts -> {"no", "torn", "whole"}]
  BY DEF Init, Parts
<1> QED BY <1>1, <1>2, <1>3 DEF Init, TypeOK, Outcomes

\* Every step keeps them; a jump over commands stays inside the program.
LEMMA StepTyped ==
  ASSUME TypeOK, NEW w \in Writers, Start(w) \/ Step(w) \/ Stop(w) \/ RunRaises(w)
  PROVE  TypeOK'
<1> USE DEF TypeOK
<1>1. Ordered(Program) /\ Len(Program) \in Nat
  BY ProgramsAreOrdered DEF Ordered
<1>2. store' = store /\ stops' \in 0..MaxStops /\ lock' \in Writers \cup {Nobody}
  <2> USE DEF EndsAs, Ends, Go, Moves, disk
  <2>1. CASE Start(w) \/ Stop(w) \/ RunRaises(w)
    BY <2>1, WriteOnceAssumption DEF Start, Stop, RunRaises
  <2>2. CASE LookAbsent(w) \/ TakeLock(w) \/ StagePrivately(w) \/ LookEmpty(w) \/ NeedReview(w)
             \/ LookNew(w)
    BY <2>2 DEF LookAbsent, TakeLock, StagePrivately, LookEmpty, NeedReview, LookNew
  <2>3. CASE LookAgree(w) \/ KeepReview(w) \/ SameReview(w)
    BY <2>3 DEF LookAgree, Agreed, KeepReview, SameReview
  <2>4. CASE MoveInto(w) \/ LinkInto(w) \/ OverwriteFile(w)
    BY <2>4 DEF MoveInto, LinkInto, OverwriteFile, Agreed, Arrives
  <2>5. CASE MakeDirectory(w) \/ EnterDirectory(w) \/ OpenPart(w) \/ FillPart(w) \/ PlacePart(w)
    BY <2>5 DEF MakeDirectory, EnterDirectory, OpenPart, FillPart, PlacePart
  <2>6. CASE PutPart(w) \/ Pass(w)
    BY <2>6 DEF PutPart, Pass
  <2> QED BY <2>1, <2>2, <2>3, <2>4, <2>5, <2>6 DEF Step
<1>3. ASSUME NEW how \in Outcomes, Ends(w, how)
      PROVE  /\ held' \in [Writers -> Parts \cup {"none"}]
             /\ pc' \in [Writers -> 1..(Len(Program) + 1)]
             /\ outcome' \in [Writers -> Outcomes]
  BY <1>1, <1>3 DEF Ends, Program
<1>4. ASSUME Moves(w, 1), pc[w] <= Len(Program)
      PROVE  pc' \in [Writers -> 1..(Len(Program) + 1)] /\ outcome' \in [Writers -> Outcomes]
  BY <1>1, <1>4 DEF Moves, Program
<1>5. \A part \in Parts, shape \in {"no", "torn", "whole"} :
        [file EXCEPT ![part] = shape] \in [Parts -> {"no", "torn", "whole"}]
  OBVIOUS
<1>6. pc[w] <= Len(Program) /\ Command(w).verb \in Writes => Command(w).part \in Parts
  BY <1>1 DEF Ordered, Command
<1>7. CASE Start(w)
  BY <1>7 DEF Start, disk, Outcomes, Program
<1>8. CASE RunRaises(w)
  <2>1. file' \in [Parts -> {"no", "torn", "whole"}] /\ dir' \in BOOLEAN /\ owner' = Nobody
    BY <1>8 DEF RunRaises, Parts
  <2>2. Ends(w, "stopped")
    BY <1>8 DEF RunRaises
  <2> QED BY <1>2, <1>3, <2>1, <2>2 DEF Outcomes, Program
<1>9. CASE Quits(w, "refused") \/ Quits(w, "stopped") \/ Quits(w, "passed")
  BY <1>2, <1>3, <1>9 DEF Quits, disk, Outcomes, Program
<1>10. CASE pc[w] <= Len(Program) /\ LooksOn(w)
  <2>1. CASE Go(w, 1)
    BY <1>2, <1>4, <1>10, <2>1 DEF LooksOn, Go, disk, Program
  <2>2. CASE Go(w, Command(w).skip) /\ Command(w).verb \in {"keep", "same"}
    <3>1. pc[w] + Command(w).skip \in 1..(Len(Program) + 1)
      BY <1>1, <1>10, <2>2 DEF Ordered, Command
    <3> QED BY <1>2, <1>10, <2>2, <3>1 DEF LooksOn, Go, Moves, disk, Program
  <2> QED BY <1>10, <2>1, <2>2 DEF LooksOn
<1>11. CASE pc[w] <= Len(Program) /\ Moved(w)
  <2>1. file' \in [Parts -> {"no", "torn", "whole"}]
    BY <1>11 DEF Moved, Arrives
  <2> QED BY <1>2, <1>4, <1>11, <2>1 DEF Moved, Arrives, Go, Program
<1>12. CASE pc[w] <= Len(Program) /\ (Makes(w) \/ EnterDirectory(w))
  BY <1>2, <1>4, <1>12 DEF Makes, MakeDirectory, EnterDirectory, Go, Program
<1>13. CASE pc[w] <= Len(Program) /\ (OpenPart(w) \/ PlacePart(w))
  <2>1. Part(w) \in Parts
    BY <1>6, <1>13 DEF OpenPart, PlacePart, At, Writes, Part, Command
  <2>2. file' \in [Parts -> {"no", "torn", "whole"}]
    BY <1>5, <1>13, <2>1 DEF OpenPart, PlacePart, Sets
  <2> QED BY <1>2, <1>4, <1>13, <2>1, <2>2 DEF OpenPart, PlacePart, Go, Program
<1>14. CASE pc[w] <= Len(Program) /\ FillPart(w)
  BY <1>2, <1>4, <1>5, <1>14 DEF FillPart, Sets, Program
<1>15. CASE pc[w] <= Len(Program) /\ Puts(w)
  <2>1. Part(w) \in Parts
    BY <1>6, <1>15 DEF Puts, PutPart, At, Writes, Part, Command
  <2>2. file' \in [Parts -> {"no", "torn", "whole"}]
    BY <1>15, <2>1 DEF Puts, PutPart, Parts
  <2>3. held' \in [Writers -> Parts \cup {"none"}]
    BY <1>15, <2>1 DEF Puts, PutPart
  <2> QED BY <1>2, <1>4, <1>15, <2>1, <2>2, <2>3 DEF Puts, PutPart, Program
<1> QED BY <1>7, <1>8, <1>9, <1>10, <1>11, <1>12, <1>13, <1>14, <1>15, Kinds

-----------------------------------------------------------------------------
(* Stores that move whole.                                                  *)

\* No step changes which store is looked at.
LEMMA StoreStays ==
  ASSUME NEW w \in Writers, Start(w) \/ Step(w) \/ Stop(w) \/ RunRaises(w)
  PROVE  store' = store
BY Kinds DEF Start, RunRaises, Quits, LooksOn, Moved, Makes, MakeDirectory, EnterDirectory,
   OpenPart,
   FillPart, PlacePart, Puts, PutPart, Ends, Arrives, Go, Moves

\* A writer that goes on over commands that do not move keeps the invariant when it
\* leaves manifest and data alone, does not take a review away, and the commands
\* that give the review leave one.
LEMMA AdvanceKeepsMoved ==
  ASSUME TypeOK, TypeOK', MovedSound, MovesWhole(store), store' = store,
         NEW w \in Writers, NEW n \in Nat \ {0},
         pc' = [pc EXCEPT ![w] = @ + n], outcome' = outcome, dir' = dir, owner' = owner,
         \A x \in Writers : held'[x] \in {"none", "review", "tmp"},
         \A part \in {"manifest", "data"} : file'[part] = file[part],
         file["review"] # "no" => file'["review"] # "no",
         Reviews /\ file'["review"] = "torn" => store \in OpenReview,
         \A i \in pc[w]..(pc[w] + n - 1) :
            Program[i].verb \notin Movers /\ (Gives(Program[i]) => file'["review"] # "no")
  PROVE  MovedSound'
<1>1. Program' = Program /\ Reviews' = Reviews
  BY DEF Program, Reviews
<1>2. (dir => \A part \in Needs[store] \ {"review"} : file[part] = "whole")'
  BY DEF MovedSound, MovesWhole
<1>3. ASSUME NEW x \in Writers, NEW i \in 1..(pc'[x] - 1)
      PROVE  i \in 1..(pc[x] - 1) \/ (x = w /\ i \in pc[w]..(pc[w] + n - 1))
  <2>1. pc[x] \in Nat /\ pc[w] \in Nat
    BY DEF TypeOK, MovesWhole, Ordered
  <2>2. CASE x = w
    <3>1. pc'[x] = pc[w] + n
      BY <2>2 DEF TypeOK
    <3> QED BY <1>3, <2>1, <2>2, <3>1
  <2>3. CASE x # w
    <3>1. pc'[x] = pc[x]
      BY <2>3 DEF TypeOK
    <3> QED BY <1>3, <3>1
  <2> QED BY <2>2, <2>3
<1>4. ASSUME NEW x \in Writers
      PROVE  /\ Past(x, Movers)' => HasMoved(x)'
             /\ (\E i \in 1..(pc[x] - 1) : Gives(Program[i]))' => file'["review"] # "no"
  BY <1>1, <1>3 DEF MovedSound, Past, HasMoved
<1>5. ASSUME NEW x \in Writers, outcome'[x] = "passed"
      PROVE  HasMoved(x)' /\ (Reviews' => file'["review"] # "no")
  BY <1>1, <1>5 DEF MovedSound, HasMoved
<1> QED BY <1>1, <1>2, <1>4, <1>5 DEF MovedSound

\* So does an attempt that ends, if it reports success only when its subject is there.
LEMMA QuitKeepsMoved ==
  ASSUME TypeOK, TypeOK', MovedSound, store' = store, NEW w \in Writers, NEW how \in Outcomes,
         Quits(w, how),
         how = "passed" => HasMoved(w) /\ (Reviews => file["review"] # "no")
  PROVE  MovedSound'
<1>1. Program' = Program /\ Reviews' = Reviews /\ file' = file /\ dir' = dir /\ owner' = owner
  BY DEF Program, Reviews, Quits, disk
<1>2. ASSUME NEW x \in Writers
      PROVE  /\ x # w => pc'[x] = pc[x] /\ outcome'[x] = outcome[x] /\ held'[x] = held[x]
             /\ x = w => pc'[x] = 1 /\ outcome'[x] = how /\ held'[x] = "none"
  BY DEF Quits, Ends, TypeOK
<1>3. ASSUME NEW x \in Writers
      PROVE  /\ held'[x] \in {"none", "review", "tmp"}
             /\ Past(x, Movers)' => HasMoved(x)'
             /\ (\E i \in 1..(pc[x] - 1) : Gives(Program[i]))' => file'["review"] # "no"
             /\ outcome'[x] = "passed" => HasMoved(x)' /\ (Reviews' => file'["review"] # "no")
  <2>1. CASE x = w
    BY <1>1, <1>2, <2>1 DEF Past, HasMoved
  <2>2. CASE x # w
    BY <1>1, <1>2, <2>2 DEF Past, HasMoved, MovedSound
  <2> QED BY <2>1, <2>2
<1> QED BY <1>1, <1>3 DEF MovedSound

\* And so does every step of a store that moves whole: a move onto a free name is
\* the first of its subject, one over another is of a store where the last one wins.
LEMMA StepKeepsMoved ==
  ASSUME TypeOK, MovedSound, store \notin InPlace,
         NEW w \in Writers, Start(w) \/ Step(w) \/ Stop(w) \/ RunRaises(w)
  PROVE  MovedSound'
<1>1. TypeOK' /\ store' = store /\ Program' = Program /\ Reviews' = Reviews
  BY StepTyped, StoreStays DEF Program, Reviews
<1>2. MovesWhole(store) /\ Ordered(Program) /\ Len(Program) \in Nat /\ pc[w] \in 1..(Len(Program) + 1)
  BY ProgramsAreOrdered DEF TypeOK, Ordered, Program
<1>one. 1 \in Nat \ {0} /\ \A i \in pc[w]..(pc[w] + 1 - 1) : Program[i] = Command(w)
  BY <1>2 DEF Command
<1>3. CASE Start(w)
  <2>1. \A x \in Writers : outcome'[x] = "passed" => outcome[x] = "passed"
    BY <1>3 DEF Start, TypeOK
  <2> QED BY <1>1, <1>3, <2>1 DEF Start, disk, MovedSound, Past, HasMoved
<1>4. CASE RunRaises(w)
  BY <1>4 DEF RunRaises, InPlace
<1>5. CASE Quits(w, "refused") \/ Quits(w, "stopped")
  BY <1>1, <1>5, QuitKeepsMoved DEF Outcomes
<1>6. CASE Quits(w, "passed") /\ Accepted /\ (store \in Dated => owner = w)
  BY <1>1, <1>6, QuitKeepsMoved DEF Outcomes, Accepted, HasMoved, Reviews
<1>7. CASE Quits(w, "passed") /\ pc[w] > Len(Program)
  <2>1. Past(w, Movers) /\ (Reviews => \E i \in 1..(pc[w] - 1) : Gives(Program[i]))
    BY <1>2, <1>7 DEF MovesWhole, Past, Program, Reviews
  <2> QED BY <1>1, <1>7, <2>1, QuitKeepsMoved DEF Outcomes, MovedSound
<1>8. CASE pc[w] <= Len(Program) /\ LooksOn(w)
  <2>1. file' = file /\ dir' = dir /\ owner' = owner /\ outcome' = outcome /\ held' = held
    BY <1>8 DEF LooksOn, Go, Moves, disk
  <2>2. CASE Go(w, 1) /\ Command(w).verb \notin Movers \cup Opens \cup Writes
             /\ (Command(w).verb = "need" => file["review"] # "no")
    <3>1. Gives(Command(w)) => file["review"] # "no"
      BY <2>2 DEF Gives, Writes
    <3> QED BY <1>1, <1>2, <1>one, <2>1, <2>2, <3>1, AdvanceKeepsMoved DEF MovedSound, Go, Moves
  <2>3. CASE Go(w, Command(w).skip) /\ Command(w).verb \in {"keep", "same"} /\ file["review"] # "no"
    <3>1. /\ Command(w).skip \in Nat \ {0}
          /\ \A i \in pc[w]..(pc[w] + Command(w).skip - 1) : Program[i].verb \notin Movers
      BY <1>2, <1>8, <2>3 DEF Ordered, Command
    <3> QED BY <1>1, <1>2, <2>1, <2>3, <3>1, AdvanceKeepsMoved DEF MovedSound, Go, Moves
  <2> QED BY <1>8, <2>2, <2>3 DEF LooksOn
<1>9. CASE pc[w] <= Len(Program) /\ Moved(w)
  <2>1. Command(w).verb = "overwrite" => store \in LastWins /\ store \notin Dated
    BY <1>2, <1>9 DEF MovesWhole, Command, Program, LastWins, Dated
  <2>2. dir' /\ owner' = w /\ outcome' = outcome /\ held' = held /\ file'["review"] = file["review"]
    BY <1>9 DEF Moved, Arrives, Go, Moves, Parts, TypeOK
  <2>3. \A part \in Needs[store] \ {"review"} : file'[part] = "whole"
    BY <1>2, <1>9 DEF Moved, Arrives, MovesWhole, Parts
  <2>4. ASSUME NEW x \in Writers
        PROVE  x # w => pc'[x] = pc[x]
    BY <1>9 DEF Moved, Arrives, Go, Moves, TypeOK
  <2>5. pc'[w] = pc[w] + 1
    BY <1>9 DEF Moved, Arrives, Go, Moves, TypeOK
  <2>6. ASSUME NEW x \in Writers, store \in Dated, Past(x, Movers)' \/ outcome'[x] = "passed"
        PROVE  x = w
    <3>1. ~dir
      BY <1>9, <2>1, <2>6 DEF Moved
    <3> QED BY <1>1, <2>2, <2>4, <2>6, <3>1 DEF MovedSound, Past, HasMoved
  <2>7. ASSUME NEW x \in Writers, NEW i \in 1..(pc'[x] - 1), Gives(Program[i])
        PROVE  file["review"] # "no"
    <3>1. i \in 1..(pc[x] - 1)
      BY <1>2, <1>9, <2>4, <2>5, <2>7 DEF Moved, Movers, Gives, Command, TypeOK
    <3> QED BY <2>7, <3>1 DEF MovedSound
  <2>8. ASSUME NEW x \in Writers
        PROVE  HasMoved(x)' \/ ~(Past(x, Movers)' \/ outcome'[x] = "passed")
    BY <1>1, <2>2, <2>6 DEF HasMoved
  <2> QED BY <1>1, <2>2, <2>3, <2>7, <2>8 DEF MovedSound
<1>10. CASE pc[w] <= Len(Program) /\ (Makes(w) \/ EnterDirectory(w))
  BY <1>2, <1>10 DEF MovesWhole, Opens, Makes, MakeDirectory, EnterDirectory, At, Program
<1>11. CASE pc[w] <= Len(Program) /\ (OpenPart(w) \/ PlacePart(w))
  <2>1. Part(w) \in {"review", "tmp"} /\ Command(w).verb \in {"open", "place"} /\ Part(w) = Command(w).part
    BY <1>2, <1>11 DEF MovesWhole, OpenPart, PlacePart, At, Writes, Part, Command, Program
  <2>2. \A part \in {"manifest", "data"} : file'[part] = file[part]
    BY <1>11, <2>1 DEF OpenPart, PlacePart, Sets, TypeOK, Parts
  <2>3. file["review"] # "no" \/ Part(w) = "review" => file'["review"] # "no"
    BY <1>11, <2>1 DEF OpenPart, PlacePart, Sets, TypeOK, Parts
  <2>4. Reviews /\ file'["review"] = "torn" => store \in OpenReview
    <3>1. Command(w).verb = "open" /\ Reviews => store \in OpenReview
      BY <1>2, <1>11 DEF MovesWhole, Reviews, Command, Program
    <3>2. Command(w).verb = "place" => file'["review"] \in {file["review"], "whole"}
      BY <1>11, <2>1 DEF OpenPart, PlacePart, Sets, TypeOK, Parts, At, Command
    <3> QED BY <2>1, <3>1, <3>2 DEF MovedSound
  <2>5. \A x \in Writers : held'[x] \in {"none", "review", "tmp"}
    BY <1>11, <2>1 DEF OpenPart, PlacePart, Go, TypeOK, MovedSound
  <2>6. pc' = [pc EXCEPT ![w] = @ + 1] /\ outcome' = outcome /\ dir' = dir /\ owner' = owner
    BY <1>11 DEF OpenPart, PlacePart, Go, Moves
  <2>7. Command(w).verb \notin Movers /\ (Gives(Command(w)) => file'["review"] # "no")
    BY <2>1, <2>3 DEF Movers, Gives
  <2> QED BY <1>1, <1>2, <2>2, <2>3, <2>4, <2>5, <2>6, <2>7, <1>one, AdvanceKeepsMoved
<1>12. CASE pc[w] <= Len(Program) /\ FillPart(w)
  <2>1. held[w] \in {"none", "review", "tmp"} /\ Command(w).verb = "fill"
    BY <1>12 DEF MovedSound, FillPart, At, Command
  <2>2. /\ \A part \in {"manifest", "data"} : file'[part] = file[part]
        /\ file'["review"] \in {file["review"], "whole"}
    BY <1>12, <2>1 DEF FillPart, Sets, TypeOK, Parts
  <2>3. \A x \in Writers : held'[x] \in {"none", "review", "tmp"}
    BY <1>12 DEF FillPart, TypeOK, MovedSound
  <2>4. pc' = [pc EXCEPT ![w] = @ + 1] /\ outcome' = outcome /\ dir' = dir /\ owner' = owner
    BY <1>12 DEF FillPart, Moves
  <2>5. Command(w).verb \notin Movers /\ ~Gives(Command(w))
    BY <2>1 DEF Movers, Gives
  <2> QED BY <1>1, <1>2, <2>2, <2>3, <2>4, <2>5, <1>one, AdvanceKeepsMoved DEF MovedSound
<1>13. CASE pc[w] <= Len(Program) /\ Puts(w)
  <2>1. Part(w) \in {"review", "tmp"} /\ Command(w).verb = "put" /\ Part(w) = Command(w).part
    BY <1>2, <1>13 DEF MovesWhole, Puts, PutPart, At, Writes, Part, Command, Program
  <2>2. \A part \in {"manifest", "data"} : file'[part] = file[part]
    BY <1>13, <2>1 DEF Puts, PutPart, TypeOK, Parts
  <2>3. file["review"] # "no" \/ Part(w) = "review" => file'["review"] # "no"
    BY <1>13, <2>1 DEF Puts, PutPart, TypeOK, Parts
  <2>4. Reviews => store \in OpenReview
    BY <1>2, <1>13, <2>1 DEF MovesWhole, Reviews, Command, Program
  <2>5. \A x \in Writers : held'[x] \in {"none", "review", "tmp"}
    BY <1>13, <2>1 DEF Puts, PutPart, TypeOK, MovedSound
  <2>6. pc' = [pc EXCEPT ![w] = @ + 1] /\ outcome' = outcome /\ dir' = dir /\ owner' = owner
    BY <1>13 DEF Puts, PutPart, Moves
  <2>7. Command(w).verb \notin Movers /\ (Gives(Command(w)) => file'["review"] # "no")
    BY <2>1, <2>3 DEF Movers, Gives
  <2> QED BY <1>1, <1>2, <2>2, <2>3, <2>4, <2>5, <2>6, <2>7, <1>one, AdvanceKeepsMoved
<1> QED BY <1>3, <1>4, <1>5, <1>6, <1>7, <1>8, <1>9, <1>10, <1>11, <1>12, <1>13, Kinds

-----------------------------------------------------------------------------
(* Stores that make their directory.                                        *)

\* RiskRunStore.publish starts with the mkdir, so an exception past its first
\* command is one of the writer that is inside.
LEMMA RiskRunMakesFirst == Publish["risk_run"][1].verb = "make"
BY DEF Publish, RiskRunPublish, Make, Do

\* An attempt that ends keeps the invariant, if success is reported by the owner
\* of an accepted subject.
LEMMA QuitKeepsMade ==
  ASSUME TypeOK, MadeSound, store' = store, NEW w \in Writers, NEW how \in Outcomes, Quits(w, how),
         how = "passed" => Accepted /\ owner = w
  PROVE  MadeSound'
<1>1. /\ Program' = Program /\ file' = file /\ dir' = dir /\ owner' = owner
      /\ Accepted' = Accepted
  BY DEF Program, Quits, disk, Accepted
<1>2. ASSUME NEW x \in Writers
      PROVE  /\ x # w => pc'[x] = pc[x] /\ outcome'[x] = outcome[x] /\ held'[x] = held[x]
             /\ x = w => pc'[x] = 1 /\ outcome'[x] = how
  BY DEF Quits, Ends, TypeOK
<1>3. ASSUME NEW x \in Writers
      PROVE  /\ Inside(x)' => dir' /\ owner' = x /\ Wrote(x)'
             /\ outcome'[x] = "passed" => Accepted' /\ owner' = x
  <2>1. CASE x = w
    BY <1>1, <1>2, <2>1 DEF Inside, Past
  <2>2. CASE x # w
    BY <1>1, <1>2, <2>2 DEF Inside, Past, Wrote, MadeSound
  <2> QED BY <2>1, <2>2
<1> QED BY <1>1, <1>3 DEF MadeSound

\* A writer inside that opens, fills or places one of its files keeps it: the
\* command before a write to an open file opened that same file.
LEMMA WriteKeepsMade ==
  ASSUME TypeOK, TypeOK', MadeSound, MadeOnce(store), store' = store,
         NEW w \in Writers, pc[w] <= Len(Program), Command(w).verb \in {"open", "fill", "place"},
         OpenPart(w) \/ FillPart(w) \/ PlacePart(w)
  PROVE  MadeSound'
<1> DEFINE k == pc[w]
           part == Command(w).part
<1>1. /\ Program' = Program /\ dir' = dir /\ owner' = owner /\ outcome' = outcome
      /\ pc' = [pc EXCEPT ![w] = @ + 1]
  BY DEF Program, OpenPart, FillPart, PlacePart, Go, Moves
<1>2. /\ k \in 1..Len(Program) /\ Len(Program) \in Nat /\ pc'[w] = k + 1 /\ part \in {"manifest", "data"}
      /\ Program[k] = Command(w)
  BY <1>1 DEF TypeOK, MadeOnce, Ordered, WritesItsOwn, Command, Program, Writes
<1>3. Inside(w) /\ dir /\ owner = w /\ Wrote(w)
  BY <1>2 DEF MadeOnce, WritesItsOwn, MadeSound, Inside, Past, Program, Writes
<1>4. ASSUME NEW x \in Writers, x # w
      PROVE  ~Inside(x)'
  BY <1>1, <1>3, <1>4 DEF MadeSound, Inside, Past, TypeOK
<1>5. /\ Command(w).verb = "open" => file'[part] = "torn" /\ held'[w] = part
      /\ Command(w).verb \in {"fill", "place"} => file'[part] = "whole"
      /\ \A other \in Parts : other # part => file'[other] = file[other]
  <2>1. CASE Command(w).verb = "fill"
    <3>1. /\ k - 1 \in 1..Len(Program) /\ Program[k - 1].verb = "open" /\ Program[k - 1].part = part
          /\ k = (k - 1) + 1
      BY <1>2, <2>1 DEF MadeOnce, WritesItsOwn, Program
    <3>2. held[w] = part
      BY <1>3, <3>1 DEF Wrote
    <3> QED BY <1>2, <2>1, <3>2 DEF OpenPart, FillPart, PlacePart, At, Command, Sets, TypeOK, Parts
  <2>2. CASE Command(w).verb \in {"open", "place"}
    BY <1>2, <2>2 DEF OpenPart, FillPart, PlacePart, At, Command, Sets, TypeOK, Parts, Part
  <2> QED BY <2>1, <2>2
<1>6. ASSUME NEW i \in 1..Len(Program), Program[i].verb \in {"fill", "place"}, i < pc'[w]
      PROVE  file'[Program[i].part] = "whole"
  <2>1. CASE i = k
    BY <1>2, <1>5, <1>6, <2>1
  <2>2. CASE i # k
    <3>1. i < k /\ file[Program[i].part] = "whole" /\ Program[i].part \in Parts
      BY <1>2, <1>3, <1>6, <2>2 DEF Wrote, MadeOnce, Ordered, Program, Writes
    <3>2. CASE Command(w).verb \in {"fill", "place"}
      BY <1>5, <3>1, <3>2
    <3>3. CASE Command(w).verb = "open"
      <4>1. Program[i].part # part
        BY <1>2, <1>3, <3>1, <3>3 DEF Wrote
      <4> QED BY <1>5, <3>1, <4>1
    <3> QED BY <3>2, <3>3
  <2> QED BY <2>1, <2>2
<1>7. ASSUME NEW i \in 1..Len(Program), Program[i].verb \in {"open", "place"}, i >= pc'[w]
      PROVE  file'[Program[i].part] = "no"
  <2>1. file[Program[i].part] = "no" /\ Program[i].part \in Parts
    BY <1>2, <1>3, <1>7 DEF Wrote, MadeOnce, Ordered, Program, Writes
  <2>2. Program[i].part # part
    <3>1. CASE Command(w).verb \in {"open", "place"}
      BY <1>2, <1>7, <3>1 DEF MadeOnce, WritesEachOnce, Program
    <3>2. CASE Command(w).verb = "fill"
      <4>1. k - 1 \in 1..Len(Program) /\ Program[k - 1].verb = "open" /\ Program[k - 1].part = part
        BY <1>2, <3>2 DEF MadeOnce, WritesItsOwn, Program
      <4> QED BY <1>2, <1>7, <4>1 DEF MadeOnce, WritesEachOnce, Program
    <3> QED BY <3>1, <3>2
  <2> QED BY <1>5, <2>1, <2>2
<1>8. ASSUME NEW i \in 1..Len(Program), Program[i].verb = "open", pc'[w] = i + 1
      PROVE  held'[w] = Program[i].part
  BY <1>2, <1>5, <1>8
<1>9. Wrote(w)'
  BY <1>1, <1>6, <1>7, <1>8 DEF Wrote
<1>10. Accepted => Accepted'
  <2>1. Command(w).verb \in {"open", "place"} => ~Accepted
    BY <1>2, <1>3 DEF Wrote, Accepted, MadeOnce
  <2>2. Command(w).verb = "fill" => (Accepted => Accepted')
    BY <1>1, <1>2, <1>5 DEF Accepted, MadeOnce, Parts
  <2> QED BY <2>1, <2>2
<1> QED BY <1>1, <1>3, <1>4, <1>9, <1>10 DEF MadeSound

\* And so does every step: only a mkdir lets a writer in, when there is no directory,
\* and only the writer inside a risk run takes the directory away.
LEMMA StepKeepsMade ==
  ASSUME TypeOK, MadeSound, store \in InPlace \ {"risk_manifest"},
         NEW w \in Writers, Start(w) \/ Step(w) \/ Stop(w) \/ RunRaises(w)
  PROVE  MadeSound'
<1>1. TypeOK' /\ store' = store /\ Program' = Program
  BY StepTyped, StoreStays DEF Program
<1>2. MadeOnce(store) /\ Len(Program) \in Nat /\ pc[w] \in 1..(Len(Program) + 1)
  BY ProgramsAreOrdered DEF TypeOK, Ordered, Program
<1>3. pc[w] <= Len(Program) =>
        /\ Command(w).verb \notin Movers \cup {"enter", "put", "agree", "keep", "same"}
        /\ pc[w] \in 1..Len(Program)
  BY <1>2 DEF MadeOnce, WritesItsOwn, Command, Program
<1>4. CASE Start(w)
  <2>1. \A x \in Writers : outcome'[x] = "passed" => outcome[x] = "passed"
    BY <1>4 DEF Start, TypeOK
  <2> QED BY <1>1, <1>4, <2>1 DEF Start, disk, MadeSound, Inside, Past, Wrote, Accepted
<1>5. CASE RunRaises(w)
  <2>1. Inside(w) /\ owner = w
    <3>1. 1 \in 1..(pc[w] - 1) /\ Program[1].verb = "make"
      BY <1>2, <1>5, RiskRunMakesFirst DEF RunRaises, Program
    <3> QED BY <3>1 DEF Inside, Past, MadeSound
  <2>2. ~dir' /\ owner' = Nobody /\ file'["manifest"] = "no" /\ file'["data"] = "no"
    BY <1>5 DEF RunRaises, TypeOK, Parts
  <2>3. ASSUME NEW x \in Writers
        PROVE  /\ x # w => pc'[x] = pc[x] /\ outcome'[x] = outcome[x]
               /\ x = w => pc'[x] = 1 /\ outcome'[x] = "stopped"
    BY <1>5 DEF RunRaises, Ends, TypeOK
  <2>4. ASSUME NEW x \in Writers
        PROVE  ~Inside(x)' /\ outcome'[x] # "passed"
    BY <1>1, <2>1, <2>3 DEF MadeSound, Inside, Past
  <2> QED BY <2>2, <2>4 DEF MadeSound
<1>6. CASE Quits(w, "refused") \/ Quits(w, "stopped")
  BY <1>1, <1>6, QuitKeepsMade DEF Outcomes
<1>7. CASE Quits(w, "passed") /\ pc[w] > Len(Program)
  <2>1. Inside(w)
    BY <1>2, <1>7 DEF MadeOnce, WritesThemAll, Inside, Past, Program
  <2>2. \A part \in {"manifest", "data"} : file[part] = "whole"
    <3> TAKE part \in {"manifest", "data"}
    <3>1. PICK i \in 1..Len(Program) : Program[i].verb \in {"fill", "place"} /\ Program[i].part = part
      BY <1>2 DEF MadeOnce, WritesThemAll, Program
    <3>2. i < pc[w]
      BY <1>2, <1>7
    <3> QED BY <2>1, <3>1, <3>2 DEF MadeSound, Wrote
  <2> QED BY <1>1, <1>2, <1>7, <2>1, <2>2, QuitKeepsMade DEF MadeSound, Accepted, MadeOnce, Outcomes
<1>8. CASE pc[w] <= Len(Program) /\ LooksOn(w)
  <2>1. /\ file' = file /\ dir' = dir /\ owner' = owner /\ outcome' = outcome /\ held' = held
        /\ pc' = [pc EXCEPT ![w] = @ + 1] /\ Command(w).verb \notin Opens \cup Writes
    BY <1>3, <1>8 DEF LooksOn, Go, Moves, disk
  <2>2. ASSUME NEW x \in Writers, Inside(x)'
        PROVE  Inside(x) /\ Wrote(x)'
    <3>1. CASE x = w
      <4>1. pc'[w] = pc[w] + 1 /\ Program[pc[w]].verb \notin Opens \cup Writes
        BY <2>1 DEF TypeOK, Command
      <4>2. Inside(w)
        BY <1>1, <1>2, <2>2, <3>1, <4>1 DEF Inside, Past, Opens
      <4>3. Wrote(w)
        BY <4>2 DEF MadeSound
      <4> QED BY <1>1, <1>2, <2>1, <3>1, <4>1, <4>2, <4>3 DEF Wrote, Writes
    <3>2. CASE x # w
      <4>1. pc'[x] = pc[x]
        BY <2>1, <3>2 DEF TypeOK
      <4> QED BY <1>1, <2>1, <2>2, <4>1 DEF Inside, Past, Wrote, MadeSound
    <3> QED BY <3>1, <3>2
  <2> QED BY <1>1, <2>1, <2>2 DEF MadeSound, Accepted
<1>9. CASE pc[w] <= Len(Program) /\ Makes(w)
  <2>1. /\ dir' /\ owner' = w /\ file' = file /\ outcome' = outcome /\ held' = held
        /\ pc' = [pc EXCEPT ![w] = @ + 1] /\ ~dir /\ Command(w).verb = "make"
    BY <1>9 DEF Makes, MakeDirectory, Go, Moves, At, Command
  <2>2. \A x \in Writers : ~Inside(x) /\ outcome[x] # "passed"
    BY <2>1 DEF MadeSound, Accepted
  <2>3. \A x \in Writers : x # w => ~Inside(x)'
    BY <1>1, <2>1, <2>2 DEF Inside, Past, TypeOK
  <2>4. pc'[w] = pc[w] + 1 /\ Program[pc[w]].verb = "make"
    BY <2>1 DEF TypeOK, Command
  <2>5. \A j \in 1..Len(Program) : Program[j].verb \in Writes =>
          pc[w] < j /\ Program[j].part \in {"manifest", "data"}
    BY <1>2, <1>3, <1>9, <2>4 DEF MadeOnce, WritesEachOnce, WritesItsOwn, Program
  <2>6. file["manifest"] = "no" /\ file["data"] = "no"
    BY <2>1 DEF MadeSound
  <2>7. Wrote(w)'
    BY <1>1, <1>2, <2>1, <2>4, <2>5, <2>6 DEF Wrote, Writes
  <2> QED BY <2>1, <2>2, <2>3, <2>7 DEF MadeSound
<1>10. CASE pc[w] <= Len(Program) /\ (OpenPart(w) \/ FillPart(w) \/ PlacePart(w))
  <2>1. Command(w).verb \in {"open", "fill", "place"}
    BY <1>10 DEF OpenPart, FillPart, PlacePart, At, Command
  <2> QED BY <1>1, <1>2, <1>10, <2>1, WriteKeepsMade
<1>11. ASSUME pc[w] <= Len(Program)
       PROVE  ~Moved(w) /\ ~EnterDirectory(w) /\ ~Puts(w) /\ Command(w).verb \notin {"agree", "link"}
  BY <1>3, <1>11 DEF Moved, EnterDirectory, Puts, PutPart, At, Command, Movers
<1> QED BY <1>4, <1>5, <1>6, <1>7, <1>8, <1>9, <1>10, <1>11, Kinds

-----------------------------------------------------------------------------
(* The risk policy and event, and all stores together.                      *)

\* RiskManifestStore: no step takes the directory or the manifest away.
LEMMA StepKeepsEntered ==
  ASSUME TypeOK, EnteredSound, store = "risk_manifest",
         NEW w \in Writers, Start(w) \/ Step(w) \/ Stop(w) \/ RunRaises(w)
  PROVE  EnteredSound'
<1> USE DEF EnteredSound
<1>1. TypeOK' /\ store' = store
  BY StepTyped, StoreStays
<1>2. Program = <<Empty, Enter, To("open", "tmp"), To("fill", "tmp"), Put("manifest")>>
  BY RiskManifestSteps DEF Program
<1>3. /\ Len(Program) = 5 /\ Program[1].verb = "empty" /\ Program[2].verb = "enter"
      /\ Program[3].verb = "open" /\ Program[3].part = "tmp" /\ Program[4].verb = "fill"
      /\ Program[5].verb = "put" /\ Program[5].part = "manifest"
  BY <1>2 DEF Empty, Enter, Put, To, Do
<1>4. pc[w] \in 1..6 /\ (pc[w] <= Len(Program) => pc[w] \in 1..5)
  BY <1>3 DEF TypeOK, Program
<1>5. ASSUME NEW x \in Writers, x # w
      PROVE  pc'[x] = pc[x] /\ outcome'[x] = outcome[x]
  <2> USE DEF TypeOK, Ends, Go, Moves
  <2>1. CASE Start(w) \/ RunRaises(w) \/ Quits(w, "refused") \/ Quits(w, "stopped")
             \/ Quits(w, "passed") \/ LooksOn(w)
    BY <1>5, <2>1 DEF Start, RunRaises, Quits, LooksOn
  <2>2. CASE Moved(w) \/ Makes(w) \/ EnterDirectory(w)
    BY <1>5, <2>2 DEF Moved, Arrives, Makes, MakeDirectory, EnterDirectory
  <2>3. CASE OpenPart(w) \/ FillPart(w) \/ PlacePart(w) \/ Puts(w)
    BY <1>5, <2>3 DEF OpenPart, FillPart, PlacePart, Puts, PutPart
  <2> QED BY <2>1, <2>2, <2>3, Kinds
<1>6. CASE Start(w)
  BY <1>5, <1>6 DEF Start, disk, TypeOK
<1>7. CASE RunRaises(w)
  BY <1>7 DEF RunRaises
<1>8. CASE Quits(w, "refused") \/ Quits(w, "stopped")
  <2>1. pc'[w] = 1 /\ outcome'[w] # "passed" /\ file' = file /\ dir' = dir /\ owner' = owner
    BY <1>8 DEF Quits, Ends, disk, TypeOK
  <2> QED BY <1>5, <2>1
<1>9. CASE Quits(w, "passed") /\ pc[w] > Len(Program)
  <2>1. pc'[w] = 1 /\ file' = file /\ dir' = dir /\ owner' = owner
    BY <1>9 DEF Quits, Ends, disk, TypeOK
  <2>2. dir /\ file["manifest"] # "no"
    BY <1>3, <1>4, <1>9
  <2> QED BY <1>5, <2>1, <2>2
<1>10. CASE pc[w] <= Len(Program) /\ LooksOn(w)
  <2>1. Command(w).verb \notin {"keep", "same"} \cup Opens \cup Writes => pc[w] = 1
    BY <1>3, <1>4, <1>10 DEF Command, Opens, Writes
  <2>2. Command(w).verb \notin {"keep", "same"}
    BY <1>3, <1>4, <1>10 DEF Command
  <2>3. Go(w, 1) /\ pc[w] = 1 /\ UNCHANGED disk
    BY <1>10, <2>1, <2>2 DEF LooksOn
  <2>4. pc'[w] = 2 /\ outcome' = outcome /\ file' = file /\ dir' = dir /\ owner' = owner
    BY <2>3 DEF Go, Moves, TypeOK, disk
  <2> QED BY <1>5, <2>4
<1>11. CASE EnterDirectory(w)
  <2>1. /\ dir' /\ owner' # Nobody /\ file' = file /\ outcome' = outcome /\ pc[w] = 2 /\ pc'[w] = 3
    BY <1>3, <1>4, <1>11, WriteOnceAssumption DEF EnterDirectory, At, Go, Moves, TypeOK
  <2> QED BY <1>5, <2>1
<1>12. CASE pc[w] <= Len(Program) /\ (OpenPart(w) \/ FillPart(w))
  <2>1. /\ dir' = dir /\ owner' = owner /\ outcome' = outcome
        /\ pc[w] \in {3, 4} /\ pc'[w] = pc[w] + 1
    BY <1>3, <1>4, <1>12 DEF OpenPart, FillPart, At, Moves, TypeOK
  <2>2. file["manifest"] # "no" => file'["manifest"] # "no"
    BY <1>12 DEF OpenPart, FillPart, Sets, TypeOK, Parts
  <2> QED BY <1>5, <2>1, <2>2
<1>13. CASE pc[w] <= Len(Program) /\ Puts(w)
  <2>1. /\ dir' = dir /\ owner' = owner /\ outcome' = outcome
        /\ pc[w] = 5 /\ pc'[w] = 6
    BY <1>3, <1>4, <1>13 DEF Puts, PutPart, At, Moves, TypeOK
  <2>2. file'["manifest"] # "no"
    BY <1>3, <1>13, <2>1 DEF Puts, PutPart, Part, TypeOK, Parts
  <2> QED BY <1>5, <2>1, <2>2
<1>14. ASSUME pc[w] <= Len(Program)
       PROVE  ~Moved(w) /\ ~Makes(w) /\ ~PlacePart(w) /\ Command(w).verb \notin {"agree", "link"}
  BY <1>3, <1>4, <1>14 DEF Moved, Makes, MakeDirectory, PlacePart, At, Command, Movers
<1> QED BY <1>6, <1>7, <1>8, <1>9, <1>10, <1>11, <1>12, <1>13, <1>14, Kinds

\* The invariant holds at first.
LEMMA InitSound == Init => PublicationSound
<1> SUFFICES ASSUME Init PROVE PublicationSound
  OBVIOUS
<1>1. TypeOK
  BY InitTyped
<1>2. \A w \in Writers : pc[w] = 1 /\ outcome[w] = "idle" /\ held[w] = "none"
  BY DEF Init
<1>3. file["review"] \in {"no", "whole"} /\ file["manifest"] = "no" /\ file["data"] = "no"
  BY DEF Init, Parts
<1> QED BY <1>1, <1>2, <1>3, WriteOnceAssumption DEF Init, PublicationSound, MovedSound, MadeSound,
           EnteredSound, Past, Inside

\* Every step keeps it, by the kind of the store.
LEMMA StepSound == PublicationSound /\ [Next]_vars => PublicationSound'
<1> SUFFICES ASSUME PublicationSound, [Next]_vars PROVE PublicationSound'
  OBVIOUS
<1>1. CASE Next
  <2>1. PICK w \in Writers : Start(w) \/ Step(w) \/ Stop(w) \/ RunRaises(w)
    BY <1>1 DEF Next
  <2>2. TypeOK /\ TypeOK' /\ store' = store
    BY <2>1, StepTyped, StoreStays DEF PublicationSound
  <2> QED BY <2>1, <2>2, StepKeepsMoved, StepKeepsMade, StepKeepsEntered DEF PublicationSound
<1>2. CASE UNCHANGED vars
  BY <1>2 DEF vars, PublicationSound, TypeOK, Program, MovedSound, Past, HasMoved, Reviews,
     MadeSound,
     Inside, Wrote, Accepted, EnteredSound
<1> QED BY <1>1, <1>2

\* The invariant of every publication, for any number of writers and stops and any
\* of the stores.
THEOREM PublicationInvariance == Spec => []PublicationSound
BY InitSound, StepSound, PTL DEF Spec

\* A writer that reports success is right, however many writers overlap and however
\* often they stop: the reader accepts what is on disk, unless another attempt has
\* the review open.
THEOREM SuccessIsOnDisk == Spec => []PassedIsOnDisk
<1>1. PublicationSound => PassedIsOnDisk
  <2> SUFFICES ASSUME PublicationSound, NEW w \in Writers, outcome[w] = "passed"
               PROVE  (Accepted \/ HalfWritten) /\ (store \in Dated => owner = w)
    BY DEF PassedIsOnDisk
  <2>1. store \in Stores /\ file["review"] \in {"no", "torn", "whole"}
        /\ file["manifest"] \in {"no", "torn", "whole"}
    BY DEF PublicationSound, TypeOK, Parts
  <2>2. CASE store \notin InPlace
    BY <2>1, <2>2 DEF PublicationSound, MovedSound, HasMoved, Reviews, Accepted, HalfWritten
  <2>3. CASE store \in InPlace \ {"risk_manifest"}
    BY <2>3 DEF PublicationSound, MadeSound
  <2>4. CASE store = "risk_manifest"
    <3>1. Needs[store] = {"manifest"}
      BY <2>4 DEF Needs, RiskManifestRead
    <3> QED BY <2>1, <2>4, <3>1 DEF PublicationSound, EnteredSound, Accepted, HalfWritten,
               InPlace, Dated
  <2> QED BY <2>2, <2>3, <2>4
<1> QED BY <1>1, PublicationInvariance, PTL

-----------------------------------------------------------------------------
(* What was accepted stays.                                                 *)

\* In a store that moves whole: a second move finds the name taken, except where the
\* last one wins, and nothing else touches what the reader needs but the review.
LEMMA AcceptedMovedStays ==
  ASSUME TypeOK, TypeOK', MovedSound, MovedSound', store \notin InPlace, Accepted,
         NEW w \in Writers, Start(w) \/ Step(w) \/ Stop(w) \/ RunRaises(w)
  PROVE  (Accepted' \/ HalfWritten') /\ (owner' = owner \/ store \in LastWins)
<1>1. store' = store
  BY StoreStays
<1>2. dir /\ (Reviews => file["review"] = "whole") /\ (MovesWhole(store) /\ Ordered(Program))
  BY ProgramsAreOrdered DEF Accepted, Reviews, TypeOK
<1>3. /\ dir' /\ (owner' = owner \/ store \in LastWins)
      /\ file["review"] # "no" => file'["review"] # "no"
  <2>1. CASE Start(w) \/ Quits(w, "refused") \/ Quits(w, "stopped") \/ Quits(w, "passed") \/ LooksOn(w)
    BY <1>2, <2>1 DEF Start, Quits, LooksOn, disk
  <2>2. CASE pc[w] <= Len(Program) /\ Moved(w)
    <3>1. pc[w] \in 1..Len(Program)
      BY <1>2, <2>2 DEF TypeOK, Ordered, Program
    <3>2. store \in LastWins
      BY <1>2, <2>2, <3>1 DEF Moved, MovesWhole, Command, Program
    <3> QED BY <2>2, <3>2 DEF Moved, Arrives, Parts
  <2>3. CASE pc[w] <= Len(Program) /\ (Makes(w) \/ EnterDirectory(w))
    <3>1. pc[w] \in 1..Len(Program)
      BY <1>2, <2>3 DEF TypeOK, Ordered, Program
    <3> QED BY <1>2, <2>3, <3>1 DEF MovesWhole, Opens, Makes, MakeDirectory, EnterDirectory, At,
               Program
  <2>4. CASE OpenPart(w) \/ FillPart(w) \/ PlacePart(w)
    BY <1>2, <2>4 DEF OpenPart, FillPart, PlacePart, Sets, TypeOK, Parts
  <2>5. CASE Puts(w)
    BY <1>2, <2>5 DEF Puts, PutPart, TypeOK, Parts
  <2>6. CASE RunRaises(w)
    BY <2>6 DEF RunRaises, InPlace
  <2> QED BY <2>1, <2>2, <2>3, <2>4, <2>5, <2>6, Kinds
<1>4. file'["review"] \in {"no", "torn", "whole"}
  BY DEF TypeOK, Parts
<1> QED BY <1>1, <1>2, <1>3, <1>4 DEF MovedSound, Accepted, HalfWritten, Reviews

\* In a store that makes its directory: the writer inside has nothing left to open
\* when both files are whole, and a risk run raises no more.
LEMMA AcceptedMadeStays ==
  ASSUME TypeOK, TypeOK', MadeSound, MadeSound', store \in InPlace \ {"risk_manifest"}, Accepted,
         NEW w \in Writers, Start(w) \/ Step(w) \/ Stop(w) \/ RunRaises(w)
  PROVE  Accepted' /\ owner' = owner
<1>1. store' = store
  BY StoreStays
<1>2. MadeOnce(store) /\ Ordered(Program) /\ Len(Program) \in Nat /\ pc[w] \in 1..(Len(Program) + 1)
  BY ProgramsAreOrdered DEF TypeOK, Ordered, Program
<1>3. CASE Start(w) \/ Quits(w, "refused") \/ Quits(w, "stopped") \/ Quits(w, "passed") \/ LooksOn(w)
  BY <1>1, <1>3 DEF Start, Quits, LooksOn, disk, Accepted
<1>4. dir /\ file["manifest"] = "whole" /\ file["data"] = "whole"
  BY <1>2 DEF Accepted, MadeOnce
<1>5. Inside(w) => Wrote(w)
  BY DEF MadeSound
<1>6. CASE pc[w] <= Len(Program) /\ (OpenPart(w) \/ PlacePart(w))
  <2>1. Program[pc[w]].verb \in {"open", "place"} /\ pc[w] \in 1..Len(Program)
    BY <1>2, <1>6 DEF OpenPart, PlacePart, At
  <2>2. Inside(w) /\ Program[pc[w]].part \in {"manifest", "data"}
    BY <1>2, <2>1 DEF MadeOnce, WritesItsOwn, Inside, Past, Program, Writes
  <2> QED BY <1>4, <1>5, <2>1, <2>2 DEF Wrote
<1>7. CASE FillPart(w)
  BY <1>1, <1>2, <1>4, <1>7 DEF FillPart, Sets, TypeOK, Parts, Accepted, MadeOnce
<1>8. CASE RunRaises(w)
  <2>1. pc[w] \in 2..Len(Program) /\ store = "risk_run"
    BY <1>8 DEF RunRaises
  <2>2. Inside(w)
    <3>1. 1 \in 1..(pc[w] - 1) /\ Program[1].verb = "make"
      BY <1>2, <2>1, RiskRunMakesFirst DEF Program
    <3> QED BY <3>1 DEF Inside, Past
  <2>3. Program[3].verb = "place" /\ Program[3].part = "manifest" /\ Len(Program) = 3
    BY <2>1 DEF Program, Publish, RiskRunPublish, Make, Place, To, Do
  <2> QED BY <1>2, <1>4, <1>5, <2>1, <2>2, <2>3 DEF Wrote
<1>9. CASE pc[w] <= Len(Program) /\ (Moved(w) \/ Makes(w) \/ EnterDirectory(w) \/ Puts(w))
  <2>1. Program[pc[w]].verb \notin Movers \cup {"enter", "put"}
    BY <1>2, <1>9 DEF MadeOnce, WritesItsOwn, Program
  <2> QED BY <1>4, <1>9, <2>1 DEF Moved, Makes, EnterDirectory, Puts, PutPart, At, Command
<1> QED BY <1>3, <1>6, <1>7, <1>8, <1>9, Kinds

\* In the risk policy and event store: the manifest is replaced by a document, which
\* an overlapping attempt may have half written.
LEMMA AcceptedEnteredStays ==
  ASSUME TypeOK, TypeOK', EnteredSound, EnteredSound', store = "risk_manifest", Accepted,
         NEW w \in Writers, Start(w) \/ Step(w) \/ Stop(w) \/ RunRaises(w)
  PROVE  (Accepted' \/ HalfWritten') /\ owner' = owner
<1>1. store' = store
  BY StoreStays
<1>2. Needs[store] = {"manifest"} /\ dir /\ file["manifest"] = "whole" /\ owner # Nobody
  BY DEF Needs, RiskManifestRead, Accepted, EnteredSound
<1>3. Program = <<Empty, Enter, To("open", "tmp"), To("fill", "tmp"), Put("manifest")>>
  BY RiskManifestSteps DEF Program
<1>4. /\ Len(Program) = 5 /\ pc[w] \in 1..6
      /\ \A i \in 1..5 : Program[i].verb \notin Movers \cup {"make"}
  BY <1>3 DEF TypeOK, Empty, Enter, Put, To, Do, Movers, Program
<1>5. dir' /\ owner' = owner /\ file'["manifest"] # "no"
  <2>1. CASE Start(w) \/ Quits(w, "refused") \/ Quits(w, "stopped") \/ Quits(w, "passed") \/ LooksOn(w)
    BY <1>2, <2>1 DEF Start, Quits, LooksOn, disk
  <2>2. CASE EnterDirectory(w)
    BY <1>2, <2>2 DEF EnterDirectory
  <2>3. CASE OpenPart(w) \/ FillPart(w) \/ PlacePart(w)
    BY <1>2, <2>3 DEF OpenPart, FillPart, PlacePart, Sets, TypeOK, Parts
  <2>4. CASE Puts(w)
    BY <1>2, <2>4 DEF Puts, PutPart, TypeOK, Parts
  <2>5. CASE pc[w] <= Len(Program) /\ (Moved(w) \/ Makes(w))
    BY <1>4, <2>5 DEF Moved, Makes, MakeDirectory, At, Command
  <2>6. CASE RunRaises(w)
    BY <2>6 DEF RunRaises
  <2> QED BY <2>1, <2>2, <2>3, <2>4, <2>5, <2>6, Kinds
<1>6. file'["manifest"] \in {"no", "torn", "whole"}
  BY DEF TypeOK, Parts
<1> QED BY <1>1, <1>2, <1>5, <1>6 DEF Accepted, HalfWritten

\* What a reader accepts stays as it was accepted, in every store, whatever the other
\* writers, the exceptions and the crashes do.
THEOREM AcceptedIsKept == Spec => AcceptedStays
<1>1. PublicationSound /\ PublicationSound' /\ [Next]_vars =>
        (Accepted => (Accepted' \/ HalfWritten') /\ (owner' = owner \/ store \in LastWins))
  <2> SUFFICES ASSUME PublicationSound, PublicationSound', [Next]_vars, Accepted
               PROVE  (Accepted' \/ HalfWritten') /\ (owner' = owner \/ store \in LastWins)
    OBVIOUS
  <2>1. CASE UNCHANGED vars
    BY <2>1 DEF vars, Accepted
  <2>2. CASE Next
    <3>1. PICK w \in Writers : Start(w) \/ Step(w) \/ Stop(w) \/ RunRaises(w)
      BY <2>2 DEF Next
    <3>2. TypeOK /\ TypeOK' /\ store' = store
      BY <3>1, StoreStays DEF PublicationSound
    <3> QED BY <3>1, <3>2, AcceptedMovedStays, AcceptedMadeStays, AcceptedEnteredStays
            DEF PublicationSound
  <2> QED BY <2>1, <2>2
<1> QED BY <1>1, PublicationInvariance, PTL DEF Spec, AcceptedStays
=============================================================================
