-------------------------- MODULE WriteOnceStores --------------------------
(***************************************************************************)
(* The publication protocols of the repository's stores, as data: for each  *)
(* store the order in which its publish method looks at the disk, locks,    *)
(* stages, writes, reviews and moves, and the parts its reader verifies.     *)
(* Nothing else of the two methods is here: what a manifest, a frame or a    *)
(* review contains is "whole", and a refusal of the input ends the attempt   *)
(* wherever the protocol stands (see Stop in WriteOnce).                     *)
(***************************************************************************)
EXTENDS Naturals, Sequences

Do(verb) == [verb |-> verb, part |-> "subject", skip |-> 1]
To(verb, part) == [verb |-> verb, part |-> part, skip |-> 1]

Absent == Do("absent")           \* refuse when the subject's path is there
Agree == Do("agree")             \* return the subject that is there, verified
Lock == Do("lock")               \* flock, held until the attempt ends
Stage == Do("stage")             \* build a directory under a private name
Move == Do("move")               \* rename it: never onto a full directory
Link == Do("link")               \* hard link a private file; agree with one there
Make == Do("make")               \* mkdir of the subject itself, exclusive
Enter == Do("enter")             \* mkdir of the subject itself, if need be
Empty == Do("empty")             \* refuse a directory that holds a file
Overwrite == Do("overwrite")     \* os.replace of one file, over any other
Need == To("need", "review")     \* read the subject's review first
New(part) == To("new", part)     \* refuse when the part is there
Place(part) == To("place", part) \* write under a private name and rename
Put(part) == To("put", part)     \* rename the shared temporary file
\* Written in place: a crash in between leaves the part torn.
Write(part) == <<To("open", part), To("fill", part)>>
\* Keep what is there, without reading it, and skip the n steps that write it.
Keep(n) == [verb |-> "keep", part |-> "review", skip |-> n + 1]
\* The same after reading it: a review that cannot be read is refused.
Same(n) == [verb |-> "same", part |-> "review", skip |-> n + 1]

Pair == {"manifest", "data"}
Reviewed == Pair \cup {"review"}
----------------------------------------------------------------------------
(* Canonical data, factors and their reports *)
\* Mutant: the canonical partition is written where it is read.
CanonicalInPlace == <<Absent, Lock, Absent, Make>> \o Write("data") \o Write("manifest")
CanonicalStorePublish == <<Absent, Lock, Absent, Stage, Move>>
ManifestFirstRead == Pair
CanonicalV2Publish == <<Absent, Stage, Need, Move>>
ReadCanonicalV2 == Reviewed
FactorStorePublish == <<Stage, Lock, Absent, Need, Move>>
ReadFactorPartition == Reviewed
UniverseSave == <<Absent, Stage, Move>>
UniverseRead == Pair
QualityReportSave == <<Absent, Stage, Move>>
QualityReportRead == {"manifest"}
AdjustmentSave == <<Stage, Absent, Move>>
AdjustmentRead == Pair
MembershipPublish == <<Absent, Stage, Move>>
MembershipRead == Pair
DividendPublish == <<Absent, Stage, Move>>
DividendRead == Pair
DependencyPublish == <<Lock, Agree, Stage, Move>>
DependencyRead == Pair
\* CanonicalMigrationLedger.append looks for a duplicate before it locks, and
\* appends what it found absent without looking again.
MigrationAppend == <<Absent, Lock, Overwrite>>
----------------------------------------------------------------------------
(* The owning contracts of the research chain *)
FeatureSchemaPublish == <<Absent, Stage, Move>>
FeatureSchemaRead == {"manifest"}
ExposurePublish == <<Lock, Absent, Stage, Same(2)>> \o Write("review") \o <<Move>>
ExposureRead == Reviewed
MarketDatasetPublish == <<Agree, Stage, Move>>
MarketDatasetRead == Pair
PreprocessingPublish == <<Absent, Stage, Same(2)>> \o Write("review") \o <<Move>>
PreprocessingRead == {"manifest", "review"}
SamplePublish == <<Absent, Stage>> \o Write("review") \o <<Move>>
SampleRead == Reviewed
BacktestConfigPublish == <<Absent, Stage>> \o Write("review") \o <<Move>>
BacktestConfigRead == {"manifest"}
----------------------------------------------------------------------------
(* Labels, datasets, models and predictions *)
LabelPublish == <<Absent, Stage, Move>>
LabelRead == Pair
DatasetWrite == <<Absent, Lock, Stage, Move, Same(1), Place("review")>>
DatasetRead == Reviewed
\* build writes the review, publish the prediction.
PredictionBuild == <<Place("review")>>
PredictionPublish == PredictionBuild \o <<Need, Absent, Stage, Lock, Move>>
PredictionRead == Reviewed
ArtifactPublish == <<Absent, Lock, Stage, New("review"), Place("review"), Move>>
ArtifactRead == Reviewed
ModelRunBuild == <<Place("review"), Agree, Overwrite>>
QlibExport == <<Stage, Lock, Place("review"), Absent, Move>>
QlibExportRead == Reviewed
QlibReceipt == <<Overwrite>>
CandidatePublish == <<Lock, Agree, Stage, Move>>
CandidateRead == Pair
ListingPublish == <<Link>>
ListingRead == {"manifest"}
----------------------------------------------------------------------------
(* Portfolio, backtest and evaluation *)
WeightsPublish == <<Absent, Stage, Keep(3)>> \o Write("tmp") \o <<Put("review"), Move>>
WeightsRead == Reviewed
ResultPublish == <<Absent, Stage, Keep(2)>> \o Write("review") \o <<Move>>
ResultRead == Reviewed
FactsPublish == <<Lock, Stage, Agree, Move>>
FactsRead == Pair
RiskReturnsPublish == <<Lock, Stage, Agree, Move>>
RiskReturnsRead == Pair
EvaluationPublish == <<Lock, Stage, Agree, Move>>
EvaluationRead == Pair
BenchmarkPublish == <<Lock, Agree, Stage, Move>>
BenchmarkRead == Pair
ArchivePublish == <<Lock, Agree, Stage, Move>>
ArchiveRead == {"manifest"}
StressPublish == <<Lock, Agree, Stage, Move>>
StressRead == {"manifest"}
PlanPublish == <<Link>>
PlanRead == {"manifest"}
ReplayPublish == <<Link>>
ReplayRead == {"manifest"}
----------------------------------------------------------------------------
(* The four families of paper execution: the review first, by way of the one *)
(* temporary file of its checksum (_publish_review, _atomic_write_json).     *)
ReviewFirst == <<Absent, Same(3)>> \o Write("tmp") \o <<Put("review")>>
\* _publish_json looks for the partition a second time.
ExecutionConfigPublish == ReviewFirst \o <<Absent, Stage, Move>>
ExecutionConfigRead == {"manifest", "review"}
OrderPlanPublish == ReviewFirst \o <<Stage, Move>>
OrderPlanRead == Reviewed
ExecutionResultPublish == ReviewFirst \o <<Stage, Move>>
ExecutionResultRead == Reviewed
PaperStatePublish == ReviewFirst \o <<Stage, Move>>
PaperStateRead == Reviewed
----------------------------------------------------------------------------
(* Market panels and the risk control plane: written where they are read *)
CalendarPublish == <<Absent, Make>> \o Write("data") \o Write("manifest")
SuspensionPublish == <<Absent, Make>> \o Write("data") \o Write("manifest")
BarsPublish == <<Absent, Make>> \o Write("data") \o Write("manifest")
ActionsPublish == <<Absent, Make>> \o Write("data") \o Write("manifest")
PartitionRead == Pair
RiskManifestPublish == <<Empty, Enter>> \o Write("tmp") \o <<Put("manifest")>>
RiskManifestRead == {"manifest"}
RiskStatePublish ==
    <<New("manifest"), New("data"), Make, Place("manifest"), Place("data")>>
RiskStateRead == Pair
RiskDecisionPublish ==
    <<New("manifest"), New("data"), Make, Place("manifest"), Place("data")>>
RiskDecisionRead == Pair
\* Mutant: mkdir with exist_ok=True.
RiskRunEnters == <<Enter, Place("data"), Place("manifest")>>
RiskRunPublish == <<Make, Place("data"), Place("manifest")>>
RiskRunRead == Pair
============================================================================
