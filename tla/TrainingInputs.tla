---------------------------- MODULE TrainingInputs ----------------------------
(***************************************************************************)
(* From published bars, factors and memberships to a dataset a model is     *)
(* trained on: the scripts that publish label sets, training samples and    *)
(* preprocessing (scripts/build_label_sets.py, publish_sample_construction, *)
(* publish_feature_preprocessing), the request that binds them by content,  *)
(* the resolver, and the dataset and export stages (adapters.py). Between   *)
(* any two of these steps a membership snapshot may arrive or a name be     *)
(* delisted. An artifact is its content: equal records are one generation.  *)
(***************************************************************************)
EXTENDS InputSets

CONSTANTS Worlds,       \* [bars, live, factors, universe, exposures, calendar] to start from
          Arriving,     \* snapshot date -> [visible, members]: what the index publishes
          FirstSnapshot, \* the snapshot that is there from the start
          Leaver,       \* the name that may be delisted,
          LeaveDay,     \* and when
          SplitPolicies, \* [train, validation, purge, embargo] of reviewed templates
          MaxLabelSets, MaxSamples, MaxPreps   \* bounds on the stores of the scripts

VARIABLES world,        \* bars, listing dates, factors, universe, exposures, calendar
          gone,         \* the delisted names of the security master
          snapshots,    \* the index membership store
          labelSets, samples, preps, datasets,   \* the stores, by content
          request,      \* the request of the run, or Null
          stage,        \* how far its run is
          pending       \* the dataset the stage has written or read back

\* A snapshot date and the day it became visible are days; bars and factors are
\* keyed by name and session; the boundaries of a split are sessions; a cross-section
\* is a set of names, which is no missing value.
ASSUME TrainingAssumption ==
  /\ FirstSnapshot \in DOMAIN Arriving
  /\ DOMAIN Arriving \subseteq Nat /\ IsFiniteSet(DOMAIN Arriving)
  /\ \A s \in DOMAIN Arriving : Arriving[s].visible \in Nat
  /\ \A w \in Worlds : DOMAIN w.bars \subseteq Cells /\ DOMAIN w.factors \subseteq Cells
  /\ \A p \in SplitPolicies :
       /\ {p.train.first, p.train.last, p.validation.first, p.validation.last} \subseteq Nat
       /\ p.purge \in Nat /\ p.embargo \in Nat
  /\ \A S \in SUBSET Names : S # Null

trainingVars == <<world, gone, snapshots, labelSets, samples, preps, datasets, request, stage, pending>>
stores == <<labelSets, samples, preps>>
outside == <<world, gone, snapshots>>

Stages == {"none", "requested", "resolved", "written", "passed", "exported", "refused", "export refused"}

TrainingInit ==
  /\ world \in Worlds
  /\ gone = [n \in {} |-> 0]
  /\ snapshots = [s \in {FirstSnapshot} |-> Arriving[s]]
  /\ labelSets = {} /\ samples = {} /\ preps = {} /\ datasets = {}
  /\ request = Null /\ stage = "none" /\ pending = Null

----------------------------------------------------------------------------
(* What happens outside. *)

\* A snapshot is immutable: one for each date.
PublishSnapshot(s) ==
  /\ s \notin DOMAIN snapshots
  /\ snapshots' = [x \in DOMAIN snapshots \cup {s} |-> Arriving[x]]
  /\ UNCHANGED <<world, gone, stores, datasets, request, stage, pending>>

\* The master lists the name under D from then on.
Delist ==
  /\ Leaver \notin DOMAIN gone
  /\ gone' = [n \in {Leaver} |-> [listed |-> world.live[n], day |-> LeaveDay]]
  /\ UNCHANGED <<world, snapshots, stores, datasets, request, stage, pending>>

LiveNow == [n \in DOMAIN world.live \ DOMAIN gone |-> world.live[n]]

----------------------------------------------------------------------------
(* The scripts, which publish under a passing review. *)

\* A label set that is there is refused, unlike the artifacts below.
PutLabelSet(set) == set \notin labelSets /\ labelSets' = labelSets \cup {set}

BuildLabelSets(wanted) ==
  /\ Cardinality(labelSets) < MaxLabelSets
  /\ LabelRefusal(world.bars, world.calendar, LiveNow, gone, wanted) = "none"
  /\ PutLabelSet(LabelSet(world.bars, world.calendar, LiveNow, gone, wanted))
  /\ UNCHANGED <<outside, samples, preps, datasets, request, stage, pending>>

\* The sample binds the sets it was selected from, as they are now.
SampleOf(labels, policy) ==
  LET set == MembershipSet(snapshots)
      frame == FilteredFrame(world.factors, set)
      rows == Selected(frame, labels.frame, policy)
  IN  [membership |-> set, labels |-> labels, policy |-> policy, days |-> Window,
       frame |-> Restricted(frame, rows), label |-> Restricted(labels.frame, rows)]

\* Published, or read back where it is there already.
PutSample(sample) == samples' = samples \cup {sample}

PublishSample(labels, policy) ==
  /\ Cardinality(samples) < MaxSamples
  /\ MembershipExists(snapshots)
  /\ LET frame == FilteredFrame(world.factors, MembershipSet(snapshots))
     IN  DaysOf(frame) = Window /\ SelectionRefusal(frame, labels.frame, policy) = "none"
  /\ PutSample(SampleOf(labels, policy))
  /\ UNCHANGED <<outside, labelSets, preps, datasets, request, stage, pending>>

\* The artifact attests the frame it was fitted on and the one that came out.
PreprocessingOf(frame, days, neutral) ==
  [input |-> frame, output |-> Transformed(frame), days |-> days, neutral |-> neutral]

PutPreprocessing(prep) == preps' = preps \cup {prep}

PublishPreprocessing(frame, days, neutral) ==
  /\ TransformRefusal(frame, world.exposures, neutral) = "none"
  /\ PutPreprocessing(PreprocessingOf(frame, days, neutral))
  /\ UNCHANGED <<outside, labelSets, samples, datasets, request, stage, pending>>

\* From the factor partitions themselves: every row of them, members or not. Nulls
\* are dropped where the flag says so, and refused where it does not.
PreprocessPartitions(days, drop, neutral) ==
  LET frame == Restricted(world.factors, {c \in DOMAIN world.factors : c[2] \in days})
      kept == IF drop THEN Restricted(frame, Complete(frame)) ELSE frame
  IN  /\ Cardinality(preps) < MaxPreps
      /\ Complete(kept) = DOMAIN kept
      /\ PublishPreprocessing(kept, days, neutral)

\* From the frame of a sample, exactly as it was selected.
PreprocessSample(sample, neutral) ==
  /\ Cardinality(preps) < MaxPreps
  /\ PublishPreprocessing(sample.frame, sample.days, neutral)

----------------------------------------------------------------------------
(* The request, the resolver and the dataset stage. *)

\* A request names published generations and the membership set by its digest; a
\* request of version 5 names no sample.
MakeRequest(version, labels, prep, sample, policy, split) ==
  /\ stage = "none"
  /\ version = 5 <=> sample = Null
  /\ MembershipExists(snapshots)
  /\ request' = [version |-> version, labels |-> labels, prep |-> prep, sample |-> sample,
                 policy |-> policy, split |-> split, membership |-> MembershipSet(snapshots)]
  /\ stage' = "requested"
  /\ UNCHANGED <<outside, stores, datasets, pending>>

\* The sets are built again from their stores and compared with the request's.
VerifyInputSets == MembershipExists(snapshots) /\ MembershipSet(snapshots) = request.membership

Resolve ==
  /\ stage = "requested"
  /\ stage' = IF VerifyInputSets THEN "resolved" ELSE "refused"
  /\ UNCHANGED <<outside, stores, datasets, request, pending>>

\* Mutant: the sample is matched by the names of its inputs, not their generations.
SampleMatchesLoose == TRUE

\* The sample's sources are those of the request.
SampleMatches ==
  /\ request.sample.days = Window
  /\ request.sample.labels = request.labels
  /\ request.sample.membership = request.membership

\* The factor rows the stage may consume: a sample's, or the members' rows that
\* the universe snapshot names too, without those its policy drops.
InUniverse(frame) == Restricted(frame, {c \in DOMAIN frame : c[1] \in world.universe})

\* _read_factor_frame: the rows of the days' members, never the partitions as such.
MemberRows == FilteredFrame(world.factors, MembershipSet(snapshots))

\* drop_unlabelled_factor_rows: the rule of the samples, on the input of the transform.
LabelledRows(frame) ==
  Restricted(frame, Selected(frame, request.labels.frame, "drop_unlabeled_rows"))

\* Mutant: the universe cuts the rows of a sample too.
StageRowsAllCut ==
  LET members == InUniverse(MemberRows)
  IN  CASE request.version = 6 -> InUniverse(request.sample.frame)
        [] request.version = 5 /\ request.policy = "fail_closed" -> members
        [] OTHER -> Restricted(members, Complete(members))

StageRows ==
  LET members == InUniverse(MemberRows)
      complete == Restricted(members, Complete(members))
  IN  CASE request.version = 6 -> request.sample.frame
        [] request.version = 5 /\ request.policy = "fail_closed" -> members
        [] request.version = 5 /\ request.policy = "drop_incomplete_rows" -> complete
        [] OTHER -> LabelledRows(members)

\* The label of each row: the sample's own, or the label set's where it has one.
LabelOf(c) ==
  LET labels == IF request.version = 6 THEN request.sample.label ELSE request.labels.frame
  IN  IF c \in DOMAIN labels THEN labels[c] ELSE Null

\* The stage holds what goes into the transform, and what comes out, to the artifact.
Preprocessed(rows) == rows = request.prep.input /\ Transformed(rows) = request.prep.output

\* The artifact was fitted on the partitions of the window, and on these rows.
Prepared(rows) == request.prep.days = Window /\ Preprocessed(rows)

\* The writer does so again for the artifact a dataset names; of the dataset's own
\* frame it compares the number of rows.
Attested(dataset, rows) ==
  /\ rows = dataset.prep.input /\ Transformed(rows) = dataset.prep.output
  /\ Cardinality(DOMAIN dataset.frame) = Cardinality(DOMAIN dataset.prep.output)

\* Every row has its controls, where the preprocessing neutralises.
Exposed(rows) == request.prep.neutral => DOMAIN rows \subseteq world.exposures

\* fail_closed refuses any null and drop_incomplete_rows a null label; a request
\* that binds a sample does not look.
NullsAllowed(dataset) ==
  \/ request.version = 6
  \/ request.policy = "drop_unlabeled_rows"
  \/ /\ \A c \in DOMAIN dataset.label : dataset.label[c] # Null
     /\ request.policy = "fail_closed" => \A c \in DOMAIN dataset.frame : dataset.frame[c] # Null

\* Mutant: rows are dropped after the transform, which saw all members.
DatasetOfLate(rows) ==
  LET members == InUniverse(MemberRows)
      every == [c \in DOMAIN members \cup DOMAIN rows |-> IF c \in DOMAIN rows THEN rows[c] ELSE members[c]]
  IN  [frame |-> Restricted(Transformed(every), DOMAIN rows), label |-> [c \in DOMAIN rows |-> LabelOf(c)],
       prep |-> request.prep, labels |-> request.labels, split |-> request.split, policy |-> request.policy]

\* The dataset the stage builds of its rows.
DatasetOf(rows) ==
  [frame |-> Transformed(rows), label |-> [c \in DOMAIN rows |-> LabelOf(c)],
   prep |-> request.prep, labels |-> request.labels, split |-> request.split, policy |-> request.policy]

\* Whether the stage gets as far as publishing.
StageAccepts ==
  /\ VerifyInputSets
  /\ request.version = 6 => SampleMatches
  /\ DOMAIN StageRows # {}
  /\ Exposed(StageRows)
  /\ Prepared(StageRows)
  /\ \E c \in DOMAIN StageRows : LabelOf(c) # Null
  /\ NullsAllowed(DatasetOf(StageRows))
  /\ Attested(DatasetOf(StageRows), StageRows)
  /\ SplitsValid(DaysOf(StageRows), request.split)

\* Published, or recovered where an attempt before has published it.
PutDataset(dataset) == pending' = dataset /\ datasets' = datasets \cup {dataset}

WriteDataset ==
  /\ stage = "resolved"
  /\ IF StageAccepts
     THEN PutDataset(DatasetOf(StageRows)) /\ stage' = "written"
     ELSE stage' = "refused" /\ UNCHANGED <<pending, datasets>>
  /\ UNCHANGED <<outside, stores, request>>

ReadsBack(dataset) == dataset \in datasets

RecordStage ==
  /\ stage = "written" /\ ReadsBack(pending)
  /\ stage' = "passed"
  /\ UNCHANGED <<outside, stores, datasets, request, pending>>

\* The process ends before the state is on disk: the next execute resolves again.
Stop ==
  /\ stage \in {"resolved", "written"}
  /\ stage' = "requested" /\ pending' = Null
  /\ UNCHANGED <<outside, stores, datasets, request>>

\* The export refuses a missing value.
Export ==
  /\ stage = "passed"
  /\ stage' = IF \A c \in DOMAIN pending.frame : pending.frame[c] # Null /\ pending.label[c] # Null
              THEN "exported" ELSE "export refused"
  /\ UNCHANGED <<outside, stores, datasets, request, pending>>

TrainingNext ==
  \/ \E s \in DOMAIN Arriving : PublishSnapshot(s)
  \/ Delist
  \/ \E wanted \in {Names, Names \ {Leaver}} : BuildLabelSets(wanted)
  \/ \E labels \in labelSets, policy \in Policies : PublishSample(labels, policy)
  \/ \E days \in {Window, Window \ {Max(Window)}}, drop, neutral \in BOOLEAN :
       PreprocessPartitions(days, drop, neutral)
  \/ \E sample \in samples, neutral \in BOOLEAN : PreprocessSample(sample, neutral)
  \/ \E labels \in labelSets, prep \in preps, sample \in samples \cup {Null},
        policy \in Policies, split \in SplitPolicies, version \in {5, 6} :
       MakeRequest(version, labels, prep, sample, policy, split)
  \/ Resolve \/ WriteDataset \/ RecordStage \/ Stop \/ Export

TrainingSpec == TrainingInit /\ [][TrainingNext]_trainingVars
----------------------------------------------------------------------------
TrainingTypeOK ==
  /\ stage \in Stages
  /\ world \in Worlds
  /\ DOMAIN snapshots \subseteq DOMAIN Arriving
  /\ pending = Null \/ pending \in datasets

\* Every row of a published dataset was in the index on its day by what was visible
\* then, has its features, and the label the request's own label set gives it
\* (filtered_factor_frame, _merge_labels, the policies of select_training_sample); so
\* the export, which refuses a missing value, takes what the dataset stage passed.
TrainableRows ==
  /\ stage # "export refused"
  /\ \A d \in datasets : \A c \in DOMAIN d.frame :
       /\ c[1] \in Arriving[AsOf(request.membership, c[2])].members
       /\ d.frame[c] # Null
       /\ Labelled(request.labels.frame, c) /\ d.label[c] = request.labels.frame[c]

\* A row was standardised over the rows of its day that are trained on, and no other
\* (the reason the code drops rows before the transform, adapters.py:706-715).
CrossSectionIsTrained ==
  \A d \in datasets : \A c \in DOMAIN d.frame :
    d.frame[c] = {x[1] : x \in {y \in DOMAIN d.frame : y[2] = c[2]}}

\* With a purge of the label's horizon, no outcome a training row reads lies in the
\* outcomes of the validation split (model-layer-spec.md:187-188).
Leaks(d) ==
  \E c, e \in DOMAIN d.frame :
    /\ c[2] \in d.split.train.first..d.split.train.last
    /\ e[2] \in d.split.validation.first..d.split.validation.last
    /\ d.label[c] # Null /\ d.label[c] >= e[2] + 1

NoOutcomeLeaks == \A d \in datasets : d.split.purge >= Horizon => ~Leaks(d)

\* A request whose sample and preprocessing the scripts published from the same
\* inputs passes, unless the index changed since or the split does not fit.
FromOneSample ==
  /\ request # Null
  /\ request.version = 6
  /\ request.sample.labels = request.labels
  /\ request.prep.input = request.sample.frame
  /\ request.prep.days = Window
  /\ request.sample.membership = MembershipSet(snapshots)
  /\ request.membership = MembershipSet(snapshots)
  /\ SplitsValid(DaysOf(request.sample.frame), request.split)

PreparedRequestRuns == FromOneSample => stage # "refused"

\* The filter, which goes by the day an entry became visible, reads on every day
\* the members of the snapshot the store selects, which goes by its date.
FilterReadsAsOf ==
  MembershipExists(snapshots) =>
    \A d \in Window : MembersOn(MembershipSet(snapshots), d) = snapshots[AsOf(snapshots, d)].members
=============================================================================
