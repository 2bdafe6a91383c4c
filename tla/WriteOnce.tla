----------------------------- MODULE WriteOnce -----------------------------
(***************************************************************************)
(* Two or more processes publish the same subject of one store: the same    *)
(* generation of a content-addressed store, or the same date of a store     *)
(* whose path does not name the content (Dated). Every store of             *)
(* WriteOnceStores runs on this machine. A process may stop between any two *)
(* steps, by an exception or by dying; what it left on disk stays, its      *)
(* flock goes with it, and it may be started again.                         *)
(***************************************************************************)
EXTENDS WriteOnceStores, FiniteSets

CONSTANTS Writers,      \* processes that publish the subject
          Stores,       \* the stores to look at
          Nobody,       \* not a writer
          MaxStops      \* bound on exceptions and crashes

ASSUME WriteOnceAssumption ==
    /\ Nobody \notin Writers
    /\ MaxStops \in Nat

Publish == [
    canonical |-> CanonicalStorePublish, canonical_v2 |-> CanonicalV2Publish,
    factors |-> FactorStorePublish, universe |-> UniverseSave,
    report |-> QualityReportSave, adjustment |-> AdjustmentSave,
    membership |-> MembershipPublish, dividend |-> DividendPublish,
    dependency |-> DependencyPublish, migration |-> MigrationAppend,
    schema |-> FeatureSchemaPublish, exposure |-> ExposurePublish,
    market |-> MarketDatasetPublish, preprocessing |-> PreprocessingPublish,
    sample |-> SamplePublish, config |-> BacktestConfigPublish,
    label |-> LabelPublish, dataset |-> DatasetWrite,
    prediction |-> PredictionPublish, artifact |-> ArtifactPublish,
    model_run |-> ModelRunBuild, export |-> QlibExport, receipt |-> QlibReceipt,
    candidate |-> CandidatePublish, listing |-> ListingPublish,
    weights |-> WeightsPublish, result |-> ResultPublish, facts |-> FactsPublish,
    risk_returns |-> RiskReturnsPublish, evaluation |-> EvaluationPublish,
    benchmark |-> BenchmarkPublish, archive |-> ArchivePublish,
    stress |-> StressPublish, plan |-> PlanPublish, replay |-> ReplayPublish,
    execution_config |-> ExecutionConfigPublish, order_plan |-> OrderPlanPublish,
    execution_result |-> ExecutionResultPublish, paper_state |-> PaperStatePublish,
    calendar |-> CalendarPublish, suspension |-> SuspensionPublish,
    bars |-> BarsPublish, actions |-> ActionsPublish,
    risk_manifest |-> RiskManifestPublish, risk_state |-> RiskStatePublish,
    risk_decision |-> RiskDecisionPublish, risk_run |-> RiskRunPublish]

Needs == [
    canonical |-> ManifestFirstRead, canonical_v2 |-> ReadCanonicalV2,
    factors |-> ReadFactorPartition, universe |-> UniverseRead,
    report |-> QualityReportRead, adjustment |-> AdjustmentRead,
    membership |-> MembershipRead, dividend |-> DividendRead,
    dependency |-> DependencyRead, migration |-> {"manifest"},
    schema |-> FeatureSchemaRead, exposure |-> ExposureRead,
    market |-> MarketDatasetRead, preprocessing |-> PreprocessingRead,
    sample |-> SampleRead, config |-> BacktestConfigRead,
    label |-> LabelRead, dataset |-> DatasetRead,
    prediction |-> PredictionRead, artifact |-> ArtifactRead,
    model_run |-> {"manifest"}, export |-> QlibExportRead, receipt |-> {"manifest"},
    candidate |-> CandidateRead, listing |-> ListingRead,
    weights |-> WeightsRead, result |-> ResultRead, facts |-> FactsRead,
    risk_returns |-> RiskReturnsRead, evaluation |-> EvaluationRead,
    benchmark |-> BenchmarkRead, archive |-> ArchiveRead,
    stress |-> StressRead, plan |-> PlanRead, replay |-> ReplayRead,
    execution_config |-> ExecutionConfigRead, order_plan |-> OrderPlanRead,
    execution_result |-> ExecutionResultRead, paper_state |-> PaperStateRead,
    calendar |-> PartitionRead, suspension |-> PartitionRead,
    bars |-> PartitionRead, actions |-> PartitionRead,
    risk_manifest |-> RiskManifestRead, risk_state |-> RiskStateRead,
    risk_decision |-> RiskDecisionRead, risk_run |-> RiskRunRead]

\* Nothing is assumed of which stores are looked at, but that they are stores.
ASSUME StoresAssumption == Stores \subseteq DOMAIN Publish

\* The path does not name the content, so two writers may bring different ones.
Dated == {"canonical", "canonical_v2", "factors", "membership", "dividend", "report",
          "archive", "calendar", "suspension", "bars", "actions"}
\* os.replace of a file, or an append: a later writer's document stands.
LastWins == {"model_run", "receipt", "migration"}
\* Written where it is read: an attempt that ends early leaves its directory.
InPlace == {"calendar", "suspension", "bars", "actions",
            "risk_manifest", "risk_state", "risk_decision", "risk_run"}
\* The review is written under the name readers use, or under a temporary name
\* that all attempts share.
OpenReview == {"exposure", "preprocessing", "sample", "result", "weights",
               "execution_config", "order_plan", "execution_result", "paper_state"}

VARIABLES store, dir, owner, file,
          held,        \* the file a writer has open for writing
          lock, pc, outcome, stops

vars == <<store, dir, owner, file, held, lock, pc, outcome, stops>>
disk == <<dir, owner, file>>

Parts == {"manifest", "data", "review", "tmp"}
Outcomes == {"idle", "trying", "passed", "refused", "stopped"}

TypeOK ==
    /\ store \in Stores
    /\ dir \in BOOLEAN
    /\ owner \in Writers \cup {Nobody}
    /\ file \in [Parts -> {"no", "torn", "whole"}]
    /\ held \in [Writers -> Parts \cup {"none"}]
    /\ lock \in Writers \cup {Nobody}
    /\ pc \in [Writers -> 1..(Len(Publish[store]) + 1)]
    /\ outcome \in [Writers -> Outcomes]
    /\ stops \in 0..MaxStops

Program == Publish[store]
Accepted == dir /\ \A part \in Needs[store] : file[part] = "whole"
\* The stores that need a report were given it, or not, before they are asked.
NeedsReport == store \in {"canonical_v2", "factors"}

Init ==
    /\ store \in Stores
    /\ dir = FALSE /\ owner = Nobody /\ lock = Nobody
    /\ \E given \in {"no", "whole"} :
          /\ given = "whole" => NeedsReport
          /\ file = [part \in Parts |-> IF part = "review" THEN given ELSE "no"]
    /\ held = [w \in Writers |-> "none"]
    /\ pc = [w \in Writers |-> 1]
    /\ outcome = [w \in Writers |-> "idle"]
    /\ stops = 0
----------------------------------------------------------------------------
At(w, verb) ==
    /\ outcome[w] = "trying"
    /\ pc[w] <= Len(Program)
    /\ Program[pc[w]].verb = verb
Part(w) == Program[pc[w]].part

Moves(w, n) == pc' = [pc EXCEPT ![w] = @ + n] /\ UNCHANGED <<store, outcome, stops>>
Go(w, n) == Moves(w, n) /\ UNCHANGED held
Ends(w, how) ==
    /\ outcome' = [outcome EXCEPT ![w] = how]
    /\ pc' = [pc EXCEPT ![w] = 1]
    /\ held' = [held EXCEPT ![w] = "none"]
    /\ lock' = IF lock = w THEN Nobody ELSE lock
    /\ UNCHANGED store
EndsAs(w, how) == Ends(w, how) /\ UNCHANGED <<disk, stops>>
Sets(part, shape) == file' = [file EXCEPT ![part] = shape]

\* A directory arrives with everything its reader needs but the review, which
\* lives elsewhere.
Arrives(w) ==
    /\ dir' = TRUE /\ owner' = w
    /\ file' = [part \in Parts |->
                  IF part \in Needs[store] \ {"review"} THEN "whole" ELSE file[part]]
    /\ Go(w, 1) /\ UNCHANGED lock

Start(w) ==
    /\ outcome[w] # "trying"
    /\ outcome' = [outcome EXCEPT ![w] = "trying"]
    /\ UNCHANGED <<store, disk, held, lock, pc, stops>>

LookAbsent(w) ==
    /\ At(w, "absent")
    /\ IF dir THEN EndsAs(w, "refused") ELSE Go(w, 1) /\ UNCHANGED <<disk, lock>>

\* An existing subject is read back and compared: the attempt ends there.
Agreed(w) ==
    EndsAs(w, IF Accepted /\ (owner = w \/ store \notin Dated \cup {"model_run"})
              THEN "passed" ELSE "refused")

LookAgree(w) ==
    /\ At(w, "agree")
    /\ IF dir THEN Agreed(w) ELSE Go(w, 1) /\ UNCHANGED <<disk, lock>>

TakeLock(w) ==
    /\ At(w, "lock") /\ lock = Nobody
    /\ lock' = w /\ Go(w, 1) /\ UNCHANGED disk

StagePrivately(w) == At(w, "stage") /\ Go(w, 1) /\ UNCHANGED <<disk, lock>>

\* Mutant: a directory that is there counts as published.
MoveOrTakeIt(w) ==
    /\ At(w, "move")
    /\ IF dir THEN EndsAs(w, "passed") ELSE Arrives(w)

MoveInto(w) ==
    /\ At(w, "move")
    /\ IF dir THEN EndsAs(w, "refused") ELSE Arrives(w)

LinkInto(w) ==
    /\ At(w, "link")
    /\ IF dir THEN Agreed(w) ELSE Arrives(w)

OverwriteFile(w) == At(w, "overwrite") /\ Arrives(w)

MakeDirectory(w) ==
    /\ At(w, "make")
    /\ IF dir THEN EndsAs(w, "refused")
       ELSE /\ dir' = TRUE /\ owner' = w
            /\ Go(w, 1) /\ UNCHANGED <<file, lock>>

EnterDirectory(w) ==
    /\ At(w, "enter")
    /\ dir' = TRUE /\ owner' = IF owner = Nobody THEN w ELSE owner
    /\ Go(w, 1) /\ UNCHANGED <<file, lock>>

LookEmpty(w) ==
    /\ At(w, "empty")
    /\ IF \E part \in {"manifest", "tmp"} : file[part] # "no"
       THEN EndsAs(w, "refused") ELSE Go(w, 1) /\ UNCHANGED <<disk, lock>>

NeedReview(w) ==
    /\ At(w, "need")
    /\ IF file["review"] # "whole" THEN EndsAs(w, "refused")
       ELSE Go(w, 1) /\ UNCHANGED <<disk, lock>>

LookNew(w) ==
    /\ At(w, "new")
    /\ IF file[Part(w)] # "no" THEN EndsAs(w, "refused")
       ELSE Go(w, 1) /\ UNCHANGED <<disk, lock>>

KeepReview(w) ==
    /\ At(w, "keep")
    /\ Go(w, IF file["review"] = "no" THEN 1 ELSE Program[pc[w]].skip)
    /\ UNCHANGED <<disk, lock>>

SameReview(w) ==
    /\ At(w, "same")
    /\ IF file["review"] = "torn" THEN EndsAs(w, "refused")
       ELSE /\ Go(w, IF file["review"] = "no" THEN 1 ELSE Program[pc[w]].skip)
            /\ UNCHANGED <<disk, lock>>

OpenPart(w) ==
    /\ At(w, "open") /\ Sets(Part(w), "torn")
    /\ held' = [held EXCEPT ![w] = Part(w)]
    /\ Moves(w, 1) /\ UNCHANGED <<dir, owner, lock>>

\* The bytes reach the file that was opened, under whatever name it has now.
FillPart(w) ==
    /\ At(w, "fill") /\ Sets(held[w], "whole")
    /\ held' = [held EXCEPT ![w] = "none"]
    /\ Moves(w, 1) /\ UNCHANGED <<dir, owner, lock>>

PlacePart(w) ==
    /\ At(w, "place") /\ Sets(Part(w), "whole")
    /\ Go(w, 1) /\ UNCHANGED <<dir, owner, lock>>

\* The rename takes the shared temporary file as it is, with its open handles.
PutPart(w) ==
    /\ At(w, "put")
    /\ IF file["tmp"] = "no" THEN EndsAs(w, "stopped")
       ELSE /\ file' = [file EXCEPT ![Part(w)] = file["tmp"], !["tmp"] = "no"]
            /\ held' = [x \in Writers |-> IF held[x] = "tmp" THEN Part(w) ELSE held[x]]
            /\ Moves(w, 1) /\ UNCHANGED <<dir, owner, lock>>

Pass(w) == outcome[w] = "trying" /\ pc[w] > Len(Program) /\ EndsAs(w, "passed")

\* The process dies, or the code raises: private files are swept or are litter.
Stop(w) ==
    /\ outcome[w] = "trying" /\ stops < MaxStops
    /\ stops' = stops + 1
    /\ Ends(w, "stopped") /\ UNCHANGED disk

\* RiskRunStore.publish removes its own partition when it raises after mkdir.
RunRaises(w) ==
    /\ store = "risk_run" /\ outcome[w] = "trying" /\ stops < MaxStops
    /\ pc[w] \in 2..Len(Program)
    /\ stops' = stops + 1
    /\ dir' = FALSE /\ owner' = Nobody
    /\ file' = [file EXCEPT !["data"] = "no", !["manifest"] = "no"]
    /\ Ends(w, "stopped")

Step(w) ==
    \/ LookAbsent(w) \/ LookAgree(w) \/ TakeLock(w) \/ StagePrivately(w)
    \/ MoveInto(w) \/ LinkInto(w) \/ OverwriteFile(w)
    \/ MakeDirectory(w) \/ EnterDirectory(w) \/ LookEmpty(w)
    \/ NeedReview(w) \/ LookNew(w) \/ KeepReview(w) \/ SameReview(w)
    \/ OpenPart(w) \/ FillPart(w) \/ PlacePart(w) \/ PutPart(w) \/ Pass(w)

Next == \E w \in Writers : Start(w) \/ Step(w) \/ Stop(w) \/ RunRaises(w)

\* A process that runs goes on, and somebody tries again after it ended.
Fairness == \A w \in Writers : WF_vars(Step(w)) /\ WF_vars(Start(w))
Spec == Init /\ [][Next]_vars
FairSpec == Spec /\ Fairness
----------------------------------------------------------------------------
\* An overlapping attempt has the review, or the manifest of a risk policy or
\* event, open under the name that readers use, or died with it half written.
HalfWritten ==
    \/ store \in OpenReview /\ file["review"] = "torn"
    \/ store = "risk_manifest" /\ file["manifest"] = "torn"

\* What a reader accepts stays as it was accepted: no later attempt, retry,
\* exception or crash takes it away or puts other content in its place. The
\* exceptions are the model run, the receipt and the migration mapping, which a
\* second writer replaces whole or repeats, and the stores that write a file
\* that is read without a private name.
AcceptedStays ==
    [][Accepted => /\ (Accepted' \/ HalfWritten')
                   /\ (owner' = owner \/ store \in LastWins)]_vars

\* A writer that reports success is right: the reader accepts what is on disk,
\* and in a store whose path does not name the content it is the writer's own.
\* The exception is again a file that another attempt left half written.
PassedIsOnDisk ==
    \A w \in Writers : outcome[w] = "passed" =>
        /\ Accepted \/ HalfWritten
        /\ (store \in Dated => owner = w)

\* What an interrupted attempt may leave that no retry gets past: a directory
\* made in place, the review of a model artifact without the artifact, a dataset
\* without its review, a review that was written in place and is half there.
Debris ==
    /\ stops > 0
    /\ \/ store \in InPlace /\ dir
       \/ store = "artifact" /\ ~dir /\ file["review"] = "whole"
       \/ store = "dataset" /\ dir /\ file["review"] = "no"
       \/ store \in OpenReview /\ file["review"] = "torn"
Unreported == NeedsReport /\ file["review"] = "no"

\* Publication that is tried again ends: the subject is accepted for good, or
\* the store is one of those above, was interrupted, and holds its own debris
\* for good. Every other store gets past every interruption, at any step, of
\* any writer. (A store that checks a report waits until it has one.)
PublicationEnds ==
    <>[]Accepted \/ <>[](~Accepted /\ (Debris \/ Unreported))
============================================================================
