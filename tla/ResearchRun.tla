----------------------------- MODULE ResearchRun -----------------------------
(***************************************************************************)
(* A full research run: ResearchChainRunner.execute (research_chain/       *)
(* runner.py) over the file ledger of FileResearchRunStore                 *)
(* (research_chain/resolver.py).  An execute makes sure of the request and *)
(* of the resolution state, replays the stages the ledger says have        *)
(* passed, runs the others in order, each publishing its outputs and then  *)
(* its state, and reconciles them into a result.  Any error is recorded as *)
(* the failed state of a stage and raised.  The operator may execute the   *)
(* run again; nothing keeps two executes of one run from overlapping.      *)
(*                                                                         *)
(* A document of the ledger has a directory of its own.  _atomic_write     *)
(* makes the directory (exist_ok=False) and then renames the document into *)
(* it: the two steps are separate here.  Stage 0 is resolve_request, the   *)
(* runtime stages are 1..Last, Last + 1 is result_reconciliation.  The     *)
(* request and the result count as passed once they are there.             *)
(***************************************************************************)
EXTENDS Integers, FiniteSetsExt

CONSTANTS
  Runners,    \* the processes that may execute this run
  Last,       \* the last runtime stage
  ReadOnly,   \* stages that bind an existing output and write none
  Fallible,   \* the program points a transient error may strike
  MaxFaults,  \* BOUND: errors over the life of the run
  MaxCrashes  \* BOUND: crashes over the life of the run

ASSUME StageAssumption == Last \in Nat \ {0} /\ ReadOnly \subseteq 1..Last
ASSUME FaultAssumption == MaxFaults \in Nat /\ MaxCrashes \in Nat

Request == -1
Reconciliation == Last + 1
Result == Last + 2
States == 0..Reconciliation
Documents == Request..Result

VARIABLES
  ledger,    \* what each document's directory holds: none (there is no
             \* directory), dir (it is empty), a passed or a failed document
  outputs,   \* the stages whose outputs their own stores hold
  pc,        \* where the execute of each runner is
  at,        \* the document the execute has reached
  completed, \* the stages it replayed from the ledger
  folded,    \* the stages whose published bindings its plan holds
  frontier,  \* the stage its error handler blames
  faults, crashes

runnerVars == <<pc, at, completed, folded, frontier>>
vars == <<ledger, outputs, runnerVars, faults, crashes>>

Body == {"open", "publish", "writing", "resume", "stage", "fold", "reconcile",
         "readback"}
Handler == {"failing", "failPublish", "failWriting"}
Written == {"passed", "failed"}

-----------------------------------------------------------------------------
GoTo(r, point) == pc' = [pc EXCEPT ![r] = point]
GoToAt(r, point, d) == GoTo(r, point) /\ at' = [at EXCEPT ![r] = d]
Raise(r) == GoTo(r, "failing") /\ UNCHANGED at

\* Where the execute goes once the document in hand is in the ledger.
AfterDocument(r) ==
  IF at[r] = Request THEN GoToAt(r, "open", 0)
  ELSE IF at[r] = 0 THEN GoToAt(r, "resume", 0)
  ELSE IF at[r] = Result THEN GoToAt(r, "readback", Result)
  ELSE GoToAt(r, "fold", at[r])

NextStage(r) ==
  IF at[r] < Last THEN GoToAt(r, "stage", at[r] + 1)
                  ELSE GoToAt(r, "reconcile", Reconciliation)

Execute(r) ==
  /\ pc[r] = "idle"
  /\ GoToAt(r, "open", Request)
  /\ completed' = [completed EXCEPT ![r] = {}]
  /\ folded' = [folded EXCEPT ![r] = {}]
  /\ UNCHANGED <<ledger, outputs, frontier, faults, crashes>>

\* _ensure_request and _publish_resolution_state accept a document that is
\* there, whatever its status, and publish it otherwise.
Open(r) ==
  /\ pc[r] = "open"
  /\ IF ledger[at[r]] \in Written THEN AfterDocument(r)
                                  ELSE GoTo(r, "publish") /\ UNCHANGED at
  /\ UNCHANGED <<ledger, outputs, completed, folded, frontier, faults, crashes>>

\* Mutant: a state is as immutable as the request and the result.
PublishImmutable(r) ==
  /\ pc[r] = "publish"
  /\ IF ledger[at[r]] = "none"
       THEN /\ ledger' = [ledger EXCEPT ![at[r]] = "dir"]
            /\ GoTo(r, "writing") /\ UNCHANGED at
       ELSE Raise(r) /\ UNCHANGED ledger
  /\ UNCHANGED <<outputs, completed, folded, frontier, faults, crashes>>

\* publish_request, publish_state and publish_result.  A stage's state replaces
\* the one an earlier attempt left; everything else is immutable.  A directory
\* without its document makes mkdir raise.
Publish(r) ==
  /\ pc[r] = "publish"
  /\ IF ledger[at[r]] = "none"
       THEN /\ ledger' = [ledger EXCEPT ![at[r]] = "dir"]
            /\ GoTo(r, "writing") /\ UNCHANGED at
     ELSE IF at[r] \in States /\ ledger[at[r]] \in Written
       THEN ledger' = [ledger EXCEPT ![at[r]] = "passed"] /\ AfterDocument(r)
     ELSE Raise(r) /\ UNCHANGED ledger
  /\ UNCHANGED <<outputs, completed, folded, frontier, faults, crashes>>

Write(r) ==
  /\ pc[r] = "writing"
  /\ ledger' = [ledger EXCEPT ![at[r]] = "passed"]
  /\ AfterDocument(r)
  /\ UNCHANGED <<outputs, completed, folded, frontier, faults, crashes>>

\* Mutant: a stage that left any state is taken for completed.
ResumeAnyState(r) ==
  /\ pc[r] = "resume"
  /\ LET known == {s \in 1..Last : ledger[s] \in Written}
     IN  /\ completed' = [completed EXCEPT ![r] = known]
         /\ folded' = [folded EXCEPT ![r] = known]
  /\ GoToAt(r, "stage", 1)
  /\ UNCHANGED <<ledger, outputs, frontier, faults, crashes>>

\* Mutant: a ledger with a state for every stage needs no reconciliation.
ResumeShortcut(r) ==
  /\ pc[r] = "resume"
  /\ IF \A s \in 1..Last : ledger[s] \in Written
       THEN GoToAt(r, "publish", Result) ELSE GoToAt(r, "stage", 1)
  /\ UNCHANGED <<ledger, outputs, completed, folded, frontier, faults, crashes>>

\* _resume_from_passed_stages
Resume(r) ==
  /\ pc[r] = "resume"
  /\ LET passed == {s \in 1..Last : ledger[s] = "passed"}
     IN  /\ completed' = [completed EXCEPT ![r] = passed]
         /\ folded' = [folded EXCEPT ![r] = passed]
  /\ GoToAt(r, "stage", 1)
  /\ UNCHANGED <<ledger, outputs, frontier, faults, crashes>>

\* A stage adapter writes its outputs, or reads back those an earlier attempt
\* wrote, before it publishes its state.
Stage(r) ==
  /\ pc[r] = "stage"
  /\ IF at[r] \in completed[r]
       THEN NextStage(r) /\ UNCHANGED outputs
       ELSE /\ outputs' = outputs \cup ({at[r]} \ ReadOnly)
            /\ GoTo(r, "publish") /\ UNCHANGED at
  /\ UNCHANGED <<ledger, completed, folded, frontier, faults, crashes>>

\* _plan_with_stage_outputs reads the bindings of the state that is now at the
\* stage's path; a failed state has none.
Fold(r) ==
  /\ pc[r] = "fold"
  /\ folded' = [folded EXCEPT ![r] =
                  @ \cup {s \in {at[r]} : ledger[s] = "passed"}]
  /\ NextStage(r)
  /\ UNCHANGED <<ledger, outputs, completed, frontier, faults, crashes>>

\* The records the result is made of: the resolution's own, which has to be a
\* passed one, and one for each stage, whose outputs are read back.
Reconcilable(r) ==
  /\ ledger[0] = "passed"
  /\ (1..Last) \ ReadOnly \subseteq folded[r] \cap outputs

Reconcile(r) ==
  /\ pc[r] = "reconcile"
  /\ IF Reconcilable(r) THEN GoToAt(r, "publish", Result) ELSE Raise(r)
  /\ UNCHANGED <<ledger, outputs, completed, folded, frontier, faults, crashes>>

\* read_result; the execute then returns its outcome.
ReadResult(r) ==
  /\ pc[r] = "readback"
  /\ GoToAt(r, "idle", Request)
  /\ UNCHANGED <<ledger, outputs, completed, folded, frontier, faults, crashes>>

-----------------------------------------------------------------------------
(* _publish_failed_state                                                   *)

PassedStages == {s \in States : ledger[s] = "passed"}
Frontier == LET next == Cardinality(PassedStages)
            IN  IF next < Reconciliation THEN next ELSE Reconciliation

\* The records of the passed stages and a failed one for the stage after the
\* last of them, which must have no gap between them; a stage that has a state
\* keeps it.
Failing(r) ==
  /\ pc[r] = "failing"
  /\ IF PassedStages # 0..(Cardinality(PassedStages) - 1) \/ ledger[Frontier] \in Written
       THEN GoToAt(r, "idle", Request) /\ UNCHANGED frontier
       ELSE /\ GoTo(r, "failPublish") /\ UNCHANGED at
            /\ frontier' = [frontier EXCEPT ![r] = Frontier]
  /\ UNCHANGED <<ledger, outputs, completed, folded, faults, crashes>>

FailPublish(r) ==
  /\ pc[r] = "failPublish"
  /\ IF ledger[frontier[r]] = "none"
       THEN /\ ledger' = [ledger EXCEPT ![frontier[r]] = "dir"]
            /\ GoTo(r, "failWriting") /\ UNCHANGED at
     ELSE /\ GoToAt(r, "idle", Request)
          /\ IF ledger[frontier[r]] = "dir" THEN UNCHANGED ledger
             ELSE ledger' = [ledger EXCEPT ![frontier[r]] = "failed"]
  /\ UNCHANGED <<outputs, completed, folded, frontier, faults, crashes>>

FailWrite(r) ==
  /\ pc[r] = "failWriting"
  /\ ledger' = [ledger EXCEPT ![frontier[r]] = "failed"]
  /\ GoToAt(r, "idle", Request)
  /\ UNCHANGED <<outputs, completed, folded, frontier, faults, crashes>>

-----------------------------------------------------------------------------
\* An error of a store, a gate, a quality decision or a stage adapter: the body
\* hands it to the handler, the handler lets it out.
Fault(r) ==
  /\ faults < MaxFaults /\ pc[r] \in Fallible
  /\ IF pc[r] \in Body THEN Raise(r) ELSE GoToAt(r, "idle", Request)
  /\ faults' = faults + 1
  /\ UNCHANGED <<ledger, outputs, completed, folded, frontier, crashes>>

\* The process dies; what it had in memory is gone.
Crash(r) ==
  /\ crashes < MaxCrashes /\ pc[r] # "idle"
  /\ GoToAt(r, "idle", Request)
  /\ crashes' = crashes + 1
  /\ UNCHANGED <<ledger, outputs, completed, folded, frontier, faults>>

Init ==
  /\ ledger = [d \in Documents |-> "none"]
  /\ outputs = {}
  /\ pc = [r \in Runners |-> "idle"] /\ at = [r \in Runners |-> Request]
  /\ completed = [r \in Runners |-> {}] /\ folded = [r \in Runners |-> {}]
  /\ frontier = [r \in Runners |-> 0]
  /\ faults = 0 /\ crashes = 0

\* The program's own steps, once an execute has begun.
Run(r) == \/ Open(r) \/ Publish(r) \/ Write(r) \/ Resume(r) \/ Stage(r) \/ Fold(r)
          \/ Reconcile(r) \/ ReadResult(r)
          \/ Failing(r) \/ FailPublish(r) \/ FailWrite(r)

Next == \E r \in Runners : Execute(r) \/ Run(r) \/ Fault(r) \/ Crash(r)
Spec == Init /\ [][Next]_vars

\* An execute runs to its end, and the operator retries a run that has failed.
FairSpec == Spec /\ \A r \in Runners : WF_vars(Run(r)) /\ WF_vars(Execute(r))

-----------------------------------------------------------------------------
(* Properties                                                              *)

\* Every variable holds a value the runner can give it.
TypeOK ==
  /\ ledger \in [Documents -> {"none", "dir"} \cup Written]
  /\ outputs \subseteq 1..Last
  /\ pc \in [Runners -> {"idle"} \cup Body \cup Handler]
  /\ at \in [Runners -> Documents]
  /\ completed \in [Runners -> SUBSET (1..Last)]
  /\ folded \in [Runners -> SUBSET (1..Last)]
  /\ frontier \in [Runners -> States]
  /\ faults \in Nat /\ crashes \in Nat

\* A stage that the ledger says has passed, and that no later attempt will run
\* again, has its outputs in their stores: adapters publish the outputs before
\* the state, whoever crashes or retries in between.
PassedIsBacked ==
  \A s \in (1..Last) \ ReadOnly : ledger[s] = "passed" => s \in outputs

\* A result exists only when the outputs of every stage do, however many
\* executes of the run overlapped, failed and were resumed.
ResultIsBacked == ledger[Result] = "passed" => (1..Last) \ ReadOnly \subseteq outputs

\* A result exists only over a ledger in which the resolution and every stage
\* have passed.
ResultIsEarned == ledger[Result] = "passed" => \A s \in 0..Last : ledger[s] = "passed"

\* No error and no later attempt takes back a stage that has passed.
PassedIsFinal ==
  [][ \A d \in Documents : ledger[d] = "passed" => ledger'[d] = "passed" ]_vars

\* The promise to the reader of the ledger, kept by one runner at a time.
Promise == INSTANCE RunLedger WITH
  progress <- Cardinality({s \in 1..Last : ledger[s] = "passed"}),
  concluded <- ledger[Result] = "passed"
PromiseSpec == Promise!Spec

\* A retry goes on where the last attempt stopped.  A run that is executed until
\* it has its result gets it, but for the two things no retry repairs: a document's
\* directory left without the document, and a resolution filed as failed.
Wedged == (\E d \in Documents : ledger[d] = "dir") \/ ledger[0] = "failed"
RunEnds == <>[](ledger[Result] = "passed" \/ Wedged)

\* The document each point of an execute can have in hand.
Course ==
  \A r \in Runners :
    /\ pc[r] = "open" => at[r] \in {Request, 0}
    /\ pc[r] \in {"stage", "fold"} => at[r] \in 1..Last
    /\ pc[r] \in {"publish", "writing"} => at[r] # Reconciliation
    /\ pc[r] = "reconcile" => at[r] = Reconciliation

\* What makes ResultIsBacked inductive.
IInv ==
  /\ TypeOK /\ Course /\ PassedIsBacked /\ ResultIsBacked
  /\ \A r \in Runners :
       /\ folded[r] \ ReadOnly \subseteq outputs
       /\ pc[r] \in {"publish", "writing"} /\ at[r] \in (1..Last) \ ReadOnly =>
            at[r] \in outputs
       /\ pc[r] \in {"publish", "writing"} /\ at[r] = Result =>
            (1..Last) \ ReadOnly \subseteq outputs

\* What makes PassedIsFinal and ResultIsEarned inductive for one runner: the
\* stage a failure is filed under has no state, and an execute that has got to a
\* point has only passed stages behind it.
SoloInv ==
  /\ TypeOK /\ Course /\ ResultIsEarned
  /\ \A r \in Runners :
       /\ \A s \in completed[r] : ledger[s] = "passed"
       /\ \A s \in 1..Last : s < at[r] => ledger[s] = "passed"
       /\ pc[r] \in {"failPublish", "failWriting"} => ledger[frontier[r]] \notin Written
       /\ pc[r] \in {"publish", "writing"} /\ at[r] = Result => ledger[0] = "passed"
       /\ pc[r] = "fold" => ledger[at[r]] = "passed"

-----------------------------------------------------------------------------
(* What the documentation says and the code does not do                    *)

\* runner.py:1337: passed stages are replayed so that a failure is retryable.
FailureIsRetryable == <>(ledger[Result] = "passed")
=============================================================================
