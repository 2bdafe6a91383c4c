--------------------------- MODULE PaperPublication ---------------------------
(***************************************************************************)
(* Publication by the paper stage: PaperExecutionStageAdapter.run          *)
(* (execution/stage_adapter.py) over the immutable stores of               *)
(* execution/stores.py and the RiskDecisionStore of risk/stores.py.  Per   *)
(* decision date an attempt publishes its risk decision, then the config,  *)
(* the order plan, the execution result and the portfolio state, reading   *)
(* each back before it goes on; a store refuses what it already holds and  *)
(* the attempt then goes on with that.  Attempts may overlap and may be    *)
(* interrupted anywhere.                                                   *)
(*                                                                         *)
(* What an artifact says is determined by the request, the risk documents  *)
(* and the artifacts before it, so a place of the chain has one generation *)
(* id; what tells two versions of it apart is the digest, which covers the *)
(* attempt's created_at and the signature of its quality report.  A digest *)
(* is the number of the attempt.  The books themselves are in              *)
(* PaperExecution.                                                         *)
(***************************************************************************)
EXTENDS Integers, FiniteSets

CONSTANTS
  Runners,     \* processes that may run the stage
  Days,        \* number of decision dates
  Documents,   \* the sets of risk documents an attempt may be started with
  Refused,     \* <<date, documents>> whose decision is not executable
  MaxAttempts  \* BOUND: attempts over the life of the run

ASSUME DaysAssumption == Days \in Nat \ {0}
ASSUME DocumentsAssumption ==
  "none" \notin Documents /\ Refused \subseteq (1..Days) \X Documents
ASSUME AttemptsAssumption == MaxAttempts \in Nat

\* The chain: config, plan, result and state of date 1, then of date 2, ...
Slots == 1..(4 * Days)
DateOf(n) == (n - 1) \div 4 + 1
IsConfig(n) == n % 4 = 1
IsPlan(n) == n % 4 = 2
\* A state names the digest of its result, a config that of the state it continues;
\* a plan and a result name what is before them by its generation id.  That a state
\* repeats the digest its config names is left out.
NamesDigest(n) == n > 1 /\ n % 4 \in {0, 1}

Attempts == 1..MaxAttempts
\* A published artifact: the attempt it was signed for, the risk documents of the
\* decision it names, the digest it names of the artifact before it.
Absent == [by |-> 0, documents |-> "none", parent |-> 0]
Artifact == [by : Attempts, documents : Documents, parent : 0..MaxAttempts]
NoState == [n \in Slots |-> 0]

VARIABLES
  decision,  \* what the partition of each date's and documents' decision holds
  store,     \* the partition of each place of the chain
  reviews,   \* the quality reports on disk, by place and attempt
  stage,     \* the digests the passed stage state names, NoState before
  attempts,  \* attempts started
  given,     \* the risk documents each attempt was started with
  pc,        \* where each runner is
  attempt,   \* its attempt
  at,        \* the place of the chain it has reached
  hand,      \* the artifact it read back last
  named,     \* the digests of those it has read back
  outcome    \* how its last attempt ended

runnerVars == <<pc, at, hand, named, outcome>>
publicationVars == <<decision, store, reviews, stage, attempts, given, attempt, runnerVars>>

Keys == (1..Days) \X Documents
Key(r) == <<DateOf(at[r]), given[attempt[r]]>>

-----------------------------------------------------------------------------
GoTo(r, point) ==
  /\ pc' = [pc EXCEPT ![r] = point]
  /\ UNCHANGED <<at, hand, named, outcome>>

\* The attempt is over; an error leaves whatever is published.
End(r, how) ==
  /\ pc' = [pc EXCEPT ![r] = "idle"] /\ outcome' = [outcome EXCEPT ![r] = how]
  /\ UNCHANGED <<at, hand, named>>

\* A runner that finds the stage passed skips it.
Start(r, documents) ==
  /\ pc[r] = "idle" /\ stage = NoState /\ attempts < MaxAttempts
  /\ attempts' = attempts + 1
  /\ attempt' = [attempt EXCEPT ![r] = attempts + 1]
  /\ given' = [given EXCEPT ![attempts + 1] = documents]
  /\ pc' = [pc EXCEPT ![r] = "decide"] /\ at' = [at EXCEPT ![r] = 1]
  /\ hand' = [hand EXCEPT ![r] = Absent] /\ named' = [named EXCEPT ![r] = NoState]
  /\ outcome' = [outcome EXCEPT ![r] = "none"]
  /\ UNCHANGED <<decision, store, reviews, stage>>

-----------------------------------------------------------------------------
(* RiskDecisionStore.publish                                               *)

\* "already exists", which _publish_once takes for done, is said of a manifest;
\* nothing reads the decision back.
CheckDecision(r) ==
  /\ pc[r] = "decide"
  /\ GoTo(r, IF decision[Key(r)] \in {"manifest", "complete"} THEN "authorize"
                                                              ELSE "mkdir")
  /\ UNCHANGED <<decision, store, reviews, stage, attempts, given, attempt>>

\* mkdir(exist_ok=False): the FileExistsError of a partition that is there is no
\* ContractError and ends the attempt.
MakeDecision(r) ==
  /\ pc[r] = "mkdir"
  /\ IF decision[Key(r)] = "none"
       THEN decision' = [decision EXCEPT ![Key(r)] = "dir"] /\ GoTo(r, "manifest")
       ELSE UNCHANGED decision /\ End(r, "taken")
  /\ UNCHANGED <<store, reviews, stage, attempts, given, attempt>>

WriteManifest(r) ==
  /\ pc[r] = "manifest"
  /\ decision' = [decision EXCEPT ![Key(r)] = "manifest"] /\ GoTo(r, "data")
  /\ UNCHANGED <<store, reviews, stage, attempts, given, attempt>>

WriteData(r) ==
  /\ pc[r] = "data"
  /\ decision' = [decision EXCEPT ![Key(r)] = "complete"] /\ GoTo(r, "authorize")
  /\ UNCHANGED <<store, reviews, stage, attempts, given, attempt>>

\* ConfigPublicationBinding: only an executable decision lets a config out.
Authorize(r) ==
  /\ pc[r] = "authorize"
  /\ IF Key(r) \in Refused THEN End(r, "refused") ELSE GoTo(r, "claim")
  /\ UNCHANGED <<decision, store, reviews, stage, attempts, given, attempt>>

-----------------------------------------------------------------------------
(* The publish of the four artifact stores                                 *)

\* Mutant: a plan is published under whatever decision its config names.
ClaimUnjudged(r) ==
  /\ pc[r] = "claim"
  /\ GoTo(r, IF store[at[r]] # Absent THEN "readback" ELSE "review")
  /\ UNCHANGED <<decision, store, reviews, stage, attempts, given, attempt>>

\* Mutant: the refusal of a store is an error.
ClaimOnce(r) ==
  /\ pc[r] = "claim"
  /\ IF store[at[r]] # Absent THEN End(r, "taken") ELSE GoTo(r, "review")
  /\ UNCHANGED <<decision, store, reviews, stage, attempts, given, attempt>>

\* The checks before anything is written.  The plan store compares the attempt's
\* decision with the one the published config names.  An existing partition is
\* refused, and _publish_once recovers it.
Claim(r) ==
  /\ pc[r] = "claim"
  /\ IF IsPlan(at[r]) /\ hand[r].documents # given[attempt[r]]
       THEN End(r, "disagreed")
       ELSE GoTo(r, IF store[at[r]] # Absent THEN "readback" ELSE "review")
  /\ UNCHANGED <<decision, store, reviews, stage, attempts, given, attempt>>

\* _publish_review: a report's name is its checksum.
Review(r) ==
  /\ pc[r] = "review"
  /\ reviews' = reviews \union {<<at[r], attempt[r]>>}
  /\ GoTo(r, "install")
  /\ UNCHANGED <<decision, store, stage, attempts, given, attempt>>

\* The staged directory is renamed into place.  When another attempt was faster
\* the config store says "already exists"; the rename of the other stores fails
\* with an OSError.
Install(r) ==
  /\ pc[r] = "install"
  /\ IF store[at[r]] = Absent
       THEN /\ store' = [store EXCEPT ![at[r]] =
                  [by |-> attempt[r],
                   parent |-> IF NamesDigest(at[r]) THEN hand[r].by ELSE 0,
                   documents |-> IF IsConfig(at[r]) THEN given[attempt[r]]
                                                    ELSE hand[r].documents]]
            /\ GoTo(r, "readback")
       ELSE /\ UNCHANGED store
            /\ IF IsConfig(at[r]) THEN GoTo(r, "readback") ELSE End(r, "raced")
  /\ UNCHANGED <<decision, reviews, stage, attempts, given, attempt>>

\* What follows the readback of artifact.
Proceed(r, artifact) ==
  /\ hand' = [hand EXCEPT ![r] = artifact]
  /\ named' = [named EXCEPT ![r][at[r]] = artifact.by]
  /\ at' = [at EXCEPT ![r] = IF at[r] < 4 * Days THEN @ + 1 ELSE @]
  /\ pc' = [pc EXCEPT ![r] = IF at[r] = 4 * Days THEN "state"
                             ELSE IF IsConfig(at[r] + 1) THEN "decide" ELSE "claim"]
  /\ UNCHANGED outcome

\* Mutant: the attempt goes on with the manifest it tried to publish.
ReadbackTrusting(r) ==
  /\ pc[r] = "readback"
  /\ Proceed(r, [store[at[r]] EXCEPT !.by = attempt[r]])
  /\ UNCHANGED <<decision, store, reviews, stage, attempts, given, attempt>>

\* The accepted read, which verifies the quality report the artifact names.
Readback(r) ==
  /\ pc[r] = "readback"
  /\ IF <<at[r], store[at[r]].by>> \in reviews THEN Proceed(r, store[at[r]])
                                               ELSE End(r, "unreviewed")
  /\ UNCHANGED <<decision, store, reviews, stage, attempts, given, attempt>>

\* The stage state, which replaces one that is there.
PublishStage(r) ==
  /\ pc[r] = "state"
  /\ stage' = named[r] /\ End(r, "passed")
  /\ UNCHANGED <<decision, store, reviews, attempts, given, attempt>>

\* A crash, or an error that is not one of the above.  BOUND: only while another
\* attempt is left.
Interrupt(r) ==
  /\ pc[r] # "idle" /\ attempts < MaxAttempts
  /\ End(r, "interrupted")
  /\ UNCHANGED <<decision, store, reviews, stage, attempts, given, attempt>>

-----------------------------------------------------------------------------
PublicationInit ==
  /\ decision = [k \in Keys |-> "none"]
  /\ store = [n \in Slots |-> Absent]
  /\ reviews = {} /\ stage = NoState
  /\ attempts = 0 /\ given = [a \in 0..MaxAttempts |-> "none"]
  /\ attempt = [r \in Runners |-> 0]
  /\ pc = [r \in Runners |-> "idle"] /\ at = [r \in Runners |-> 1]
  /\ hand = [r \in Runners |-> Absent] /\ named = [r \in Runners |-> NoState]
  /\ outcome = [r \in Runners |-> "none"]

Run(r) == \/ CheckDecision(r) \/ MakeDecision(r) \/ WriteManifest(r) \/ WriteData(r)
          \/ Authorize(r) \/ Claim(r) \/ Review(r) \/ Install(r) \/ Readback(r)
          \/ PublishStage(r)
PublicationNext == \E r \in Runners :
  \/ \E documents \in Documents : Start(r, documents)
  \/ Run(r)
  \/ Interrupt(r)

PublicationSpec == PublicationInit /\ [][PublicationNext]_publicationVars
\* A runner that is not interrupted goes on, and the stage is retried.
Retry == \E r \in Runners : \E documents \in Documents : Start(r, documents)
FairPublicationSpec ==
  PublicationSpec /\ WF_publicationVars(Retry) /\ \A r \in Runners : WF_publicationVars(Run(r))

-----------------------------------------------------------------------------
(* Properties                                                              *)

Points == {"idle", "decide", "mkdir", "manifest", "data", "authorize", "claim",
           "review", "install", "readback", "state"}
Outcomes == {"none", "taken", "refused", "disagreed", "raced", "unreviewed",
             "passed", "interrupted"}

\* Every variable holds a value the code can produce.
PublicationTypeOK ==
  /\ decision \in [Keys -> {"none", "dir", "manifest", "complete"}]
  /\ store \in [Slots -> Artifact \union {Absent}]
  /\ reviews \subseteq Slots \X Attempts
  /\ stage \in [Slots -> 0..MaxAttempts]
  /\ attempts \in 0..MaxAttempts
  /\ given \in [0..MaxAttempts -> Documents \union {"none"}]
  /\ attempt \in [Runners -> 0..attempts]
  /\ pc \in [Runners -> Points] /\ at \in [Runners -> Slots]
  /\ hand \in [Runners -> Artifact \union {Absent}]
  /\ named \in [Runners -> [Slots -> 0..MaxAttempts]]
  /\ outcome \in [Runners -> Outcomes]

Published(n) == store[n] # Absent
Active(r) == pc[r] # "idle"

\* Whoever publishes an artifact was started with the risk documents of the very
\* decision the artifact names, though its config may be another attempt's
\* (stores.py:232, _validate_executable_risk_decision).
JudgedByPublisher ==
  \A n \in Slots : Published(n) => given[store[n].by] = store[n].documents

\* Nothing of a date is published under a decision that refuses it
\* (publication.py:45; PE23).
ExecutableOnly ==
  \A n \in Slots : Published(n) => <<DateOf(n), store[n].documents>> \notin Refused

\* A config is never out before the manifest of the decision it names, however
\* the writing of the decision was interrupted (stage_adapter.py:315).
DecisionFirst ==
  \A n \in Slots : Published(n) =>
    decision[<<DateOf(n), store[n].documents>>] \in {"manifest", "complete"}

\* The strengthening: the chain has no gaps, what is published has its review on
\* disk, and what an attempt holds in memory is what the stores hold.
Gapless == \A n \in Slots : Published(n) => \A m \in Slots : m < n => Published(m)
Linked == \A n \in Slots : Published(n) /\ ~IsConfig(n) =>
                             store[n].documents = store[n - 1].documents
Reviewed == \A n \in Slots : Published(n) => <<n, store[n].by>> \in reviews
Dated == \A n \in Slots : store[n].by <= attempts
Course(r) ==
  /\ attempt[r] \in Attempts /\ given[attempt[r]] \in Documents
  /\ \A m \in Slots : m < at[r] => Published(m) /\ named[r][m] = store[m].by
  /\ pc[r] = "state" => at[r] = 4 * Days /\ \A m \in Slots :
                           Published(m) /\ named[r][m] = store[m].by
  /\ pc[r] # "state" => hand[r] = IF at[r] = 1 THEN Absent ELSE store[at[r] - 1]
  /\ pc[r] \in {"decide", "mkdir", "manifest", "data", "authorize"} => IsConfig(at[r])
  /\ pc[r] \in {"authorize", "claim", "review", "install"} /\ IsConfig(at[r]) =>
       decision[Key(r)] \in {"manifest", "complete"}
  /\ pc[r] \in {"claim", "review", "install"} /\ IsConfig(at[r]) => Key(r) \notin Refused
  /\ pc[r] \in {"claim", "review", "install", "readback"} /\ ~IsConfig(at[r])
        /\ ~(pc[r] = "claim" /\ IsPlan(at[r])) =>
       hand[r].documents = given[attempt[r]]
  /\ pc[r] = "install" => <<at[r], attempt[r]>> \in reviews
  /\ pc[r] = "readback" => Published(at[r])
Accepted == stage # NoState =>
              \A n \in Slots : Published(n) /\ stage[n] = store[n].by
PublicationSound ==
  /\ PublicationTypeOK /\ JudgedByPublisher /\ ExecutableOnly /\ DecisionFirst /\ Gapless
  /\ Linked /\ Reviewed /\ Dated /\ Accepted /\ \A r \in Runners : Active(r) => Course(r)

\* The chain is extended in order, each artifact once, a digest it names is that of
\* the artifact on disk, and the stage state names exactly what is on disk, whichever
\* attempts published it.
Chain == INSTANCE PaperChain WITH chain <- store, accepted <- stage
ChainSpec == Chain!Spec

\* A stage that is retried passes, unless its risk documents refuse a date or
\* disagree with those of an earlier attempt, or an attempt died between making
\* the partition of a decision and writing the manifest into it.
Wedged == \E k \in Keys : decision[k] = "dir" /\
            \A r \in Runners : pc[r] = "manifest" => Key(r) # k
StageEnds ==
  <>(stage # NoState \/ Wedged \/ \E r \in Runners : outcome[r] \in {"refused", "disagreed"})

=============================================================================
