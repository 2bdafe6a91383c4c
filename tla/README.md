# unified-quant: TLA+ models and proofs

This directory holds TLA+ modules that model the programs of this repository, the TLC configurations
that check them on small instances, and proofs that the TLA+ proof system checks for every value of the
constants. `PROJECT.json` maps every definition to the lines it models and lists the runs, the mutants
that show each property can fail, the hazards and the theorems. Paths below are relative to `src/src/uq`
unless they start with `specs/`, `docs/`, `tests/` or `scripts/` (under `src/`).

    tlc -config PaperCore.cfg MCPaperExecution      # model-check one run
    tlapm PaperProofs.tla                           # check one module of proofs

## 1. The system

A research run turns governed market data into factors, model predictions, target weights, a
backtest and a chain of paper-trading books. Nothing is a server: every program is a batch process
that reads documents from directories, computes, and publishes documents into directories. All the
hard behaviour therefore sits in five places: arithmetic that several stages repeat independently,
write-once stores that meet a retry, processes that overlap on one directory, state carried from day to
day, and data that becomes known later than the day it speaks of.

| Component | State it keeps | Operations | What makes it correct |
|---|---|---|---|
| Daily pipeline, sources, routing, quality gate (`pipeline/`, `adapters/`, `routing/`, `quality/`, `scripts/ingest_window.py`) | a partition per session, a summary of the window | fetch with retries, classify absent rows, gate, publish, resume | a session is published when both the rows and their absence are explained; a window that was filled is trainable |
| Readiness (`pipeline/readiness.py`) | none | judge membership, bars and evidence | a window that passes has what its labels need |
| Market and point-in-time store (`market/`, `store/`) | lifecycles, snapshots | publish, read as of | visibility, no look-ahead |
| Factors, labels, samples, preprocessing (`factors/`, `models/`, `scripts/`) | partitions and sets by content | publish, bind, select rows, standardise, split | rows were known, complete, labelled; nothing leaks across a split |
| Research runner and ledger (`research_chain/runner.py`, `resolver.py`) | request, state documents per stage, result | execute, resume, stage, fold, file a failure, reconcile | a passed stage has its outputs and stays passed; one result, over all stages; a retry gets there |
| Research stages (`research_chain/adapters.py`) | the last result, in memory | eight stages that hand documents on | a result is of one lineage and has every date |
| Portfolio construction (`portfolio/`) | weights per date | select, cap, reserve, blend, check | the limits hold after the last step, over dates |
| Risk evaluation and gates (`risk/engine.py`, `adapter.py`, `stores.py`) | decision, policy, event and run stores | evaluate, gate, cut an order | what is executed passes the policy that allowed it |
| Risk loss control (`risk/state.py`) | episode flag, cooldown, event numbering | evaluate a batch of observations | episodes spaced by the cooldown, no breach unanswered |
| Backtest engines (`backtest/`) | cash, lots, entitlements, references | session loop, orders, corporate actions | entitlements paid once; T+1 over bonus shares; caps hold |
| Paper execution (`execution/planner.py`, `engine.py`, `state.py`) | the book: quantity, T+1 lock, cash, mark | plan a date, fund, evaluate rows, settle, build the next book | the three stages agree; T+1; cash is never overdrawn; a suspended name does not stop the loop |
| Paper stage and stores (`execution/stage_adapter.py`, `stores.py`) | config, plan, result and state per date; reviews | publish once, recover, read back | a chain without gaps in which every digest named is that of the artifact on disk |
| Evaluation and contracts (`evaluation/`, `contracts/`) | windows, reports, manifests | publish, find again | a retry meets what it left |
| Installer (`src/.agent-maintenance/installer-transaction.py`) | journal, staged copies, backups | copy, merge, exchange, roll back | nothing the owner keeps is lost; what was written is on record |

How they interact. `ingest_window` fills partitions that the readiness command judges and the
label, sample and preprocessing scripts read. Their sets are named by content in a request;
`ResearchChainRunner.execute` resolves it and calls one adapter per stage. An adapter publishes into its
own stores, reads back, and names the digests in the stage's state document; the next adapter takes its
result from memory, or, after a restart, from the stores through what the runner folded and restored.
The portfolio stage is gated by risk; the paper adapter runs, per decision date, risk decision → config →
plan → result → state and feeds the state of one date to the next. All communication is through
directories; only a few stores take a lock on them.

Hard behaviours, with the module that treats each (all are listed at their line under `hazards`):

* crash or exception between the steps of a publication: `WriteOnce` (every store), `ResearchRun`,
  `PaperPublication`, `RiskGate`, `InstallerTransaction` (every system call), `BarWindow`;
* retry of what was already done, in the same process or a new one: `StageChain`, `PaperPublication`,
  `WriteOnce`, `BarWindow`;
* overlap: `WriteOnce` (three writers), `PaperPublication`, `ResearchRun` (by proof), `BarWindow` (the
  window script and `uq-ingest daily`), `InstallerTransaction` (the owner of the project);
* a check and the act that relies on it: everywhere above, most of all the installer's looks at a
  path before it acts on the name;
* values recomputed in several places, rounding, lots, fees and caps: `PaperExecution`, `RiskGate`,
  `BacktestBook`;
* state carried over days: `LossControl`, `BacktestSession`, `PaperExecution`, `TargetWeights`;
* late, partial, wrong or missing answers of vendors: `DailyIngest`;
* snapshots that arrive late or out of order: `InputSets`, `TrainingInputs`.

## 2. The modules

| Module | Models | Composes with |
|---|---|---|
| `PaperLedger` | abstract: what one published book may change against the book before | implemented by `PaperExecution` |
| `PaperExecution` | planner, engine, builder and the date loop | `INSTANCE PaperLedger` |
| `PaperChain` | abstract: the chain of artifacts and its acceptance | implemented by `PaperPublication` |
| `PaperPublication` | the adapter's publications over the artifact stores and the risk-decision store | `INSTANCE PaperChain WITH chain <- store, accepted <- stage` |
| `RunLedger` | abstract: stages pass in order and for good, one result | implemented by `ResearchRun` for one runner |
| `ResearchRun` | `execute`, the state ledger, failure filing, resume, crashes | `INSTANCE RunLedger` |
| `ChainDocuments` | the documents of the stages and how they are named and folded | extended by `StageChain` |
| `StageChain` | what each of the eight stages reads, publishes and remembers | the ledger of `ResearchRun`, abstracted to its stages |
| `LabelSets` ← `InputSets` ← `TrainingInputs` | labels; memberships and rows; the scripts, the request, the dataset and export stages | each extends the one before |
| `RiskEvaluation` ← `TargetWeights` ← `RiskGate` | rules and findings; the builder; the gate, the gated backtest and their stores | each extends the one before |
| `LossControl` | `evaluate_strategy_state` | |
| `DividendLedger` | abstract: an entitlement is locked once and received once | implemented by `Backtest` |
| `BacktestBook` ← `BacktestSession`, `BacktestReplay` ← `Backtest` | fills, caps, fees; the chronological engine of contracts 3 and 4; the replay of contracts 1 and 2; the choice between them | `INSTANCE DividendLedger` |
| `WriteOnceStores` ← `WriteOnce` | 47 publication protocols as data; the machine that runs any of them | |
| `DailyIngest`, `Readiness` ← `BarWindow` | one session; the gate; the window and its commands | `BarWindow` has an `INSTANCE` of each |
| `InstallerTransaction` | the helper's file transaction on one path | |
| `MC...` | instances; `MCBarWindow`, `MCStageChain` and `MCPaperExecution` also hold the worlds, the fairness and the two templates of their runs | extend their module |
| `...Proofs` | theorems: `PaperProofs` (of `PaperExecution` and `PaperPublication`), `RiskProofs` (of `RiskGate` and `LossControl`), `ResearchProofs` (of `ResearchRun` and `TrainingInputs`), `StageChainProofs`, `BacktestProofs`, `WriteOnceProofs`, `BarWindowProofs`, `InstallerTransactionProofs` | extend their modules and `TLAPS` |

**PaperExecution.** Money is an integer number of fee-precision units. A loop of the code over
instruments or ordered rows is one action per instrument, moved by `cursor`: `FundSell`/`FundBuy`
are the two funding passes of `planner.py`, `ExecuteSell`/`ExecuteBuy` the row evaluation of
`engine.py`, `Settle` the engine's closing checks, `BuildState` the builder. Every `raise` the model
can reach ends in phase `halted` with a name in `halt`. Panels are arbitrary: `PlanDate` and
`ExecuteDate` choose any row per instrument out of `DecisionRows` and `Quotes`. `heldAtOpen` and
`soldToday` are history variables for the T+1 property. The target quantity comes from weights in
the code; the model takes any target up to `MaxTarget` that the NAV could produce (`Attainable`).

**PaperPublication.** Places of the chain are 1..4·`Days` in order of publication. An artifact
records who signed it (`by`, which stands for its digest), the risk documents its decision was made
from, and the digest it names. The generation id does not tell two attempts apart and the digest
does, since it covers `created_at` and the quality report: this is what makes recovery subtle, and
the model keeps exactly this difference. `CheckDecision`/`MakeDecision`/`WriteManifest`/`WriteData`
are the steps of `RiskDecisionStore.publish`, `Authorize` is `ConfigPublicationBinding`,
`Claim`/`Review`/`Install` the checks, the review and the rename of a store, `Readback` the accepted
read. `End` is an exception leaving `run`; it undoes nothing.

**ResearchRun.** A document is a directory that is absent, empty, or holds a passed or failed
document; `Write` is the rename into the directory that `Publish` made. `Fault(r)` is an error at a
program point of `Fallible`, `Crash(r)` the end of the process. `Failing`, `FailPublish` and
`FailWrite` are the error handler, which computes the stage it blames before it writes.

**StageChain.** A document stands for its own generation id, so two documents are one exactly when
everything they were made from is the same. An adapter's memory dies with its
process; `ResumedPlan` and `Restored`, by `RestoredModel`, `RestoredPrediction` and `RestoredPortfolio`, are what the
runner gives back to a retry. A comprehension over bindings is `Selected`, a recursive function: `SelectSeq` says the
same, but the provers know nothing of it. An execute is
given arguments (`Attempts`): provider address, declared qlib version, dates, score file, risk
documents. One action per stage; each reads only what the code reads, so a stale plan, a wrong restored
result or a missed binding would show in the lineage of the result.

**TrainingInputs.** A label is the session whose close it reads, an artifact its content. Snapshots arrive
and a name is delisted between any two steps. `BuildLabelSets`, `PublishSample` and `PublishPreprocessing`
are the scripts, `MakeRequest` the request, `Resolve`, `WriteDataset`, `RecordStage` and `Export` the run.

**RiskGate.** The portfolio stage builds and publishes one date after another; the store keeps the generations of
each date, a partition with the one it was built on. The gate judges what is
published, files policy, decision, event and run in that order, and can be stopped between any two. The gated
backtest asks for every order, and cuts it when a resize says so. A unit of weight is what a float tells apart, so
that a scaling rounds down to it; a `Grain` is the twelfth decimal, to which the builder rounds blended weights
and the gate its metrics (`Nearest`, to the nearest), and a blended weight within the `Tolerance` of zero is dropped. The
builder caps industries by the facts of the date, the gate judges them by the membership that its policy binds
(`policy.membership`), and nothing says that the two agree. The assumptions on the constants are what `evaluate_order` and the schemas require of a candidate, its
context and a policy; that an order rule has the one action its id may have (`_ORDER_ACTIONS`) is checked by
`Evaluable`, as in the code.

**Backtest.** A session is `OpenSession` (entitlements, receipts, marks, the orders), one `Trade` per
order against a gate answer, and `CloseSession` (locks of the record date, references of the next session). The
orders that wait are a set, and `Turn` says which of them is next: sells before buys, then by name. The
halving that looks for the largest quantity within a limit is a recursive function over a set of allowed quantities.
The replay of the old contracts shares the book and has its own loop.

**WriteOnce.** A protocol is a sequence of verbs (`absent`, `lock`, `stage`, `place`, `move`, ...), one
step each, in the order of the `publish` method it stands for, together with the parts its reader verifies. Any
writer may stop at any verb by an exception (whose cleanup runs) or by dying.

**DailyIngest, Readiness, BarWindow.** Both judgements are pure operators; the window script is the machine
around them. A world says what is true of the market; vendors answer with all, some or none of the rows.

**InstallerTransaction.** Names of the directory point to inodes; every system call of the helper is an
action, and between any two the owner may write, replace, remove or restore a file or move the directory. `OwnerKeeps`
is about inodes, not names: bytes the owner wrote. A save of the journal succeeds, leaves an emergency copy, or fails
to leave even that and says so; `kept` has what failed saves left. Making the directory and the save that records it
are one step.

**LossControl.** One `Observe` per observation of a batch over a draft state; a call that raises
drops the draft. `Numbered` reproduces the event numbering, including the publication event whose
number the payload predicts. The counter `consecutive_trigger_days` is left out: it is
validated and carried on, and nothing else depends on it.

## 3. The runs

| Run | Question | Instance | States |
|---|---|---|---|
| `PaperCore` | do the stages agree, is T+1 kept over two rebalances, are planned buys affordable, does a suspension pass, is `PaperLedger` implemented | 2 instruments, lot 2; either 2 dates (same or next session) under `decision_close_estimate`, `preserve_one_lot`, `round_down_to_lot` with odd lots in the book; or 1 date under `execution_open_replay`, `reject` with every unusable row, quote and lock | 361k |
| `PaperPublish` | is the chain implemented under overlap, interruption and changed risk documents, and does a retried stage pass | 2 runners, 2 dates, 2 sets of documents (one refuses date 2), 2 attempts | 202k |
| `RunOne` | one runner with errors and crashes: promise to the reader, retry | 3 stages (one read-only), 3 faults, 3 crashes | 15k |
| `ChainRun` | does a result name one lineage and every date, whatever was retried with which arguments, and does the run get it | 8 stages, 4 kinds of arguments, requests of version 2 (fresh signatures) and 7, 2 training outcomes, 1 fault, 1 crash, 1 runner | 87k |
| `TrainingRun` | is what is trained on known in time, complete, labelled, standardised over itself, and free of leaks | 3 names, window of 4 days, horizon 2, 3 snapshots of which one is visible late, 1 delisting, 3 worlds, 2 splits, 2 label sets, 1 sample, 1 preprocessing | 380k |
| `RiskRun` | do the builder's weights pass its own limits at the gate, does an interrupted stage go on, is what is executed allowed | 4 names, 3 dates, every cap in reach, weights that are rounded up and dropped, 3 policies with a membership of their own, orders at every limit, 2 calls, 2 orders, 1 stop | 1.1M |
| `LossEpisodes` | episodes, numbering, clearing | 4 days, 4 stamps, batches of 2, 3 exceptions, 3 metric values around both thresholds | 608k |
| `BacktestRun` | T+1 with bonus shares, entitlements and their dates, caps, the limit reference, both generations of engine | 4 sessions, 2 instruments, 3 configurations, 7 dividend calendars, every kind of quote | 104k |
| `StoresRun` | what do crash, retry and overlap leave in each store | 47 protocols, 3 writers, 2 stops | 263k |
| `DailyRun` | is a window that passes trainable, does a filled window pass, what does a cross-checked session hold, is every session published in the end | 4 names, 4 sessions, horizon 2, 10 worlds, all evidence options, 1 fault or interruption | 14k |
| `InstallerRun` | does the owner keep what is theirs, is every write on record, is only the confirmed version exchanged | 2 commands, 2 runs, 3 interventions of the owner, a kill or a failed save, with or without its emergency copy, anywhere | 4.0M |

Why the bounds suffice. *Paper*: two instruments are needed for a sell to fund a buy and one to be
suspended while the other trades; two dates in one session for a lock to be carried and in two sessions for
it to lapse; the prices, fees and cash make rounding, minimum commission and one-lot reductions bind.
*Publications and runs*: two attempts are what it takes for one to meet what the other left; three stages
give a first, a middle and a last one; two faults let an error handler fail itself. *Chain*: the
hand-offs do not depend on how often a stage is retried but on what the retry finds, so one fault and one
crash after every step meet every state a retry can start from. *Training*: horizon 2 lets a label
reach over a split by one and by two sessions, three snapshots are the least for an order of dates that
differs from the order of visibility. *Risk*: two of four names are selected, so a date can replace both names of the
one before, and a blend holds up to four, of which it rounds some up and drops one or two; three dates let what is
rounded up add up. With these numbers the limits on sum, cash and turnover are each broken as they stand and
hold as `OwnLimits` eases them. *Loss*: four days are an opening, its cooldown, a
recovery and a reopening. *Backtest*: four sessions hold record, ex, pay and list dates, in all the
orders the contracts allow and with one after the end. *Stores*: one writer in the protocol, one that met
its debris and one that comes later. *Daily*: four sessions have a first, a last with no label, and two
between, and four names fill two requests. *Installer*: a creation and a rollback, or two commands on one
path, with three looks to be invalidated. `BOUND` comments in the modules name each bound. The theorems of
section 5 hold without them.

Deadlock is checked except in `PaperPublish`, `BacktestRun`, `InstallerRun`, `RiskRun`, `TrainingRun` and
`DailyRun`, whose programs end or whose attempts are used up.

### Where a document and the code disagree

`DocRetryable` is the violation run: a comment says that a failed resolution is retryable
(`research_chain/runner.py:1337`), but a failed `resolve_request`, once filed, is accepted by every retry and no
later execute can reconcile the run.

Met while reading and modelled, without a run of their own:

* **Paper.** A held name without a row refuses the plan under `execution_open_replay`, though the carried
  price is said to be enough (`planner.py:91-94`). Locks of an initial state are honoured by the planner
  and dropped by the first book (`SessionSafety` therefore has a hypothesis). A buy rejected for
  cash keeps its price (`engine.py:331`, paper spec line 160); the last lot is sold under `preserve_one_lot`
  (`planner.py:154`, spec 253); a missing row is rejected as suspended and never as `no_market_data`
  (`engine.py:291`, spec 212); an absent order aborts the reconciliation (`engine.py:390`, spec 144). A
  manifest left by a crash counts as a published refusal that no reader accepts (`stage_adapter.py:317-319`).
* **Runner.** Publishers are called atomic and overwrite-safe
  (`specs/layers/research-chain-layer-spec.md:260`), but an execute whose check came before another's
  pass overwrites it with a failure, `_atomic_write` leaves its directory behind (`resolver.py:927`), and
  state documents are rewritten on a retry (`resolver.py:702`, spec 176). With two runners `ResultIsOneLineage` is
  violated too, against the comment at `runner.py:1379-1401`. `_restore_cross_stage_state` says it restores the
  earliest document and restores the latest.
* **Chain wedges** (`StageChain!Wedged`): a reviewer who signs afresh makes a model stage that failed after its
  run record unrepeatable, though the envelope provider of `cli.py` says it resolves the same bytes; so do an
  artifact review whose artifact was never renamed into place, a receipt for another `qlib` version, a decision
  date the bound calendar lacks, and a rejected risk decision. The documentation
  (`docs/subsystems/research-chain.md:38`) says a failure anywhere is retryable without hand-moving directories.
* **Risk.** The gate of a backtest reads `context["limit_ratio"]` (`risk/adapter.py:243`), which the contexts of
  the chronological engine do not have, so each of its gated orders ends in a `KeyError`; were it there, a
  resize would hand over a float quantity (`risk/engine.py:513`) that `backtest/engine_v3.py:441` refuses. The policy is
  published by every gate call, so a second call under one policy raises. A turnover rule with the spec's own
  action `resize`, alone, raises "resize rule lacks a supported resize target".
* **Target weights.** The sum of weights is to be at most one minus the reserve, within 1e-8
  (`specs/layers/portfolio-backtest-layer-spec.md:167`, `:185`), and the gate holds a policy to the same. The builder scales to the very edge of
  that tolerance (`builder.py:244`), and a blend then rounds each weight to the nearest twelfth decimal
  (`:312`), so many names that round up together are published over the edge, and refused by a gate that has the definition's own
  numbers; and the weights that a blend drops (`:311`) are no part of the turnover it is capped to, so three of them just below
  1e-8 exceed that cap beyond the tolerance. `TargetsPassOwnLimits` says how far this goes at most: `RoundedUp` and `Overturned`.
* **Loss control** counts the cooldown in calendar days (`state.py:395`, risk spec 301), opens an exit after one
  session (spec 303), lets `visible_through` go backward (`state.py:378`, spec 299), returns the action of
  the last observation only (`state.py:512`), and logs an expired exception only on the observation that opens an
  episode (spec 419).
* **Training.** No code compares the purge with the horizon (`specs/layers/model-layer-spec.md:167`, `:187-188`), so
  `NoOutcomeLeaks` has the comparison as its hypothesis. A v5 and a v6 run do not always select the same rows
  (`adapters.py:354-355` says so): a v6 dataset declares the template's missing policy though its rows were
  selected under the sample's. `build_label_sets` run again after an interruption dies at the first label set
  it had already published.
* **Stores.** A second model run replaces the first; two writers of the migration ledger can both append one
  mapping; the artifact and dataset stores keep debris that refuses every retry.
* **Readiness and sources.** A status list without dates excuses a name with no row before its delisting date is
  looked at (`readiness.py:331`, `docs/subsystems/data-sources-and-readiness.md:37`). The verdict the
  docstring calls exact (`readiness.py:14-20`) is wrong for a name halted on its only member day. The report says
  that a delisted name has no bars in the window (`readiness.py:350`); the code asks for none on the sessions that
  require the name (`readiness.py:334`). A partition
  that was published partial or without its tail is skipped for ever after. The cross-checked pipeline
  requires every requested name to be observed, so its explained absence is unreachable and a session with one
  suspended name cannot be ingested. A name absent from today's list and not delisted counts as not listed.
* **Installer.** On failure the copy and the hook merge unlink their private staging name by path, though the
  recovery comment says a staging name is never unlinked. The comment of `save_state` says the state in memory is
  preserved when the replace fails (`installer-transaction.py:76-78`); the copy that does it may fail as well.

## 4. Fairness

* `ResearchRun`: `WF_vars(Run(r))`, a process that is neither faulted nor crashed goes on, and
  `WF_vars(Execute(r))`, the operator executes the run again until it has a result. Faults and crashes
  have no fairness and are bounded, so they end.
* `PaperPublication`: `WF_vars(Run(r))` per runner and `WF_vars(Retry)`: a stage that has not passed
  is started again by someone. An interruption is possible only while another attempt is left (a bound:
  otherwise the last attempt could be killed and nothing would follow).
* `StageChain`: `WF_vars(Step(r))`, and `SF_vars(Execute(r, a))` for each kind of arguments: execution is enabled
  only between two executes, and an operator who fixes the arguments of a run that failed does it repeatedly.
* `WriteOnce`: `WF_vars(Step(w))` and `WF_vars(Start(w))`: a publication that was interrupted is tried again.
* `BarWindow`: weak fairness of the steps of the script, of `Start` (the command is run again and resumes), and
  of `Fetch`, a request that is answered in full; partial and failing answers are bounded.
* The others claim no liveness and assume no fairness.

Every liveness property names what retry does *not* help against. `RunEnds` and `StageEnds`: a directory left
without its document, a failed `resolve_request`, a decision partition left without its manifest, documents
that refuse a date or disagree with an earlier attempt's. `ChainEnds`: the five wedges above. `PublicationEnds`:
stores that write in place, and the review or artifact that lacks the other half (`InPlace`, `OpenReview`,
`Debris`), after an interruption only. `WindowEnds`: sessions one of whose requests has no name the vendor holds, which
the source takes for a failure.

## 5. The proofs

All theorems are for every value of the constants. What they assume are the named `ASSUME`s of the
modules, which TLC evaluates in every run: sizes are natural numbers, lots and denominators positive, initial locks
within the initial quantity, decision dates numbers, `Refused` a set of dates and documents, bounds are counts, snapshots finitely many, and
of markets, configs, policies and candidates the ranges that schemas and entry checks give their fields. `RiskAssumption` adds that
a grain is within the tolerance, as 1e-12 is within 1e-8. One is more than ranges. `WorldAssumption` (`BarWindow`) says that no name is a member of a universe
before it is listed (`NoneTooEarly`), and that what an exchange list or a notice says is true
(`ListsAreTrue`); lists and notices may be incomplete. `StoresAssumption` only says that the stores looked at are
stores. `FeesBelowValue` is a hypothesis of one theorem, below.

**PaperProofs: execution.** `StagesAgree` is not inductive: that the engine accepts the planner's rows
depends on how the planner bounded them several actions earlier. `IInv` adds that the book's locks are
within its quantities (`BookSound`), that a sell row is within what the *engine* may sell and nets no
loss (`RowsSound`), that rows not yet reached are untouched (`RowsFresh`) and that the purse moved
only because something was bought or sold (`PurseExplained`). `Invariance`, `TypeCorrect` and
`StagesAlwaysAgree` follow; `LedgerRefinement` maps `BuildState` to `Rebalance` and every other step to a
stutter; `SessionSafety` proves `SoldWithinHeldAtOpen` under the hypothesis that no initial book
declares a lock. `HoldingsAreCarried` (`CarryKeepsStageAlive`) needs `MarksSound`: from the first book on, everything
held has a mark, and so will everything that a settled date leaves held. `PlannedBuysAreFunded` (`FundedBuysFill`) is about two
passes over the same rows with different prices and fees: `FundingSound` says that a ledger of partial sums
explains the planner's purse at its cursor, and that the engine's purse lies on or above the same ledger as long
as every planned sell was filled. That at each row the engine pays no more, and a filled sell brings
no less, than the planner reckoned is in lemmas about fees and lots.

**ResearchProofs: the run.** For any number of runners, `IInv` ties what a runner has folded or is about to
write to the outputs that exist; outputs only grow, so others cannot invalidate it: `Backing`,
`PassedBacked`, `ResultBacked`, `TypeCorrect`. These cover overlapping executes, which no run does. For a single
runner (hypothesis `Runners = {r}`), `SoloInv` adds that everything behind the runner has passed and that the
stage a failure is filed under has no document: `SoloInvariance`, `ResultEarned`, `PassedStaysPassed`,
`PromiseKept` (the refinement of `RunLedger`; its step counts passed stages with the cardinality lemmas of the
library). With two runners the last two are false.

**RiskProofs: loss control.** `IInv` (`LossInvariance`) says of the held state and of the draft that the log is numbered without
a gap, tells the episode flag and the last trigger, and is spaced; `Told` is what makes spacing
inductive, since the code looks at the cooldown date and not at the log. `Spacing`,
`BreachGuarded` (with the invariant `Guarded` of the draft) and `OnlyRecoveryClears` follow.

**PaperProofs: publication.** The chain properties are about what is on disk, the steps about what a
runner has in memory. `Course(r)` says that what an attempt holds is what the stores hold up to its
place, that its decision is durable from the check on, and that its review is there before the rename.
Everything on disk grows only (`Grows`), so a runner's `Course` survives every step of the others
(`OthersCourse`); what is left is the runner's own step, one lemma per action, and `InstallShared`, the
only step that has to re-establish the chain. `PublicationInvariance`, `Judged`, `Executable`, `Decided`,
`Refinement`.

**InstallerTransactionProofs.** `OwnerIsKept`: for any number of commands, runs and interventions, bytes the owner
wrote and did not give up keep a name that no command cleans up. The property is inductive with the type
invariant because it asks for a name that is not a staging name: a command only ever removes
staging names, rollback and exchange give every inode they touch another such name in the same step, and
only the owner's own steps give bytes up. One lemma per kind of step, `OwnerIsKept`. The journal needs more: `JInv` is
`AtRest` (what the journal in memory, the journal on disk and the names in the directory say of each other between two
commands) and `UnderWay` (what the command in hand carries at each of its steps: what it saw before, what it made
and not yet named, what the exchange moved out). `WritesAreOnRecord` (`EvidenceOfWrites`) follows from the order of
save and link, and, for a made directory, from what each way out of a failed save leaves: on a disk that refuses the
journal and its emergency copy that is a message and no file; `AppliedWasConfirmed` (`AppliedIsConfirmed`) from the version that was swapped out being looked at
once more before the operation is marked.

**ResearchProofs: training inputs.** `FilterAgrees` compares two readings of the index: the filter goes by the date a snapshot
became visible, the store by as-of date, and `MaxIsGreatest` for finite sets of days makes both name one
snapshot. `TrainingIInv` is the type invariant, what is true of each stored label set, sample and preprocessing when it
is published (`StoresSound`; all grow, so it stays true), and what the run in hand has read of them (`StageSound`).
`RowsAreTrainable`, `TransformSeesTheTrainedRows`, `PurgeStopsLeaks` and `PreparedRequestIsNeverRefused` follow: the five
properties of `TrainingRun`, for every window, horizon, split, and order of arrivals.

**RiskProofs: gate.** Two invariants of independent parts. `StageSound`: every partition in the store is `Built`, one that the
builder makes of the facts of its date and of a partition in the store for the date before, within the limits name by name and
in sum but for what rounding has added since the first date; no date has two partitions, and those of this attempt are in the
store. The builder makes one thing of the same arguments (`BuildIsOne`), so `AttemptsResume` follows, and no second generation
arises. `BuiltTargetsAreAllowed` follows a weight
through reserve, industry caps and blend. The first two only shrink names and sums (`ReserveIsLeft`,
`IndustriesOnlyShrink`). A share of the blend stays between two weights that are within the limits (`ShareIsBetween`); rounding moves it
by half a grain at most and past no multiple of the grain (`NearestIs`), so that single names keep their cap, a
sum grows by half a grain for each name (`BlendedSum`), and the moves exceed the turnover by what the names stray, half a
grain each or the tolerance when dropped (`BlendIs`, `StraySum`, `BlendedMoves`). The gate's own metrics, rounded once
more, compare with the limits eased by just that (`MetricsPass`). `GateSound`: the
verdict in hand is the decision of the call's policy, filed before the engine goes on, and a trade is what its
filed verdict leaves. `TradesAreAllowed` needs of the operators that a block outranks a resize among failed
order rules (`ResizeMeansNoBlock`), that a rule which fails for fewer shares fails for more (`FailuresGrow`), and
that what one rule leaves passes that rule after lots, slippage and what may be sold (`AllowedPasses`).

**BacktestProofs.** `IInv` has one part per subject: ranges (`MarketSound`, `BookSound`, `ClaimsSound`), what is held or due
has a price (`Priced`), where the dates put every event (`Dated`), what arrived today is still there while its order
waits (`Settled`), and how far references lag (`Fresh`). Each action has one lemma per part. `ClaimsAreOnTime`,
`ReferenceIsLastClose` and `InventoryIsSettled` follow; the last, for contracts 1 and 2, under `FeesBelowValue`: their
schemas bound neither commission nor stamp duty from above, and only the chronological engine refuses a sell that
would drive cash negative. `BuysAreWithinLimits` is the deepest: a buy is cut to one limit after the other and none is
looked at again, so it needs that a smaller quantity keeps every limit a larger one kept (costs included), and that
the halving returns an allowed quantity. `FollowsTheLedger` is the refinement of `DividendLedger`.

**WriteOnceProofs.** Forty-seven programs, one argument per kind. What each program owes its kind is read off the
data: `EveryMoveIsWhole` (the subject appears by one rename or link of what is whole) and
`EveryDirectoryIsMadeOnce` (the directory is made once and filled in place by whoever made it). The machine is
then reasoned about by the *effect* of a step and not by its verb. `PublicationSound` ties the place of each writer in
its program to what is on disk, and to whether that writer is the one the name belongs to. No conjunct is about the lock:
`SuccessIsOnDisk` (`PassedIsOnDisk`) and `AcceptedIsKept` (`AcceptedStays`) rest on the
rename, the link and the mkdir, each of which takes a name once, so they hold for any number of writers, of exceptions
and of crashes even where the flock is missing. The exceptions in the two properties (`InPlace`, `OpenReview`,
`LastWins`) are the stores whose programs do not have the shape.

**BarWindowProofs.** The gate is a function of what is on disk, so `TrainableOnly` (`ReadyIsTrainable`) needs no
induction: whatever put the rows there, each excuse the gate grants follows from true evidence. That ingest and
gate agree does need one: `WindowSound` ties the run to the calendar, the request to the run's window and tail, and a partition
answered whole to the request that made it; `FullWindowReady` (`FullWindowIsReady`) then follows name by name.
`VerifiedOnly` (`VerifiedRows`) is an invariant by itself. The proof corrected the model once: `ReadyIsTrainable`
used to conclude from an excuse as *delisted* that the name had no row in the whole window, which the code does not ensure;
it asks for no row on a session on which the name was required. `DailyRun` has horizon 2 and the world `Lapse` since, in
which the two differ.

**StageChainProofs.** A stage is judged by what the stages before it have recorded, and a record does not change once
it is there, since a stage that has passed is skipped. What an execute goes by it has from three places: its plan, the
memory of its adapters, and what the stage under way has bound. `Lineage` ties each of the three to the
records, at every place an execute can be at: `StageDone` says what a record must be given those before it,
`Way` that the plan holds what is recorded behind the runner, `OutSound` that the dates bound so far are the first
ones and follow from one another, `MemorySound` that an adapter remembers what is recorded or nothing. A retry
folds the records and restores the memory from them (`RestoredIsSound`), so it makes no difference which attempt, of
which process, made what (`LineageInvariance`). `OneRunnerOneLineage` (`ResultIsOneLineage`) and
`OneRunnerEveryDate` (`EveryDateReachesResult`) follow, since the result lists the records. Bindings come in lists as
long as there are dates: what `Selected`, `ApplyBindings`, `ByDate`, `LatestBinding` and `Listed` do to a list of any length
is proved first, by taking the least place at which it would be otherwise (`LeastNat`). The theorems have the
hypothesis `Runners = {r}`; with two runners `ResultIsOneLineage` is violated (section 3), because one
of them can overwrite the record that the other has folded.

The sums of portfolio and book are folds of the library over a recursive function. What such a fold adds up to is
proved by induction over finite sets, stated with a set in place of a predicate (`NatSetInduction`,
`SubsetInduction`), which keeps it within first-order logic; the library's induction theorems take an
operator and cannot be used. `BacktestProofs` and `RiskProofs` both need these lemmas and each has them, since a
module may extend only one of the two systems.

Proved without a run that checks them: the inductive invariants, the type invariants (`TypeCorrect`), `ResultEarned`,
`PassedStaysPassed`, `OnlyRecoveryClears`, `Executable`, `Decided`, `RemainderIsAllowed`.

Only model-checked: `RunEnds`, `StageEnds`, `ChainEnds`, `PublicationEnds` and `WindowEnds`, which are
liveness under fairness and so out of the prover's reach, as is `ENABLED`. Every invariant and every action property
of a passing run is proved, and so is every refinement; where a theorem has a hypothesis (one runner, no initial
lock, fees below value), it is named above.

## 6. What is abstracted, and what is not modelled

Everywhere: canonical hashes are injective; signatures, schemas and checksums of intact files verify.
Documents' contents beyond what the properties tell apart, texts of errors, logging and fsync are left
out. A power failure that loses a rename is not modelled; a kill of the process is.

* `PaperPublication`: a report is signed afresh by every attempt; the `.tmp` name that two writers of one
  review would share is in `WriteOnce` (`Put`) instead; staging directories a crash leaves are invisible to
  readers; `_verify_template_bindings`, the market source, indexed reads are left out.
* `PaperExecution`: prices, weights and NAV are integers; floats enter the code only through
  quantities that are rounded to lots and money that is rounded to the fee precision.
* `ResearchRun`: what a stage computes, and the lookups of the request resolver.
* `StageChain`: the state of a stage appears at once (its directory protocol is `ResearchRun`), other stores
  write atomically (their protocols are `WriteOnce`), inputs do not change once resolved, and reviews
  pass, except that a model run's may be signed afresh.
* `TrainingInputs`: version 5 stands for versions 4 and 5, version 6 for 6 to 8; the output of a transform is its
  cross-section; factor partitions do not change; embargo is 0; one request per run; stores are not tampered with.
* `RiskGate`: weights are integers in units of what a float tells apart, a scaling rounds down to one, and the ratio of
  a blend is exact; findings are a set; a policy binds a membership whether it has an industry rule or not;
  `OwnLimits` binds the industries the builder went by, since nothing can be said of a policy that has others; the
  state documents a policy may require are left out; `instrument_count` is not bounded by `TopN`
  after a blend, as in the code.
* `Backtest`: the volatility target is one of the weights chosen; the previous close is the close of the
  session before; events that are refused at load and the summary metrics are left out.
* `WriteOnce`: a part is absent, torn or whole; what a refused input would be is an attempt that stops.
* `BarWindow`: two quotes are the same when they are within the tolerance of every rule; null fields, adjustment
  factors, limit fields, factor raw files, health probes, vendor formats and rate limits are left out; the
  roster and the evidence are truthful, and may be incomplete.
* `InstallerTransaction`: one path; staging names are private to the helper; a command that starts while the
  directory is moved away is not followed; argument parsing and the text of the configurations merged are left out.

Not modelled: numerics (factor formulas, covariance, training, inference, metrics, the adjustment chain of
prices), which compute over frames and keep no state; schema validation and canonical hashing, which are pure
functions; `telemetry.py` and the parsing of command lines; the scripts that freeze reviews and other repository
tooling, which act once on a clean checkout. Components that are "partly" in `PROJECT.json` say what is missing.

## 7. Plan

The modules of the plan are written, and every safety property and refinement that a passing run checks is proved. What
would come next: the theorems of `ResearchRun` and `StageChain` that need one runner, under a lock on the run, should the
code ever take one; and the type invariants of the modules whose proofs do not need them.
