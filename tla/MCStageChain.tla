---------------------------- MODULE MCStageChain ----------------------------
(***************************************************************************)
(* The hand-offs of a run with two decision dates out of three sessions.   *)
(***************************************************************************)
EXTENDS StageChain

Argument(uri, qlib, dates, file, risk) ==
  [uri |-> uri, qlib |-> qlib, dates |-> dates, file |-> file, risk |-> risk]

MCAttempts ==
  {Argument(1, 1, {}, {}, "none"), Argument(1, 1, {}, {}, "bound"),
   Argument(2, 2, {2, 3}, {2, 3}, "none"), Argument(1, 1, {1, 4}, {1, 4}, "none")}

\* A request that binds a risk decision, whose reviewer signs afresh, and one that
\* trades on paper.
MCRequests ==
  {[version |-> 2, allows |-> TRUE, afresh |-> TRUE],
   [version |-> 7, allows |-> TRUE, afresh |-> FALSE]}

\* An execute runs to its end, and executes with each kind of arguments are made
\* for as long as the run has no result.
FairSpec ==
  /\ Spec
  /\ \A r \in Runners : WF_vars(Step(r))
  /\ \A r \in Runners, a \in Attempts : SF_vars(Execute(r, a))
=============================================================================
