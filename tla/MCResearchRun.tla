---------------------------- MODULE MCResearchRun ----------------------------
(***************************************************************************)
(* Instances of ResearchRun for TLC: where a transient error may strike.   *)
(***************************************************************************)
EXTENDS ResearchRun

\* Everywhere, or only where the request and the resolution are looked up.
Everywhere == Body \cup Handler
InRequest == {"open"}

FirstStage == {1}
=============================================================================
