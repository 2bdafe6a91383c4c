---------------------------- MODULE TargetWeights ----------------------------
(***************************************************************************)
(* One rebalance of PortfolioBuilder.build (portfolio/builder.py): select,  *)
(* weigh, leave cash, cap industries, blend towards the weights before.     *)
(* A unit of Full is what a float tells apart, so that a scaling may round  *)
(* down; what exp, covariances and budgets make of the scores is any        *)
(* division of Full.                                                        *)
(***************************************************************************)
EXTENDS RiskEvaluation

CONSTANTS Names,        \* the instruments of the universe snapshot
          TopN,         \* scheme_parameters.n
          MaxSingle, MaxIndustry, MaxTurnover, Reserve   \* constraints

ASSUME WeightAssumption ==
  /\ IsFiniteSet(Names) /\ TopN \in Nat \ {0}
  /\ {MaxSingle, MaxIndustry, MaxTurnover, Reserve} \subseteq 0..Full

NoWeights == [x \in Names |-> 0]

\* The best TopN of the scored names; a tie goes to the smaller name.
Selections(scored) == {s \in SUBSET scored : Cardinality(s) = TopN}

\* Each scheme divides Full among the selected and caps the single name.
Capped(raw) == [x \in Names |-> Min({raw[x], MaxSingle})]

AfterReserve(w) ==
  LET most == Full - Reserve + Tolerance
  IN  IF Gross(w) > most THEN [x \in Names |-> (w[x] * most) \div Gross(w)] ELSE w

OfIndustry(w, label, industry) == [x \in {y \in Names : label[y] = industry} |-> w[x]]
CapsIndustry == MaxIndustry < Full

AfterIndustry(w, label) ==
  [x \in Names |->
    LET exposure == Gross(OfIndustry(w, label, label[x]))
    IN  IF CapsIndustry /\ exposure > MaxIndustry + Tolerance
        THEN (w[x] * MaxIndustry) \div exposure ELSE w[x]]

\* The blend moves every weight the same share of its way: moves times what it comes
\* to.  Each is rounded to the nearest twelfth decimal, and a small one is dropped.
Share(w, prev, moves, x) == prev[x] * moves + (w[x] - prev[x]) * 2 * MaxTurnover

AfterTurnover(w, prev) ==
  LET moves == Moves(w, prev)
      share(x) == Share(w, prev, moves, x)
  IN  IF moves <= 2 * (MaxTurnover + Tolerance) THEN w
      ELSE [x \in Names |-> IF share(x) > Tolerance * moves THEN Nearest(share(x), moves) ELSE 0]

\* An instrument without a label cannot be weighed against an industry cap.
Unlabelled(w, label) == CapsIndustry /\ \E x \in Names : w[x] > 0 /\ label[x] = "none"

\* Mutant: the final check of the blended weights is left out.
ConflictsNever(w, label) == Unlabelled(w, label)

\* Blending brings back what the industry cap took away.
Conflicts(w, label) ==
  CapsIndustry /\ ( Unlabelled(w, label) \/ IndustryWeight(w, label) > MaxIndustry + Tolerance )

\* The weights it builds, or nothing when it raises; prev is NoWeights and initial
\* is TRUE for the first partition of a run.
Build(selected, raw, label, prev, initial) ==
  LET scaled == AfterIndustry(AfterReserve(Capped(raw)), label)
      built == IF initial THEN scaled ELSE AfterTurnover(scaled, prev)
  IN  IF \/ CapsIndustry /\ \E x \in selected : label[x] = "none"
         \/ Conflicts(built, label)
      THEN {} ELSE {built}
=============================================================================
