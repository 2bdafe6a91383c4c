------------------------------ MODULE InputSets ------------------------------
(***************************************************************************)
(* The point-in-time sets a training request binds (index_membership.py,   *)
(* factors/partition_set.py, research_chain/membership_input.py), and the   *)
(* rows chosen from them (models/sample_construction.py). A store is a      *)
(* function from snapshot dates; a frame is a function from cells.          *)
(***************************************************************************)
EXTENDS LabelSets, FiniteSetsExt

CONSTANTS Window        \* the sessions of the research window

ASSUME WindowAssumption == Window # {} /\ Window \subseteq Sessions

Policies == {"fail_closed", "drop_incomplete_rows", "drop_unlabeled_rows"}

Visible(snapshots, day) == {s \in DOMAIN snapshots : snapshots[s].visible <= day}

\* The newest snapshot, by its date, that was visible on the day.
AsOf(snapshots, day) == Max(Visible(snapshots, day))

MembershipExists(snapshots) == \A d \in Window : Visible(snapshots, d) # {}

\* The snapshots some day of the window selects. Its digest is its content.
MembershipSet(snapshots) ==
  [s \in {AsOf(snapshots, d) : d \in Window} |-> snapshots[s]]

\* What the filter reads: of the set's entries that are visible, the one that
\* became visible last, and of several the one with the later date.
LastVisible(set, day) ==
  LET latest == Max({set[s].visible : s \in Visible(set, day)})
  IN  Max({s \in Visible(set, day) : set[s].visible = latest})

\* Mutant: the newest snapshot of the set, whether it was visible or not.
MembersOnNewest(set, day) == set[Max(DOMAIN set)].members

MembersOn(set, day) == set[LastVisible(set, day)].members

\* The window's factor partitions, each cut to the members of its day.
FilteredFrame(factors, set) ==
  [c \in {x \in DOMAIN factors : x[2] \in Window /\ x[1] \in MembersOn(set, x[2])} |-> factors[c]]

DaysOf(frame) == {c[2] : c \in DOMAIN frame}

Complete(frame) == {c \in DOMAIN frame : frame[c] # Null}

\* What each policy does to a null feature and to a null or absent label.
DropsFeatures(policy) == policy # "fail_closed"
DropsLabels(policy) == policy = "drop_unlabeled_rows"

Labelled(labels, c) == c \in DOMAIN labels /\ labels[c] # Null

Selected(frame, labels, policy) ==
  LET kept == IF DropsFeatures(policy) THEN Complete(frame) ELSE DOMAIN frame
  IN  IF DropsLabels(policy) THEN {c \in kept : Labelled(labels, c)} ELSE kept

\* Why select_training_sample refuses, or "none".
SelectionRefusal(frame, labels, policy) ==
  LET rows == Selected(frame, labels, policy)
  IN  IF \E c \in rows : frame[c] = Null THEN "null features"
      ELSE IF \E c \in rows : ~Labelled(labels, c) THEN "null or absent labels"
      ELSE IF rows = {} THEN "no training rows"
      ELSE "none"

Restricted(frame, rows) == [c \in rows |-> frame[c]]

\* Cross-sectional transforms: what a row becomes depends on the rows of its day.
CrossSection(frame, day) == {c[1] : c \in {x \in Complete(frame) : x[2] = day}}

\* A day of fewer than two values, or a key without an exposure, is refused.
TransformRefusal(frame, exposures, neutral) ==
  IF neutral /\ ~(DOMAIN frame \subseteq exposures) THEN "exposures"
  ELSE IF \E d \in DaysOf(frame) : Cardinality(CrossSection(frame, d)) < 2 THEN "too few observations"
  ELSE "none"

Transformed(frame) ==
  [c \in DOMAIN frame |-> IF frame[c] = Null THEN Null ELSE CrossSection(frame, c[2])]

\* Mutant: the embargo alone, which is none here, is kept between the splits.
SplitsValidEmbargoOnly(days, policy) ==
  /\ {policy.train.first, policy.train.last, policy.validation.first, policy.validation.last} \subseteq days
  /\ policy.validation.first > policy.train.last

\* SplitValidator over the days the frame has: the boundaries are among them, and
\* as many of them lie between the splits as the policy purges.
SplitsValid(days, policy) ==
  LET between == {d \in days : policy.train.last < d /\ d < policy.validation.first}
  IN  /\ {policy.train.first, policy.train.last, policy.validation.first, policy.validation.last} \subseteq days
      /\ policy.train.first <= policy.train.last
      /\ policy.validation.first <= policy.validation.last
      /\ policy.validation.first > policy.train.last
      /\ Cardinality(between) >= policy.purge + policy.embargo
=============================================================================
