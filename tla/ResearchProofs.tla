--------------------------- MODULE ResearchProofs ---------------------------
(***************************************************************************)
(* Proofs about a research run: what it is trained on, and the run itself. *)
(*                                                                         *)
(* TrainingInputs, for every window, every index history, every split and  *)
(* every order of publications, arrivals and delistings: the point-in-time *)
(* reading of the index, and what a published dataset holds.               *)
(*                                                                         *)
(* ResearchRun, whatever the number of its stages, faults, crashes and     *)
(* executes: under any number of overlapping runners, the outputs behind a *)
(* passed stage and behind the result; for one runner at a time, that a    *)
(* passed stage stays passed and a result is earned.                       *)
(***************************************************************************)
EXTENDS ResearchRun, TrainingInputs, FiniteSetTheorems, WellFoundedInduction, TLAPS

(* The greatest element of a finite set, and what is read as of a day.       *)

\* A set of days that is finite and not empty has a greatest, which Max names.
LEMMA MaxIsGreatest ==
  ASSUME NEW S \in SUBSET Nat, IsFiniteSet(S), S # {}
  PROVE  Max(S) \in S /\ \A y \in S : y <= Max(S)
<1> DEFINE Above(x) == {y \in S : y > x}
           Ups == {Above(x) : x \in S}
           Order == StrictSubsetOrdering(S)
<1>1. Ups \subseteq FiniteSubsetsOf(S) /\ Ups # {}
  <2>1. \A x \in S : Above(x) \in SUBSET S /\ IsFiniteSet(Above(x))
    BY FS_Subset
  <2> QED
    BY <2>1 DEF FiniteSubsetsOf
<1>2. \E U \in Ups : \A V \in Ups : ~(<<V, U>> \in Order)
  <2> HIDE DEF Ups, Order
  <2> QED
    BY <1>1, WFMin, FS_StrictSubsetOrderingWellFounded DEF Order
<1>3. PICK x \in S : \A V \in Ups : ~(<<V, Above(x)>> \in Order)
  BY <1>2
<1>4. ASSUME NEW y \in S, y > x
      PROVE  FALSE
  <2>1. Above(y) \subseteq Above(x)
    <3>1. x \in Nat /\ y \in Nat /\ y > x
      BY <1>4
    <3>2. ASSUME NEW z \in Above(y)
          PROVE  z \in Above(x)
      <4>1. z \in S /\ z \in Nat /\ z > y
        OBVIOUS
      <4> QED
        BY <3>1, <4>1
    <3> QED
      BY <3>2
  <2>2. y \in Above(x) /\ y \notin Above(y)
    BY <1>4
  <2>3. <<Above(y), Above(x)>> \in Order
    BY <2>1, <2>2 DEF StrictSubsetOrdering
  <2> QED
    BY <1>3, <2>3
<1>5. x \in S /\ \A y \in S : x >= y
  BY <1>4
<1> QED
  BY <1>5 DEF Max

\* A store of snapshots: of the dates it has, what the index published.
IsStore(st) ==
  /\ DOMAIN st \subseteq DOMAIN Arriving
  /\ st = [s \in DOMAIN st |-> Arriving[s]]

LEMMA StoreVisible ==
  ASSUME NEW st, IsStore(st), NEW d \in Nat
  PROVE  /\ Visible(st, d) = {s \in DOMAIN st : Arriving[s].visible <= d}
         /\ Visible(st, d) \in SUBSET Nat /\ IsFiniteSet(Visible(st, d))
<1>1. Visible(st, d) = {s \in DOMAIN st : Arriving[s].visible <= d}
  BY DEF IsStore, Visible
<1>2. Visible(st, d) \in SUBSET DOMAIN Arriving
  BY <1>1 DEF IsStore
<1> QED
  BY <1>1, <1>2, TrainingAssumption, FS_Subset

LEMMA AsOfIsNewestVisible ==
  ASSUME NEW st, IsStore(st), NEW d \in Nat, Visible(st, d) # {}
  PROVE  /\ AsOf(st, d) \in Visible(st, d) /\ AsOf(st, d) \in DOMAIN st /\ AsOf(st, d) \in Nat
         /\ Arriving[AsOf(st, d)].visible <= d
         /\ \A s \in Visible(st, d) : s <= AsOf(st, d)
BY StoreVisible, MaxIsGreatest, TrainingAssumption DEF AsOf

LEMMA WindowDays == \A d \in Window : d \in Sessions /\ d \in Nat
BY WindowAssumption, LabelAssumption

\* The set of a store is a store, and selects on every day what the store selects.
LEMMA SetOfStore ==
  ASSUME NEW st, IsStore(st), MembershipExists(st)
  PROVE  /\ IsStore(MembershipSet(st)) /\ MembershipExists(MembershipSet(st))
         /\ DOMAIN MembershipSet(st) \subseteq DOMAIN st
         /\ \A d \in Window : AsOf(MembershipSet(st), d) = AsOf(st, d)
         /\ MembershipSet(MembershipSet(st)) = MembershipSet(st)
<1> DEFINE set == MembershipSet(st)
<1>1. \A d \in Window : d \in Nat /\ Visible(st, d) # {}
  BY WindowDays DEF MembershipExists
<1>2. \A d \in Window : AsOf(st, d) \in DOMAIN st /\ AsOf(st, d) \in Visible(st, d)
  BY <1>1, AsOfIsNewestVisible
<1>3. DOMAIN set = {AsOf(st, d) : d \in Window}
  BY DEF MembershipSet
<1>4. DOMAIN set \subseteq DOMAIN st
  BY <1>2, <1>3
<1>5. IsStore(set)
  BY <1>3, <1>4 DEF IsStore, MembershipSet
<1>6. ASSUME NEW d \in Window
      PROVE  AsOf(st, d) \in Visible(set, d) /\ Visible(set, d) \subseteq Visible(st, d)
  BY <1>1, <1>2, <1>3, <1>4, <1>5, StoreVisible
<1>7. MembershipExists(set)
  BY <1>6 DEF MembershipExists
<1>8. ASSUME NEW d \in Window
      PROVE  AsOf(set, d) = AsOf(st, d)
  <2>1. d \in Nat /\ Visible(st, d) # {} /\ Visible(set, d) # {}
    BY <1>1, <1>6
  <2>2. AsOf(set, d) \in Nat /\ AsOf(set, d) \in Visible(st, d) /\ AsOf(st, d) <= AsOf(set, d)
    BY <1>5, <1>6, <2>1, AsOfIsNewestVisible
  <2>3. AsOf(st, d) \in Nat /\ AsOf(set, d) <= AsOf(st, d)
    BY <2>1, <2>2, AsOfIsNewestVisible
  <2> QED
    BY <2>2, <2>3
<1>9. MembershipSet(set) = set
  <2>1. {AsOf(set, d) : d \in Window} = DOMAIN set
    BY <1>3, <1>8
  <2> QED
    BY <2>1 DEF MembershipSet
<1> QED
  BY <1>4, <1>5, <1>7, <1>8, <1>9

\* The filter goes by the day an entry became visible and the store by its date:
\* on the entries the window selects, the two choose the same one.
LEMMA LastVisibleIsAsOf ==
  ASSUME NEW st, IsStore(st), MembershipExists(st), NEW d \in Window
  PROVE  /\ LastVisible(MembershipSet(st), d) = AsOf(st, d)
         /\ MembersOn(MembershipSet(st), d) = Arriving[AsOf(st, d)].members
<1> DEFINE set == MembershipSet(st)
           seen == Visible(set, d)
           days == {set[s].visible : s \in seen}
           last == {s \in seen : set[s].visible = Max(days)}
           L == LastVisible(set, d)
           A == AsOf(st, d)
<1>1. d \in Nat /\ IsStore(set) /\ MembershipExists(set) /\ AsOf(set, d) = A
  BY SetOfStore, WindowDays
<1>2. \A s \in DOMAIN set : set[s] = Arriving[s] /\ s \in Nat /\ set[s].visible \in Nat
  BY <1>1, TrainingAssumption DEF IsStore
<1>3. /\ seen = {s \in DOMAIN set : Arriving[s].visible <= d} /\ IsFiniteSet(seen)
      /\ seen # {} /\ seen \in SUBSET Nat
  BY <1>1, StoreVisible DEF MembershipExists
<1>4. A \in seen /\ A \in Nat /\ \A s \in seen : s <= A
  BY <1>1, <1>3, AsOfIsNewestVisible
<1>5. days \in SUBSET Nat /\ days # {} /\ IsFiniteSet(days)
  <2>1. days \in SUBSET Nat /\ days # {}
    BY <1>2, <1>3
  <2>2. \A v \in days : v <= d
    BY <1>2, <1>3
  <2> QED
    BY <1>1, <2>1, <2>2, FS_BoundedSetOfNaturals
<1>6. Max(days) \in days /\ \A v \in days : v <= Max(days)
  BY <1>5, MaxIsGreatest
<1>7. last \in SUBSET Nat /\ last # {} /\ IsFiniteSet(last)
  <2>1. last \in SUBSET seen
    OBVIOUS
  <2>2. last # {}
    BY <1>6
  <2> QED
    BY <1>3, <2>1, <2>2, FS_Subset
<1>8. L \in last /\ L \in Nat
  <2>1. L = Max(last)
    BY DEF LastVisible
  <2> HIDE DEF L, last
  <2> QED
    BY <1>7, <2>1, MaxIsGreatest
<1>9. L \in seen /\ L <= A /\ Arriving[A].visible <= Arriving[L].visible
  <2>1. L \in seen /\ set[L].visible = Max(days)
    BY <1>8
  <2>2. set[A].visible \in days
    BY <1>4
  <2>3. set[A].visible <= Max(days)
    BY <1>6, <2>2
  <2> QED
    BY <1>2, <1>3, <1>4, <2>1, <2>3
<1>10. PICK e \in Window : L = AsOf(st, e)
  BY <1>3, <1>9 DEF MembershipSet
<1>11. ASSUME L # A
       PROVE  FALSE
  <2>1. e \in Nat /\ Visible(st, e) # {}
    BY WindowDays DEF MembershipExists
  <2>2. Arriving[L].visible <= e /\ \A s \in Visible(st, e) : s <= L
    BY <1>10, <2>1, AsOfIsNewestVisible
  <2>3. A \in DOMAIN st
    BY <1>1, AsOfIsNewestVisible DEF MembershipExists
  <2>4. Arriving[A].visible \in Nat /\ Arriving[L].visible \in Nat
    BY <1>2, <1>3, <1>4, <1>9
  <2>5. Arriving[A].visible <= e
    BY <1>9, <2>1, <2>2, <2>4
  <2>6. A \in Visible(st, e)
    BY <2>1, <2>3, <2>5, StoreVisible
  <2> QED
    BY <1>4, <1>8, <1>9, <1>11, <2>2, <2>6
<1>12. L = A
  BY <1>11
<1> QED
  BY <1>2, <1>3, <1>4, <1>12 DEF MembersOn

\* A later store has what an earlier one had; what both ends of a stretch of
\* arrivals select, every store between them selects.
LEMMA SameSetBetween ==
  ASSUME NEW set, IsStore(set), MembershipExists(set), MembershipSet(set) = set,
         NEW st, IsStore(st), DOMAIN set \subseteq DOMAIN st,
         NEW later, IsStore(later), DOMAIN st \subseteq DOMAIN later
  PROVE  /\ MembershipExists(st) /\ MembershipExists(later)
         /\ MembershipSet(later) = set => MembershipSet(st) = set
<1>1. \A d \in Window :
        d \in Nat /\ Visible(set, d) # {} /\ Visible(set, d) \subseteq Visible(st, d)
          /\ Visible(st, d) \subseteq Visible(later, d)
  BY WindowDays, StoreVisible DEF MembershipExists
<1>2. MembershipExists(st) /\ MembershipExists(later)
  BY <1>1 DEF MembershipExists
<1>3. ASSUME MembershipSet(later) = set
      PROVE  MembershipSet(st) = set
  <2>1. ASSUME NEW d \in Window
        PROVE  AsOf(st, d) = AsOf(set, d)
    <3>1. AsOf(set, d) = AsOf(later, d)
      BY <1>2, <1>3, SetOfStore
    <3>2. /\ AsOf(set, d) \in Visible(st, d)
          /\ AsOf(st, d) \in Visible(later, d)
          /\ AsOf(set, d) \in Nat /\ AsOf(st, d) \in Nat
      BY <1>1, AsOfIsNewestVisible
    <3>3. AsOf(set, d) <= AsOf(st, d) /\ AsOf(st, d) <= AsOf(later, d)
      BY <1>1, <3>2, AsOfIsNewestVisible
    <3> QED
      BY <3>1, <3>2, <3>3
  <2>2. {AsOf(st, d) : d \in Window} = {AsOf(set, d) : d \in Window}
    BY <2>1
  <2>3. \A d \in Window : st[AsOf(st, d)] = set[AsOf(set, d)]
    <3>1. \A d \in Window : AsOf(set, d) \in DOMAIN set
      BY <1>1, AsOfIsNewestVisible
    <3> QED
      BY <2>1, <3>1 DEF IsStore
  <2>4. \A s \in {AsOf(st, d) : d \in Window} : st[s] = set[s]
    BY <2>1, <2>3
  <2> QED
    BY <2>2, <2>4 DEF MembershipSet
<1> QED
  BY <1>2, <1>3

-----------------------------------------------------------------------------
(* What the operators promise of frames, splits and labels.                 *)

LEMMA FilteredRows ==
  ASSUME NEW st, IsStore(st), MembershipExists(st),
         NEW factors, DOMAIN factors \subseteq Cells,
         NEW c \in DOMAIN FilteredFrame(factors, MembershipSet(st))
  PROVE  /\ c \in Cells /\ c[2] \in Window
         /\ c[1] \in Arriving[AsOf(MembershipSet(st), c[2])].members
<1>1. c \in DOMAIN factors /\ c[2] \in Window /\ c[1] \in MembersOn(MembershipSet(st), c[2])
  BY DEF FilteredFrame
<1> QED
  BY <1>1, LastVisibleIsAsOf, SetOfStore

\* Without a missing value, a day's cross-section is the rows of the day.
LEMMA TransformOfComplete ==
  ASSUME NEW frame, DOMAIN frame \subseteq Cells, \A c \in DOMAIN frame : frame[c] # Null
  PROVE  /\ DOMAIN Transformed(frame) = DOMAIN frame
         /\ \A c \in DOMAIN frame :
              /\ Transformed(frame)[c] = {x[1] : x \in {y \in DOMAIN frame : y[2] = c[2]}}
              /\ Transformed(frame)[c] # Null
<1>1. Complete(frame) = DOMAIN frame
  BY DEF Complete
<1>2. ASSUME NEW c \in DOMAIN frame
      PROVE  /\ Transformed(frame)[c] = {x[1] : x \in {y \in DOMAIN frame : y[2] = c[2]}}
             /\ Transformed(frame)[c] # Null
  <2>1. Transformed(frame)[c] = CrossSection(frame, c[2])
    BY <1>2 DEF Transformed
  <2>2. CrossSection(frame, c[2]) = {x[1] : x \in {y \in DOMAIN frame : y[2] = c[2]}}
    BY <1>1 DEF CrossSection
  <2>3. \A y \in DOMAIN frame : y[1] \in Names
    BY DEF Cells
  <2>4. CrossSection(frame, c[2]) \in SUBSET Names
    BY <2>2, <2>3
  <2> QED
    BY <2>1, <2>2, <2>4, TrainingAssumption
<1> QED
  BY <1>2 DEF Transformed

\* As many days as the policy purges lie between the splits.
LEMMA SplitsKeepPurge ==
  ASSUME NEW days \in SUBSET Nat, NEW split \in SplitPolicies, SplitsValid(days, split)
  PROVE  split.train.last + split.purge + split.embargo + 1 <= split.validation.first
<1> DEFINE lo == split.train.last
           hi == split.validation.first
           between == {d \in days : lo < d /\ d < hi}
<1>1. /\ lo \in Nat /\ hi \in Nat /\ split.purge \in Nat /\ split.embargo \in Nat
      /\ hi > lo /\ Cardinality(between) >= split.purge + split.embargo
  BY TrainingAssumption DEF SplitsValid
<1>2. between \in SUBSET ((lo + 1)..(hi - 1))
  <2>1. ASSUME NEW d \in between
        PROVE  d \in (lo + 1)..(hi - 1)
    <3>1. d \in Nat /\ lo < d /\ d < hi
      OBVIOUS
    <3> HIDE DEF lo, hi, between
    <3> QED
      BY <1>1, <3>1
  <2> QED
    BY <2>1
<1> HIDE DEF lo, hi, between
<1>3. /\ IsFiniteSet((lo + 1)..(hi - 1))
      /\ Cardinality((lo + 1)..(hi - 1)) = IF lo + 1 > hi - 1 THEN 0 ELSE (hi - 1) - (lo + 1) + 1
  <2>1. lo + 1 \in Int /\ hi - 1 \in Int
    BY <1>1
  <2> QED
    BY <2>1, FS_Interval
<1>4. /\ IsFiniteSet(between) /\ Cardinality(between) \in Nat
      /\ Cardinality(between) <= Cardinality((lo + 1)..(hi - 1))
  BY <1>2, <1>3, FS_Subset, FS_CardinalityType
<1>5. Cardinality((lo + 1)..(hi - 1)) = (hi - lo) - 1
  BY <1>1, <1>3
<1>6. split.purge + split.embargo <= (hi - lo) - 1
  BY <1>1, <1>4, <1>5
<1>7. lo + split.purge + split.embargo + 1 <= hi
  BY <1>1, <1>6
<1> QED
  BY <1>7 DEF lo, hi

\* A label says the session whose close it reads, or nothing.
LabelsRead(set) ==
  \A c \in DOMAIN set.frame : c \in Cells /\ set.frame[c] \in {Null, c[2] + Horizon}

LEMMA LabelSetReads ==
  ASSUME NEW bars, DOMAIN bars \subseteq Cells, NEW calendar, NEW live, NEW left, NEW wanted
  PROVE  LabelsRead(LabelSet(bars, calendar, live, left, wanted))
BY DEF LabelsRead, LabelSet, LabelFrame, BarsOf, LabelValue

-----------------------------------------------------------------------------
(* The inductive invariant: what each store holds, and what the request      *)
(* binds, which the index goes on from.                                      *)

SampleSound(sample) ==
  /\ sample.days = Window
  /\ DOMAIN sample.frame # {} /\ DOMAIN sample.frame \subseteq Cells
  /\ \A c \in DOMAIN sample.frame :
       /\ c[1] \in Arriving[AsOf(sample.membership, c[2])].members
       /\ sample.frame[c] # Null
       /\ Labelled(sample.labels.frame, c)
       /\ c \in DOMAIN sample.label /\ sample.label[c] = sample.labels.frame[c]

PrepSound(prep) ==
  /\ prep.output = Transformed(prep.input)
  /\ prep.neutral => DOMAIN prep.input \subseteq world.exposures

\* The membership of a request is closed: it selects itself.
MembershipKept ==
  /\ IsStore(request.membership) /\ MembershipExists(request.membership)
  /\ MembershipSet(request.membership) = request.membership
  /\ DOMAIN request.membership \subseteq DOMAIN snapshots

RequestSound ==
  /\ request.version \in {5, 6} /\ request.policy \in Policies /\ request.split \in SplitPolicies
  /\ request.labels \in labelSets /\ request.prep \in preps
  /\ request.version = 6 => request.sample \in samples
  /\ MembershipKept

RowSound(c, label) ==
  /\ c \in Cells
  /\ c[1] \in Arriving[AsOf(request.membership, c[2])].members
  /\ Labelled(request.labels.frame, c) /\ label = request.labels.frame[c]

DatasetSound(d) ==
  /\ \A c \in DOMAIN d.frame :
       /\ RowSound(c, d.label[c])
       /\ d.frame[c] # Null
       /\ d.frame[c] = {x[1] : x \in {y \in DOMAIN d.frame : y[2] = c[2]}}
  /\ d.split = request.split /\ SplitsValid(DaysOf(d.frame), d.split)

StageSound ==
  /\ stage = "none" => datasets = {}
  /\ stage # "none" => RequestSound
  /\ stage \in {"passed", "exported"} => pending \in datasets
  /\ stage # "export refused"

StoresSound ==
  /\ IsStore(snapshots)
  /\ \A set \in labelSets : LabelsRead(set)
  /\ \A sample \in samples : SampleSound(sample)
  /\ \A prep \in preps : PrepSound(prep)
  /\ \A d \in datasets : DatasetSound(d)

TrainingIInv == TrainingTypeOK /\ StoresSound /\ StageSound /\ PreparedRequestRuns

\* What the properties read of a step that touches neither the request nor the index.
LEMMA WorldIsKeyed ==
  ASSUME TrainingTypeOK
  PROVE  DOMAIN world.bars \subseteq Cells /\ DOMAIN world.factors \subseteq Cells
BY TrainingAssumption DEF TrainingTypeOK

LEMMA InitHolds == TrainingInit => TrainingIInv
<1> SUFFICES ASSUME TrainingInit PROVE TrainingIInv
  OBVIOUS
<1>1. IsStore(snapshots)
  BY TrainingAssumption DEF TrainingInit, IsStore
<1>2. stage = "none" /\ datasets = {} /\ samples = {} /\ preps = {} /\ labelSets = {}
  BY DEF TrainingInit
<1> QED
  BY <1>1, <1>2, TrainingAssumption
  DEF TrainingInit, TrainingIInv, TrainingTypeOK, Stages, StoresSound, StageSound, PreparedRequestRuns

\* While the request stands, a dataset that was sound stays so.
LEMMA DatasetsStay ==
  ASSUME request' = request, NEW d, DatasetSound(d)
  PROVE  DatasetSound(d)'
BY DEF DatasetSound, RowSound

LEMMA PublishSnapshotKeeps ==
  ASSUME TrainingIInv, NEW s \in DOMAIN Arriving, PublishSnapshot(s)
  PROVE  TrainingIInv'
<1>1. IsStore(snapshots) /\ IsStore(snapshots)' /\ DOMAIN snapshots \subseteq DOMAIN snapshots'
  BY DEF TrainingIInv, StoresSound, IsStore, PublishSnapshot
<1>2. TrainingTypeOK'
  BY DEF TrainingIInv, TrainingTypeOK, PublishSnapshot, stores
<1>3. StoresSound'
  BY <1>1 DEF TrainingIInv, StoresSound, PublishSnapshot, stores, SampleSound, PrepSound, DatasetSound, RowSound
<1>4. StageSound'
  BY <1>1 DEF TrainingIInv, StageSound, RequestSound, MembershipKept, PublishSnapshot, stores
<1>5. PreparedRequestRuns'
  <2>1. SUFFICES ASSUME FromOneSample', stage' = "refused" PROVE FALSE
    BY DEF PreparedRequestRuns
  <2>2. stage = "refused" /\ request' = request
    BY <2>1 DEF PublishSnapshot
  <2>3. MembershipKept
    BY <2>2 DEF TrainingIInv, StageSound, RequestSound
  <2>4. MembershipSet(snapshots') = request.membership
    BY <2>1, <2>2 DEF FromOneSample
  <2>5. MembershipSet(snapshots) = request.membership
    BY <1>1, <2>3, <2>4, SameSetBetween DEF MembershipKept
  <2>6. FromOneSample
    BY <2>1, <2>2, <2>4, <2>5 DEF FromOneSample
  <2> QED
    BY <2>2, <2>6 DEF TrainingIInv, PreparedRequestRuns
<1> QED
  BY <1>2, <1>3, <1>4, <1>5 DEF TrainingIInv

\* A publication adds to its store and leaves the request and the index alone.
LEMMA PublicationKeeps ==
  ASSUME TrainingIInv, UNCHANGED <<world, snapshots, datasets, request, stage, pending>>,
         labelSets \subseteq labelSets', samples \subseteq samples', preps \subseteq preps',
         \A set \in labelSets' \ labelSets : LabelsRead(set),
         \A sample \in samples' \ samples : SampleSound(sample),
         \A prep \in preps' \ preps : PrepSound(prep)
  PROVE  TrainingIInv'
<1>1. TrainingTypeOK' /\ PreparedRequestRuns'
  BY DEF TrainingIInv, TrainingTypeOK, PreparedRequestRuns, FromOneSample
<1>2. StageSound'
  BY DEF TrainingIInv, StageSound, RequestSound, MembershipKept
<1>3. \A d \in datasets' : DatasetSound(d)'
  BY DatasetsStay DEF TrainingIInv, StoresSound
<1>4. \A prep \in preps' : PrepSound(prep)'
  BY DEF TrainingIInv, StoresSound, PrepSound
<1>5. IsStore(snapshots)' /\ \A set \in labelSets' : LabelsRead(set)
  BY DEF TrainingIInv, StoresSound
<1>6. \A sample \in samples' : SampleSound(sample)
  BY DEF TrainingIInv, StoresSound
<1> QED
  BY <1>1, <1>2, <1>3, <1>4, <1>5, <1>6 DEF TrainingIInv, StoresSound, SampleSound

LEMMA BuildLabelSetsKeeps ==
  ASSUME TrainingIInv, NEW wanted, BuildLabelSets(wanted)
  PROVE  TrainingIInv'
<1> DEFINE set == LabelSet(world.bars, world.calendar, LiveNow, gone, wanted)
<1>1. LabelsRead(set)
  BY WorldIsKeyed, LabelSetReads DEF TrainingIInv
<1>2. labelSets' = labelSets \cup {set}
  BY DEF BuildLabelSets, PutLabelSet
<1> HIDE DEF set
<1> QED
  BY <1>1, <1>2, PublicationKeeps DEF BuildLabelSets, outside

LEMMA PublishSampleKeeps ==
  ASSUME TrainingIInv, NEW labels, NEW policy, PublishSample(labels, policy)
  PROVE  TrainingIInv'
<1> DEFINE sample == SampleOf(labels, policy)
           set == MembershipSet(snapshots)
           frame == FilteredFrame(world.factors, set)
           rows == Selected(frame, labels.frame, policy)
<1>1. /\ sample.membership = set /\ sample.labels = labels /\ sample.days = Window
      /\ sample.frame = Restricted(frame, rows) /\ sample.label = Restricted(labels.frame, rows)
  BY DEF SampleOf
<1>2. rows \subseteq DOMAIN frame
  BY DEF Selected, Complete
<1>3. DOMAIN sample.frame = rows /\ DOMAIN sample.label = rows
  BY <1>1 DEF Restricted
<1>4. SelectionRefusal(frame, labels.frame, policy) = "none" /\ MembershipExists(snapshots)
  BY DEF PublishSample
<1>5. rows # {} /\ \A c \in rows : frame[c] # Null /\ Labelled(labels.frame, c)
  BY <1>4 DEF SelectionRefusal
<1>6. \A c \in rows : c \in Cells /\ c[1] \in Arriving[AsOf(set, c[2])].members
  BY <1>2, <1>4, WorldIsKeyed, FilteredRows DEF TrainingIInv, StoresSound
<1>7. \A c \in rows : sample.frame[c] = frame[c] /\ sample.label[c] = labels.frame[c]
  BY <1>1 DEF Restricted
<1>8. SampleSound(sample)
  <2> HIDE DEF sample, set, frame, rows
  <2> QED
    BY <1>1, <1>3, <1>5, <1>6, <1>7 DEF SampleSound
<1>9. samples' = samples \cup {sample}
  BY DEF PublishSample, PutSample
<1> HIDE DEF sample
<1> QED
  BY <1>8, <1>9, PublicationKeeps DEF PublishSample, outside

LEMMA PublishPreprocessingKeeps ==
  ASSUME TrainingIInv, NEW frame, NEW days, NEW neutral, PublishPreprocessing(frame, days, neutral)
  PROVE  TrainingIInv'
<1> DEFINE prep == PreprocessingOf(frame, days, neutral)
<1>1. prep.input = frame /\ prep.output = Transformed(frame) /\ prep.neutral = neutral
  BY DEF PreprocessingOf
<1>2. neutral => DOMAIN frame \subseteq world.exposures
  BY DEF PublishPreprocessing, TransformRefusal
<1>3. preps' = preps \cup {prep}
  BY DEF PublishPreprocessing, PutPreprocessing
<1> HIDE DEF prep
<1>4. PrepSound(prep)
  BY <1>1, <1>2 DEF PrepSound
<1> QED
  BY <1>3, <1>4, PublicationKeeps DEF PublishPreprocessing, outside

LEMMA MakeRequestKeeps ==
  ASSUME TrainingIInv, NEW labels \in labelSets, NEW prep \in preps, NEW sample \in samples \cup {Null},
         NEW policy \in Policies, NEW split \in SplitPolicies, NEW version \in {5, 6},
         MakeRequest(version, labels, prep, sample, policy, split)
  PROVE  TrainingIInv'
<1>1. /\ stage = "none" /\ stage' = "requested" /\ datasets = {}
      /\ UNCHANGED <<world, gone, snapshots, labelSets, samples, preps, datasets, pending>>
  BY DEF TrainingIInv, StageSound, MakeRequest, outside, stores
<1>2. /\ request'.version = version /\ request'.labels = labels /\ request'.prep = prep
      /\ request'.sample = sample /\ request'.policy = policy /\ request'.split = split
      /\ request'.membership = MembershipSet(snapshots) /\ MembershipExists(snapshots)
      /\ version = 5 <=> sample = Null
  BY DEF MakeRequest
<1>3. MembershipKept'
  BY <1>1, <1>2, SetOfStore DEF TrainingIInv, StoresSound, MembershipKept
<1>4. RequestSound'
  <2>1. version = 6 => sample \in samples
    BY <1>2
  <2> QED
    BY <1>1, <1>2, <1>3, <2>1 DEF RequestSound
<1> QED
  BY <1>1, <1>4
  DEF TrainingIInv, TrainingTypeOK, Stages, StoresSound, PrepSound, StageSound, PreparedRequestRuns

\* Every input of a request that was prepared from one sample is as the stage reads it.
LEMMA PreparedVerifies ==
  ASSUME TrainingIInv, FromOneSample, stage # "none"
  PROVE  VerifyInputSets
<1>1. MembershipKept /\ IsStore(snapshots)
  BY DEF TrainingIInv, StageSound, RequestSound, StoresSound
<1>2. MembershipExists(snapshots)
  BY <1>1, SameSetBetween DEF MembershipKept
<1> QED
  BY <1>2 DEF VerifyInputSets, FromOneSample

LEMMA PreparedIsAccepted ==
  ASSUME TrainingIInv, FromOneSample, stage = "resolved"
  PROVE  StageAccepts
<1> DEFINE sample == request.sample
           prep == request.prep
<1>1. VerifyInputSets
  BY PreparedVerifies
<1>2. /\ request.version = 6 /\ sample \in samples /\ prep \in preps
      /\ SampleSound(sample) /\ PrepSound(prep)
  BY DEF TrainingIInv, StageSound, RequestSound, StoresSound, FromOneSample
<1>3. SampleMatches
  BY <1>2 DEF SampleMatches, SampleSound, FromOneSample
<1>4. StageRows = sample.frame
  BY <1>2 DEF StageRows
<1>5. prep.input = sample.frame /\ prep.output = Transformed(sample.frame) /\ prep.days = Window
  BY <1>2 DEF PrepSound, FromOneSample
<1>6. DOMAIN StageRows # {} /\ Exposed(StageRows) /\ Prepared(StageRows)
  BY <1>2, <1>4, <1>5 DEF SampleSound, PrepSound, Exposed, Prepared, Preprocessed
<1>7. \E c \in DOMAIN StageRows : LabelOf(c) # Null
  <2>1. PICK c \in DOMAIN sample.frame : TRUE
    BY <1>2 DEF SampleSound
  <2>2. c \in DOMAIN sample.label /\ sample.label[c] # Null
    BY <1>2 DEF SampleSound, Labelled
  <2>3. LabelOf(c) # Null
    BY <1>2, <2>2 DEF LabelOf
  <2> QED
    BY <1>4, <2>3
<1>8. NullsAllowed(DatasetOf(StageRows))
  BY <1>2 DEF NullsAllowed
<1>9. Attested(DatasetOf(StageRows), StageRows)
  BY <1>4, <1>5 DEF Attested, DatasetOf
<1>10. SplitsValid(DaysOf(StageRows), request.split)
  BY <1>4 DEF FromOneSample
<1> QED
  BY <1>1, <1>2, <1>3, <1>6, <1>7, <1>8, <1>9, <1>10 DEF StageAccepts

LEMMA ResolveKeeps ==
  ASSUME TrainingIInv, Resolve
  PROVE  TrainingIInv'
<1>1. /\ stage = "requested" /\ stage' \in {"resolved", "refused"}
      /\ UNCHANGED <<world, gone, snapshots, labelSets, samples, preps, datasets, request, pending>>
  BY DEF Resolve, outside, stores
<1>2. TrainingTypeOK' /\ StoresSound' /\ StageSound'
  <2>1. TrainingTypeOK'
    BY <1>1 DEF TrainingIInv, TrainingTypeOK, Stages
  <2>2. StoresSound'
    BY <1>1 DEF TrainingIInv, StoresSound, PrepSound, DatasetSound, RowSound
  <2>3. StageSound'
    BY <1>1 DEF TrainingIInv, StageSound, RequestSound, MembershipKept
  <2> QED
    BY <2>1, <2>2, <2>3
<1>3. PreparedRequestRuns'
  <2>1. FromOneSample' => FromOneSample
    BY <1>1 DEF FromOneSample
  <2> QED
    BY <1>1, <2>1, PreparedVerifies DEF PreparedRequestRuns, Resolve
<1> QED
  BY <1>2, <1>3 DEF TrainingIInv

\* The rows the stage takes, by either version and every policy.
LEMMA StageRowsSound ==
  ASSUME TrainingIInv, stage = "resolved", StageAccepts, NEW c \in DOMAIN StageRows
  PROVE  RowSound(c, LabelOf(c)) /\ StageRows[c] # Null
<1>1. /\ RequestSound /\ VerifyInputSets /\ IsStore(snapshots)
      /\ NullsAllowed(DatasetOf(StageRows))
  BY DEF TrainingIInv, StageSound, StoresSound, StageAccepts
<1>2. CASE request.version = 6
  <2>1. request.sample \in samples /\ SampleMatches
    BY <1>1, <1>2 DEF RequestSound, StageAccepts
  <2>2. SampleSound(request.sample)
    BY <2>1 DEF TrainingIInv, StoresSound
  <2>3. StageRows = request.sample.frame
    BY <1>2 DEF StageRows
  <2>4. LabelOf(c) = request.sample.label[c]
    BY <1>2, <2>2, <2>3 DEF LabelOf, SampleSound
  <2> QED
    BY <2>1, <2>2, <2>3, <2>4 DEF SampleSound, SampleMatches, RowSound
<1>3. CASE request.version = 5
  <2> DEFINE members == InUniverse(MemberRows)
             labels == request.labels.frame
  <2>1. DOMAIN members \subseteq DOMAIN MemberRows
    BY DEF InUniverse, Restricted
  <2>2. ASSUME NEW x \in DOMAIN members
        PROVE  x \in Cells /\ x[1] \in Arriving[AsOf(request.membership, x[2])].members
    BY <1>1, <2>1, FilteredRows, WorldIsKeyed DEF TrainingIInv, MemberRows, VerifyInputSets
  <2>3. LabelOf(c) = IF c \in DOMAIN labels THEN labels[c] ELSE Null
    BY <1>3 DEF LabelOf
  <2>4. Labelled(labels, c) <=> LabelOf(c) # Null
    BY <2>3 DEF Labelled
  <2>5. DatasetOf(StageRows).label[c] = LabelOf(c) /\ c \in DOMAIN DatasetOf(StageRows).label
    BY DEF DatasetOf
  <2>6. DatasetOf(StageRows).frame = Transformed(StageRows)
    BY DEF DatasetOf
  <2>7. CASE request.policy = "fail_closed"
    <3>1. StageRows = members
      BY <1>3, <2>7 DEF StageRows
    <3>2. LabelOf(c) # Null
      BY <1>1, <1>3, <2>5, <2>7 DEF NullsAllowed
    <3>3. Transformed(StageRows)[c] # Null
      <4>1. \A x \in DOMAIN DatasetOf(StageRows).frame : DatasetOf(StageRows).frame[x] # Null
        BY <1>1, <1>3, <2>7 DEF NullsAllowed
      <4> QED
        BY <4>1, <2>6 DEF Transformed
    <3>4. StageRows[c] # Null
      BY <3>3 DEF Transformed
    <3> QED
      BY <2>2, <2>3, <2>4, <3>1, <3>2, <3>4 DEF RowSound
  <2>8. CASE request.policy = "drop_incomplete_rows"
    <3>1. StageRows = Restricted(members, Complete(members))
      BY <1>3, <2>8 DEF StageRows
    <3>2. c \in DOMAIN members /\ StageRows[c] # Null
      BY <3>1 DEF Restricted, Complete
    <3>3. LabelOf(c) # Null
      BY <1>1, <1>3, <2>5, <2>8 DEF NullsAllowed
    <3> QED
      BY <2>2, <2>3, <2>4, <3>2, <3>3 DEF RowSound
  <2>9. CASE request.policy = "drop_unlabeled_rows"
    <3>1. StageRows = LabelledRows(members)
      BY <1>3, <2>9 DEF StageRows
    <3>2. c \in DOMAIN members /\ StageRows[c] # Null /\ Labelled(labels, c)
      BY <3>1 DEF LabelledRows, Restricted, Selected, DropsFeatures, DropsLabels, Complete
    <3> QED
      BY <2>2, <2>3, <3>2 DEF RowSound, Labelled
  <2> QED
    BY <1>1, <2>7, <2>8, <2>9 DEF RequestSound, Policies
<1> QED
  BY <1>1, <1>2, <1>3 DEF RequestSound

LEMMA DatasetOfIsSound ==
  ASSUME TrainingIInv, stage = "resolved", StageAccepts
  PROVE  DatasetSound(DatasetOf(StageRows))
<1> DEFINE rows == StageRows
           d == DatasetOf(StageRows)
<1>1. \A c \in DOMAIN rows : RowSound(c, LabelOf(c)) /\ rows[c] # Null
  BY StageRowsSound
<1>2. DOMAIN rows \subseteq Cells
  BY <1>1 DEF RowSound
<1>3. d.frame = Transformed(rows) /\ d.split = request.split /\ d.label = [c \in DOMAIN rows |-> LabelOf(c)]
  BY DEF DatasetOf
<1>4. SplitsValid(DaysOf(rows), request.split)
  BY DEF StageAccepts
<1> HIDE DEF rows, d
<1>5. /\ DOMAIN d.frame = DOMAIN rows
      /\ \A c \in DOMAIN rows :
           /\ d.frame[c] # Null
           /\ d.frame[c] = {x[1] : x \in {y \in DOMAIN rows : y[2] = c[2]}}
  BY <1>1, <1>2, <1>3, TransformOfComplete
<1>6. \A c \in DOMAIN rows : d.label[c] = LabelOf(c)
  BY <1>3
<1>7. DaysOf(d.frame) = DaysOf(rows)
  BY <1>5 DEF DaysOf
<1>8. DatasetSound(d)
  BY <1>1, <1>3, <1>4, <1>5, <1>6, <1>7 DEF DatasetSound
<1> QED
  BY <1>8 DEF d

LEMMA WriteDatasetKeeps ==
  ASSUME TrainingIInv, WriteDataset
  PROVE  TrainingIInv'
<1>1. stage = "resolved" /\ UNCHANGED <<world, gone, snapshots, labelSets, samples, preps, request>>
  BY DEF WriteDataset, outside, stores
<1>2. IsStore(snapshots)' /\ (\A set \in labelSets' : LabelsRead(set))
      /\ (\A sample \in samples' : SampleSound(sample)) /\ (\A prep \in preps' : PrepSound(prep)')
  BY <1>1 DEF TrainingIInv, StoresSound, PrepSound
<1>3. RequestSound'
  BY <1>1 DEF TrainingIInv, StageSound, RequestSound, MembershipKept
<1>4. CASE StageAccepts
  <2> DEFINE d == DatasetOf(StageRows)
  <2>1. stage' = "written" /\ pending' = d /\ datasets' = datasets \cup {d}
    BY <1>4 DEF WriteDataset, PutDataset
  <2>2. DatasetSound(d)
    BY <1>1, <1>4, DatasetOfIsSound
  <2> HIDE DEF d
  <2>3. \A x \in datasets' : DatasetSound(x)'
    BY <1>1, <2>1, <2>2, DatasetsStay DEF TrainingIInv, StoresSound
  <2>4. TrainingTypeOK'
    BY <1>1, <2>1 DEF TrainingIInv, TrainingTypeOK, Stages
  <2> QED
    BY <1>2, <1>3, <2>1, <2>3, <2>4 DEF TrainingIInv, StoresSound, StageSound, PreparedRequestRuns
<1>5. CASE ~StageAccepts
  <2>1. stage' = "refused" /\ UNCHANGED <<pending, datasets>>
    BY <1>5 DEF WriteDataset
  <2>2. \A x \in datasets' : DatasetSound(x)'
    BY <1>1, <2>1, DatasetsStay DEF TrainingIInv, StoresSound
  <2>3. TrainingTypeOK'
    BY <1>1, <2>1 DEF TrainingIInv, TrainingTypeOK, Stages
  <2>4. ~FromOneSample'
    <3>1. FromOneSample' => FromOneSample
      BY <1>1 DEF FromOneSample
    <3> QED
      BY <1>1, <1>5, <3>1, PreparedIsAccepted
  <2> QED
    BY <1>2, <1>3, <2>1, <2>2, <2>3, <2>4 DEF TrainingIInv, StoresSound, StageSound, PreparedRequestRuns
<1> QED
  BY <1>4, <1>5

\* The stages after the dataset: what is read back, exported or begun again.
LEMMA LaterStagesKeep ==
  ASSUME TrainingIInv, RecordStage \/ Stop \/ Export
  PROVE  TrainingIInv'
<1>1. UNCHANGED <<world, gone, snapshots, labelSets, samples, preps, datasets, request>>
  BY DEF RecordStage, Stop, Export, outside, stores
<1>2. StoresSound'
  BY <1>1 DEF TrainingIInv, StoresSound, PrepSound, DatasetSound, RowSound
<1>3. stage # "none" /\ stage' \notin {"none", "refused"} /\ PreparedRequestRuns'
  BY DEF RecordStage, Stop, Export, PreparedRequestRuns
<1>4. RequestSound'
  BY <1>1, <1>3 DEF TrainingIInv, StageSound, RequestSound, MembershipKept
<1>5. CASE RecordStage \/ Stop
  BY <1>1, <1>2, <1>3, <1>4, <1>5
  DEF TrainingIInv, TrainingTypeOK, Stages, StageSound, RecordStage, Stop, ReadsBack
<1>6. CASE Export
  <2>1. stage = "passed" /\ pending \in datasets /\ pending' = pending
    BY <1>6 DEF Export, TrainingIInv, StageSound
  <2>2. DatasetSound(pending)
    BY <2>1 DEF TrainingIInv, StoresSound
  <2>3. \A c \in DOMAIN pending.frame : pending.frame[c] # Null /\ pending.label[c] # Null
    BY <2>2 DEF DatasetSound, RowSound, Labelled
  <2>4. stage' = "exported"
    BY <1>6, <2>3 DEF Export
  <2> QED
    BY <1>1, <1>2, <1>3, <1>4, <2>1, <2>4 DEF TrainingIInv, TrainingTypeOK, Stages, StageSound
<1> QED
  BY <1>5, <1>6

LEMMA StepKeeps == TrainingIInv /\ [TrainingNext]_trainingVars => TrainingIInv'
<1> SUFFICES ASSUME TrainingIInv, [TrainingNext]_trainingVars PROVE TrainingIInv'
  OBVIOUS
<1>1. CASE \E s \in DOMAIN Arriving : PublishSnapshot(s)
  BY <1>1, PublishSnapshotKeeps
<1>2. CASE Delist
  BY <1>2, PublicationKeeps DEF Delist, stores
<1>3. CASE \E wanted \in {Names, Names \ {Leaver}} : BuildLabelSets(wanted)
  BY <1>3, BuildLabelSetsKeeps
<1>4. CASE \E labels \in labelSets, policy \in Policies : PublishSample(labels, policy)
  BY <1>4, PublishSampleKeeps
<1>5. CASE \E days \in {Window, Window \ {Max(Window)}}, drop, neutral \in BOOLEAN :
             PreprocessPartitions(days, drop, neutral)
  BY <1>5, PublishPreprocessingKeeps DEF PreprocessPartitions
<1>6. CASE \E sample \in samples, neutral \in BOOLEAN : PreprocessSample(sample, neutral)
  BY <1>6, PublishPreprocessingKeeps DEF PreprocessSample
<1>7. CASE \E labels \in labelSets, prep \in preps, sample \in samples \cup {Null},
              policy \in Policies, split \in SplitPolicies, version \in {5, 6} :
             MakeRequest(version, labels, prep, sample, policy, split)
  BY <1>7, MakeRequestKeeps
<1>8. CASE Resolve \/ WriteDataset \/ RecordStage \/ Stop \/ Export
  BY <1>8, ResolveKeeps, WriteDatasetKeeps, LaterStagesKeep
<1>9. CASE UNCHANGED trainingVars
  <2>1. TrainingTypeOK'
    BY <1>9 DEF trainingVars, TrainingIInv, TrainingTypeOK
  <2>2. StoresSound'
    BY <1>9 DEF trainingVars, TrainingIInv, StoresSound, PrepSound, DatasetSound, RowSound
  <2>3. StageSound'
    BY <1>9 DEF trainingVars, TrainingIInv, StageSound, RequestSound, MembershipKept
  <2>4. PreparedRequestRuns'
    BY <1>9 DEF trainingVars, TrainingIInv, PreparedRequestRuns, FromOneSample
  <2> QED
    BY <2>1, <2>2, <2>3, <2>4 DEF TrainingIInv
<1> QED
  BY <1>1, <1>2, <1>3, <1>4, <1>5, <1>6, <1>7, <1>8, <1>9 DEF TrainingNext

LEMMA InvariantHolds == TrainingSpec => []TrainingIInv
BY InitHolds, StepKeeps, PTL DEF TrainingSpec

-----------------------------------------------------------------------------
(* The theorems.                                                             *)

\* A stage is one of those the run has, the index store holds dates the index
\* published, and what the stage has in hand is a published dataset.
THEOREM TrainingTypes == TrainingSpec => []TrainingTypeOK
<1>1. TrainingIInv => TrainingTypeOK
  BY DEF TrainingIInv
<1> QED
  BY <1>1, InvariantHolds, PTL

\* Whenever the index is complete for the window, the filter that reads a bound set
\* (by the day an entry became visible) gives on every day the members of the
\* snapshot the store selects (by its date).
THEOREM FilterAgrees == TrainingSpec => []FilterReadsAsOf
<1>1. TrainingIInv => FilterReadsAsOf
  <2> SUFFICES ASSUME TrainingIInv, MembershipExists(snapshots), NEW d \in Window
               PROVE  MembersOn(MembershipSet(snapshots), d) = snapshots[AsOf(snapshots, d)].members
    BY DEF FilterReadsAsOf
  <2>1. IsStore(snapshots) /\ d \in Nat /\ Visible(snapshots, d) # {}
    BY WindowDays DEF TrainingIInv, StoresSound, MembershipExists
  <2>2. snapshots[AsOf(snapshots, d)] = Arriving[AsOf(snapshots, d)]
    BY <2>1, AsOfIsNewestVisible DEF IsStore
  <2> QED
    BY <2>1, <2>2, LastVisibleIsAsOf
<1> QED
  BY <1>1, InvariantHolds, PTL

\* Every row of a published dataset was a member on its day as far as was visible
\* then, complete and labelled by the request's own label set, under either version
\* and all three null policies, and the export never refuses what the stage passed.
THEOREM RowsAreTrainable == TrainingSpec => []TrainableRows
<1>1. TrainingIInv => TrainableRows
  BY DEF TrainingIInv, StageSound, StoresSound, DatasetSound, RowSound, TrainableRows
<1> QED
  BY <1>1, InvariantHolds, PTL

\* A row of a published dataset was standardised over the trained rows of its day.
THEOREM TransformSeesTheTrainedRows == TrainingSpec => []CrossSectionIsTrained
<1>1. TrainingIInv => CrossSectionIsTrained
  BY DEF TrainingIInv, StoresSound, DatasetSound, CrossSectionIsTrained
<1> QED
  BY <1>1, InvariantHolds, PTL

\* With a purge of the horizon or more, no training label reads a close that lies in
\* the outcomes of the validation split, for any horizon and any split policy.
THEOREM PurgeStopsLeaks == TrainingSpec => []NoOutcomeLeaks
<1>1. TrainingIInv => NoOutcomeLeaks
  <2> SUFFICES ASSUME TrainingIInv, NEW d \in datasets, d.split.purge >= Horizon,
                      NEW c \in DOMAIN d.frame, NEW e \in DOMAIN d.frame,
                      c[2] \in d.split.train.first..d.split.train.last,
                      e[2] \in d.split.validation.first..d.split.validation.last,
                      d.label[c] # Null, d.label[c] >= e[2] + 1
               PROVE  FALSE
    BY DEF NoOutcomeLeaks, Leaks
  <2>1. /\ DatasetSound(d) /\ RequestSound /\ LabelsRead(request.labels)
        /\ d.split \in SplitPolicies
    BY DEF TrainingIInv, StoresSound, StageSound, DatasetSound, RequestSound
  <2>2. DaysOf(d.frame) \in SUBSET Nat
    <3>1. \A x \in DOMAIN d.frame : x \in Cells
      BY <2>1 DEF DatasetSound, RowSound
    <3> QED
      BY <3>1, LabelAssumption DEF DaysOf, Cells
  <2>3. d.split.train.last + d.split.purge + d.split.embargo + 1 <= d.split.validation.first
    BY <2>1, <2>2, SplitsKeepPurge DEF DatasetSound
  <2>4. d.label[c] = c[2] + Horizon
    BY <2>1 DEF DatasetSound, RowSound, Labelled, LabelsRead
  <2>5. /\ d.split.train.last \in Nat /\ d.split.validation.first \in Nat
        /\ d.split.purge \in Nat /\ d.split.embargo \in Nat /\ Horizon \in Nat
        /\ c[2] \in Nat /\ e[2] \in Nat
    BY <2>1, <2>2, TrainingAssumption, LabelAssumption DEF DaysOf
  <2>6. c[2] <= d.split.train.last /\ d.split.validation.first <= e[2]
    BY <2>5
  <2> QED
    BY <2>3, <2>4, <2>5, <2>6
<1> QED
  BY <1>1, InvariantHolds, PTL

\* A request whose sample and preprocessing were published from the inputs it binds is
\* refused by no check of the resolver or the dataset stage, whatever has arrived in
\* between, as long as the index still selects what it selected.
THEOREM PreparedRequestIsNeverRefused == TrainingSpec => []PreparedRequestRuns
<1>1. TrainingIInv => PreparedRequestRuns
  BY DEF TrainingIInv
<1> QED
  BY <1>1, InvariantHolds, PTL

-----------------------------------------------------------------------------
(* The run.                                                                *)

\* The documents are the request, the states and the result, in this order.
LEMMA Layout ==
  /\ Request \in Documents /\ Result \in Documents /\ Reconciliation \in Documents
  /\ 0 \in Documents /\ 0 \in States /\ States \subseteq Documents
  /\ 1..Last \subseteq Documents /\ Last \in Nat /\ 1 \in 1..Last
BY StageAssumption DEF Request, Result, Reconciliation, Documents, States

\* The stage a failure is filed under is one of the run's.
LEMMA FrontierType == Frontier \in States
<1>1. IsFiniteSet(States)
  BY StageAssumption, FS_Interval DEF States, Reconciliation
<1>2. Cardinality(PassedStages) \in Nat
  BY <1>1, FS_Subset, FS_CardinalityType DEF PassedStages
<1>. QED  BY <1>2, StageAssumption DEF Frontier, States, Reconciliation

-----------------------------------------------------------------------------
(* The type invariant and the course of an execute                         *)

\* No execute has begun, and the variables hold their types.
LEMMA InitCourse == Init => TypeOK /\ Course
BY Layout, FaultAssumption DEF Init, TypeOK, Course

\* Going on from a document leads to a document, and to a runtime stage's fold
\* only from that stage.
LEMMA AfterDocumentCourse ==
  ASSUME TypeOK, Course, NEW r \in Runners, at[r] # Reconciliation, AfterDocument(r)
  PROVE  /\ at' \in [Runners -> Documents]
         /\ pc' \in [Runners -> {"idle"} \cup Body \cup Handler]
         /\ Course'
<1>1. at[r] \notin {Request, 0, Result} => at[r] \in 1..Last
  BY StageAssumption DEF TypeOK, Documents, Request, Result, Reconciliation
<1>. QED  BY <1>1, Layout DEF AfterDocument, GoToAt, GoTo, TypeOK, Course, Body

\* Going on from a runtime stage leads to the next one or to the reconciliation.
LEMMA NextStageCourse ==
  ASSUME TypeOK, Course, NEW r \in Runners, at[r] \in 1..Last, NextStage(r)
  PROVE  /\ at' \in [Runners -> Documents]
         /\ pc' \in [Runners -> {"idle"} \cup Body \cup Handler]
         /\ Course'
<1>1. at[r] < Last => at[r] + 1 \in 1..Last
  BY StageAssumption
<1>. QED  BY <1>1, Layout DEF NextStage, GoToAt, GoTo, TypeOK, Course, Body

\* Every step of a runner keeps the types and the course.
LEMMA StepCourse ==
  ASSUME TypeOK, Course, NEW r \in Runners, Execute(r) \/ Run(r) \/ Fault(r) \/ Crash(r)
  PROVE  TypeOK' /\ Course'
<1>1. CASE Execute(r)
  BY <1>1, Layout DEF Execute, GoToAt, GoTo, TypeOK, Course, Body
<1>2. CASE Open(r)
  <2>1. at[r] # Reconciliation
    BY <1>2, StageAssumption DEF Open, Course, Request, Reconciliation
  <2>2. CASE AfterDocument(r)
    BY <1>2, <2>1, <2>2, AfterDocumentCourse DEF Open, TypeOK
  <2>3. CASE GoTo(r, "publish") /\ UNCHANGED at
    BY <1>2, <2>1, <2>3 DEF Open, GoTo, TypeOK, Course, Body
  <2>. QED  BY <1>2, <2>2, <2>3 DEF Open
<1>3. CASE Publish(r)
  <2>1. at[r] \in Documents /\ at[r] # Reconciliation
    BY <1>3 DEF Publish, Course, TypeOK
  <2>2. ledger' \in [Documents -> {"none", "dir"} \cup Written]
    BY <1>3, <2>1 DEF Publish, TypeOK, Written
  <2>3. CASE AfterDocument(r)
    BY <1>3, <2>1, <2>2, <2>3, AfterDocumentCourse DEF Publish, TypeOK
  <2>4. CASE (GoTo(r, "writing") \/ GoTo(r, "failing")) /\ UNCHANGED at
    BY <1>3, <2>1, <2>2, <2>4 DEF Publish, GoTo, TypeOK, Course, Body, Handler
  <2>. QED  BY <1>3, <2>3, <2>4 DEF Publish, Raise
<1>4. CASE Write(r)
  <2>1. at[r] \in Documents /\ at[r] # Reconciliation
    BY <1>4 DEF Write, Course, TypeOK
  <2>2. ledger' \in [Documents -> {"none", "dir"} \cup Written]
    BY <1>4, <2>1 DEF Write, TypeOK, Written
  <2>. QED  BY <1>4, <2>1, <2>2, AfterDocumentCourse DEF Write, TypeOK
<1>5. CASE Resume(r)
  BY <1>5, Layout DEF Resume, GoToAt, GoTo, TypeOK, Course, Body
<1>6. CASE Stage(r)
  <2>1. at[r] \in 1..Last
    BY <1>6 DEF Stage, Course
  <2>2. outputs' \subseteq 1..Last
    BY <1>6, <2>1 DEF Stage, TypeOK
  <2>3. CASE NextStage(r)
    BY <1>6, <2>1, <2>2, <2>3, NextStageCourse DEF Stage, TypeOK
  <2>4. CASE GoTo(r, "publish") /\ UNCHANGED at
    <3>1. at[r] # Reconciliation
      BY <2>1, StageAssumption DEF Reconciliation
    <3>. QED  BY <1>6, <2>2, <2>4, <3>1 DEF Stage, GoTo, TypeOK, Course, Body
  <2>. QED  BY <1>6, <2>3, <2>4 DEF Stage
<1>7. CASE Fold(r)
  <2>1. at[r] \in 1..Last
    BY <1>7 DEF Fold, Course
  <2>2. folded' \in [Runners -> SUBSET (1..Last)]
    BY <1>7, <2>1 DEF Fold, TypeOK
  <2>. QED  BY <1>7, <2>1, <2>2, NextStageCourse DEF Fold, TypeOK
<1>8. CASE Reconcile(r)
  <2>1. Result # Reconciliation
    BY StageAssumption DEF Result, Reconciliation
  <2>. QED  BY <1>8, <2>1, Layout
            DEF Reconcile, GoToAt, GoTo, Raise, TypeOK, Course, Body, Handler
<1>9. CASE ReadResult(r)
  BY <1>9, Layout DEF ReadResult, GoToAt, GoTo, TypeOK, Course
<1>10. CASE Failing(r)
  BY <1>10, Layout, FrontierType
  DEF Failing, GoToAt, GoTo, TypeOK, Course, Handler
<1>11. CASE FailPublish(r)
  <2>1. frontier[r] \in Documents
    BY Layout DEF TypeOK
  <2>. QED  BY <1>11, <2>1, Layout
            DEF FailPublish, GoToAt, GoTo, TypeOK, Course, Handler, Written
<1>12. CASE FailWrite(r)
  <2>1. frontier[r] \in Documents
    BY Layout DEF TypeOK
  <2>. QED  BY <1>12, <2>1, Layout
            DEF FailWrite, GoToAt, GoTo, TypeOK, Course, Written
<1>13. CASE Fault(r)
  BY <1>13, Layout DEF Fault, GoToAt, GoTo, Raise, TypeOK, Course, Handler
<1>14. CASE Crash(r)
  BY <1>14, Layout DEF Crash, GoToAt, GoTo, TypeOK, Course
<1>. QED  BY <1>1, <1>2, <1>3, <1>4, <1>5, <1>6, <1>7, <1>8, <1>9, <1>10, <1>11,
              <1>12, <1>13, <1>14 DEF Run
-----------------------------------------------------------------------------
(* Outputs before states, states before the result: any number of runners  *)

\* The part of IInv about one runner.
Backed(r) ==
  /\ folded[r] \ ReadOnly \subseteq outputs
  /\ pc[r] \in {"publish", "writing"} /\ at[r] \in (1..Last) \ ReadOnly => at[r] \in outputs
  /\ pc[r] \in {"publish", "writing"} /\ at[r] = Result => (1..Last) \ ReadOnly \subseteq outputs

\* Going on from a document or a stage never leads straight to a publication.
LEMMA MoveBacked ==
  ASSUME TypeOK, NEW r \in Runners, AfterDocument(r) \/ NextStage(r)
  PROVE  /\ pc'[r] \notin {"publish", "writing"}
         /\ \A q \in Runners \ {r} : pc'[q] = pc[q] /\ at'[q] = at[q]
BY DEF AfterDocument, NextStage, GoToAt, GoTo, TypeOK

\* Every step of a runner keeps what is published backed by outputs.
LEMMA StepBacked ==
  ASSUME IInv, NEW r \in Runners, Execute(r) \/ Run(r) \/ Fault(r) \/ Crash(r)
  PROVE  IInv'
<1>. USE DEF Backed
<1>1. TypeOK' /\ Course'
  BY StepCourse DEF IInv
<1>2. TypeOK /\ Course /\ PassedIsBacked /\ ResultIsBacked /\ \A q \in Runners : Backed(q)
  BY DEF IInv
<1>3. SUFFICES PassedIsBacked' /\ ResultIsBacked' /\ \A q \in Runners : Backed(q)'
  BY <1>1 DEF IInv
<1>4. /\ Result \notin States /\ Result \notin 1..Last /\ Request \notin States
      /\ Request # Result /\ Request \notin 1..Last /\ 1..Last \subseteq States
      /\ 0 \notin 1..Last
  BY StageAssumption DEF Result, Request, States, Reconciliation
<1>5. CASE Execute(r)
  BY <1>2, <1>5 DEF Execute, GoToAt, GoTo, TypeOK, PassedIsBacked, ResultIsBacked
<1>6. CASE Open(r)
  <2>1. CASE AfterDocument(r)
    BY <1>2, <1>6, <2>1, MoveBacked DEF Open, TypeOK, PassedIsBacked, ResultIsBacked
  <2>2. CASE GoTo(r, "publish") /\ UNCHANGED at
    <3>1. at[r] \in {Request, 0}
      BY <1>2, <1>6 DEF Open, Course
    <3>2. at[r] \notin 1..Last /\ at[r] # Result
      BY <3>1, <1>4, StageAssumption DEF Result, States
    <3>. QED  BY <1>2, <1>6, <2>2, <3>2
              DEF Open, GoTo, TypeOK, PassedIsBacked, ResultIsBacked
  <2>. QED  BY <1>6, <2>1, <2>2 DEF Open
<1>7. CASE Publish(r)
  <2>1. at[r] \in Documents
    BY <1>2 DEF TypeOK
  <2>2. PassedIsBacked' /\ ResultIsBacked'
    BY <1>2, <1>4, <1>7, <2>1, Layout DEF Publish, TypeOK, PassedIsBacked, ResultIsBacked, Written
  <2>3. CASE AfterDocument(r)
    BY <1>2, <1>7, <2>2, <2>3, MoveBacked DEF Publish
  <2>4. CASE (GoTo(r, "writing") \/ GoTo(r, "failing")) /\ UNCHANGED at
    BY <1>2, <1>7, <2>2, <2>4 DEF Publish, GoTo, TypeOK
  <2>. QED  BY <1>7, <2>3, <2>4 DEF Publish, Raise
<1>8. CASE Write(r)
  <2>1. at[r] \in Documents
    BY <1>2 DEF TypeOK
  <2>2. PassedIsBacked' /\ ResultIsBacked'
    BY <1>2, <1>4, <1>8, <2>1, Layout DEF Write, TypeOK, PassedIsBacked, ResultIsBacked
  <2>. QED  BY <1>2, <1>8, <2>2, MoveBacked DEF Write
<1>9. CASE Resume(r)
  BY <1>2, <1>9 DEF Resume, GoToAt, GoTo, TypeOK, PassedIsBacked, ResultIsBacked
<1>10. CASE Stage(r)
  <2>1. outputs \subseteq outputs'
    BY <1>10 DEF Stage
  <2>2. PassedIsBacked' /\ ResultIsBacked'
    BY <1>2, <1>10, <2>1 DEF Stage, PassedIsBacked, ResultIsBacked
  <2>3. CASE NextStage(r)
    BY <1>2, <1>10, <2>1, <2>2, <2>3, MoveBacked DEF Stage
  <2>4. CASE GoTo(r, "publish") /\ outputs' = outputs \cup ({at[r]} \ ReadOnly) /\ UNCHANGED at
    <3>1. at[r] # Result
      BY <1>2, <1>4, <1>10 DEF Stage, Course
    <3>. QED  BY <1>2, <1>10, <2>1, <2>2, <2>4, <3>1 DEF Stage, GoTo, TypeOK
  <2>. QED  BY <1>10, <2>3, <2>4 DEF Stage
<1>11. CASE Fold(r)
  <2>1. at[r] \in 1..Last
    BY <1>2, <1>11 DEF Fold, Course
  <2>2. folded'[r] \ ReadOnly \subseteq outputs
    BY <1>2, <1>11, <2>1 DEF Fold, TypeOK, PassedIsBacked
  <2>. QED  BY <1>2, <1>11, <2>2, MoveBacked
            DEF Fold, TypeOK, PassedIsBacked, ResultIsBacked
<1>12. CASE Reconcile(r)
  BY <1>2, <1>4, <1>12
  DEF Reconcile, Reconcilable, GoToAt, GoTo, Raise, TypeOK, PassedIsBacked, ResultIsBacked
<1>13. CASE ReadResult(r)
  BY <1>2, <1>13 DEF ReadResult, GoToAt, GoTo, TypeOK, PassedIsBacked, ResultIsBacked
<1>14. CASE Failing(r)
  BY <1>2, <1>14 DEF Failing, GoToAt, GoTo, TypeOK, PassedIsBacked, ResultIsBacked
<1>15. CASE FailPublish(r)
  <2>1. frontier[r] \in Documents
    BY <1>2, Layout DEF TypeOK
  <2>2. \A d \in Documents : ledger'[d] = "passed" => ledger[d] = "passed"
    BY <1>2, <1>15, <2>1 DEF FailPublish, TypeOK
  <2>. QED  BY <1>2, <1>15, <2>2, Layout
            DEF FailPublish, GoToAt, GoTo, TypeOK, PassedIsBacked, ResultIsBacked
<1>16. CASE FailWrite(r)
  <2>1. frontier[r] \in Documents
    BY <1>2, Layout DEF TypeOK
  <2>2. \A d \in Documents : ledger'[d] = "passed" => ledger[d] = "passed"
    BY <1>2, <1>16, <2>1 DEF FailWrite, TypeOK
  <2>. QED  BY <1>2, <1>16, <2>2, Layout
            DEF FailWrite, GoToAt, GoTo, TypeOK, PassedIsBacked, ResultIsBacked
<1>17. CASE Fault(r)
  BY <1>2, <1>17 DEF Fault, GoToAt, GoTo, Raise, TypeOK, PassedIsBacked, ResultIsBacked
<1>18. CASE Crash(r)
  BY <1>2, <1>18 DEF Crash, GoToAt, GoTo, TypeOK, PassedIsBacked, ResultIsBacked
<1>. QED  BY <1>5, <1>6, <1>7, <1>8, <1>9, <1>10, <1>11, <1>12, <1>13, <1>14, <1>15,
              <1>16, <1>17, <1>18 DEF Run

\* A step that changes nothing keeps it too.
LEMMA StutterBacked == IInv /\ UNCHANGED vars => IInv'
BY DEF IInv, vars, runnerVars, TypeOK, Course, PassedIsBacked, ResultIsBacked

\* Whatever the interleaving of executes, retries, errors and crashes, the
\* strengthened invariant holds.
THEOREM Backing == Spec => []IInv
<1>1. Init => IInv
  BY InitCourse, Layout DEF Init, IInv, PassedIsBacked, ResultIsBacked
<1>2. IInv /\ [Next]_vars => IInv'
  BY StepBacked, StutterBacked DEF Next
<1>. QED  BY <1>1, <1>2, PTL DEF Spec

\* A passed stage is never run again, so its outputs have to be there: they are,
\* because every adapter publishes them before its state.
THEOREM PassedBacked == Spec => []PassedIsBacked
<1>1. IInv => PassedIsBacked
  BY DEF IInv
<1>. QED  BY <1>1, Backing, PTL

\* The result is never published over missing outputs, even when several
\* executes of the run overlap.
THEOREM ResultBacked == Spec => []ResultIsBacked
<1>1. IInv => ResultIsBacked
  BY DEF IInv
<1>. QED  BY <1>1, Backing, PTL

\* Every variable holds a value the runner can give it.
THEOREM TypeCorrect == Spec => []TypeOK
<1>1. IInv => TypeOK
  BY DEF IInv
<1>. QED  BY <1>1, Backing, PTL
-----------------------------------------------------------------------------
(* One runner at a time                                                    *)

\* The part of SoloInv about the runner.
Solo(r) ==
  /\ \A s \in completed[r] : ledger[s] = "passed"
  /\ \A s \in 1..Last : s < at[r] => ledger[s] = "passed"
  /\ pc[r] \in {"failPublish", "failWriting"} => ledger[frontier[r]] \notin Written
  /\ pc[r] \in {"publish", "writing"} /\ at[r] = Result => ledger[0] = "passed"
  /\ pc[r] = "fold" => ledger[at[r]] = "passed"

PassedStays == \A d \in Documents : ledger[d] = "passed" => ledger'[d] = "passed"

\* The failed state goes where no state is, and every other write is a passed
\* document: nothing that has passed is taken back.
LEMMA StepStays ==
  ASSUME SoloInv, NEW r \in Runners, Execute(r) \/ Run(r) \/ Fault(r) \/ Crash(r)
  PROVE  PassedStays
<1>1. /\ TypeOK /\ at[r] \in Documents /\ frontier[r] \in Documents
      /\ pc[r] \in {"failPublish", "failWriting"} => ledger[frontier[r]] \notin Written
  BY Layout DEF SoloInv, TypeOK
<1>2. CASE Publish(r)
  BY <1>1, <1>2 DEF Publish, TypeOK, PassedStays
<1>3. CASE Write(r)
  BY <1>1, <1>3 DEF Write, TypeOK, PassedStays
<1>4. CASE FailPublish(r)
  BY <1>1, <1>4 DEF FailPublish, TypeOK, PassedStays, Written
<1>5. CASE FailWrite(r)
  BY <1>1, <1>5 DEF FailWrite, TypeOK, PassedStays, Written
<1>6. CASE UNCHANGED ledger
  BY <1>6 DEF PassedStays
<1>. QED  BY <1>2, <1>3, <1>4, <1>5, <1>6
          DEF Run, Execute, Open, Resume, Stage, Fold, Reconcile, ReadResult, Failing,
              Fault, Crash

\* Going on from a document that has just passed, or from a stage that has.
LEMMA MoveSolo ==
  ASSUME TypeOK, Course, NEW r \in Runners, PassedStays,
         \A s \in 1..Last : s < at[r] => ledger[s] = "passed",
         at[r] \in 1..Last => ledger'[at[r]] = "passed",
         \/ AfterDocument(r) /\ at[r] # Reconciliation
         \/ NextStage(r) /\ at[r] \in 1..Last
  PROVE  /\ \A s \in 1..Last : s < at'[r] => ledger'[s] = "passed"
         /\ pc'[r] = "fold" => ledger'[at'[r]] = "passed"
         /\ pc'[r] \notin {"publish", "writing", "failPublish", "failWriting"}
<1>1. \A s \in 1..Last : s < at[r] => ledger'[s] = "passed"
  BY Layout DEF PassedStays
<1>2. at[r] \in Documents
  BY DEF TypeOK
<1>3. CASE AfterDocument(r) /\ at[r] # Reconciliation
  <2>1. CASE at[r] \in {Request, 0}
    BY <1>3, <2>1 DEF AfterDocument, GoToAt, GoTo, TypeOK, Request
  <2>2. CASE at[r] = Result
    <3>1. \A s \in 1..Last : s < Result
      BY StageAssumption DEF Result
    <3>2. at'[r] = Result /\ pc'[r] = "readback"
      BY <1>3, <2>2, StageAssumption DEF AfterDocument, GoToAt, GoTo, TypeOK, Result, Request
    <3>. QED  BY <1>1, <2>2, <3>1, <3>2
  <2>3. CASE at[r] \in 1..Last
    <3>1. at'[r] = at[r] /\ pc'[r] = "fold"
      BY <1>2, <1>3, <2>3, StageAssumption
      DEF AfterDocument, GoToAt, GoTo, TypeOK, Result, Request
    <3>. QED  BY <1>1, <2>3, <3>1
  <2>. QED  BY <1>2, <1>3, <2>1, <2>2, <2>3, StageAssumption
            DEF Documents, Request, Result, Reconciliation
<1>4. CASE NextStage(r) /\ at[r] \in 1..Last
  <2>1. \A s \in 1..Last : s <= at[r] => ledger'[s] = "passed"
    BY <1>1, <1>4, StageAssumption
  <2>2. CASE at[r] < Last
    <3>1. at'[r] = at[r] + 1 /\ pc'[r] = "stage"
      BY <1>4, <2>2 DEF NextStage, GoToAt, GoTo, TypeOK
    <3>. QED  BY <1>4, <2>1, <3>1, StageAssumption
  <2>3. CASE at[r] = Last
    <3>1. at'[r] = Reconciliation /\ pc'[r] = "reconcile"
      BY <1>4, <2>3 DEF NextStage, GoToAt, GoTo, TypeOK
    <3>. QED  BY <2>1, <2>3, <3>1, StageAssumption
  <2>. QED  BY <1>4, <2>2, <2>3, StageAssumption
<1>. QED  BY <1>3, <1>4

\* Every step of the only runner keeps the invariant.
LEMMA StepSolo ==
  ASSUME SoloInv, NEW r, Runners = {r}, Execute(r) \/ Run(r) \/ Fault(r) \/ Crash(r)
  PROVE  SoloInv'
<1>1. TypeOK' /\ Course' /\ PassedStays
  BY StepCourse, StepStays DEF SoloInv
<1>2. /\ r \in Runners /\ TypeOK /\ Course /\ ResultIsEarned /\ Solo(r)
      /\ at[r] \in Documents /\ completed[r] \subseteq Documents
  BY Layout DEF SoloInv, Solo, TypeOK
<1>3. SUFFICES ResultIsEarned' /\ Solo(r)'
  BY <1>1 DEF SoloInv, Solo
<1>4. 0..Last \subseteq Documents /\ 0 \notin 1..Last /\ \A s \in 0..Last : s = 0 \/ s \in 1..Last
  BY StageAssumption DEF Documents, Request, Result
<1>5. ledger'[Result] # "passed" \/ ledger[Result] = "passed" => ResultIsEarned'
  BY <1>1, <1>2, <1>4 DEF ResultIsEarned, PassedStays
<1>6. /\ \A s \in completed[r] : ledger'[s] = "passed"
      /\ \A s \in 1..Last : s < at[r] => ledger'[s] = "passed"
  BY <1>1, <1>2, Layout DEF Solo, PassedStays
<1>7. \A s \in 1..Last : ~(s < Request)
  BY DEF Request
<1>8. CASE Execute(r)
  BY <1>2, <1>5, <1>7, <1>8 DEF Execute, GoToAt, GoTo, TypeOK, Solo
<1>9. CASE Open(r)
  <2>1. ResultIsEarned' /\ completed' = completed /\ ledger' = ledger
    BY <1>5, <1>9 DEF Open
  <2>2. at[r] \in {Request, 0} /\ at[r] # Result /\ at[r] \notin 1..Last /\ at[r] # Reconciliation
    BY <1>2, <1>9, StageAssumption DEF Open, Course, Request, Result, Reconciliation
  <2>3. CASE AfterDocument(r)
    <3>0. \A s \in 1..Last : s < at[r] => ledger[s] = "passed"
      BY <1>2 DEF Solo
    <3>1. /\ \A s \in 1..Last : s < at'[r] => ledger'[s] = "passed"
          /\ pc'[r] = "fold" => ledger'[at'[r]] = "passed"
          /\ pc'[r] \notin {"publish", "writing", "failPublish", "failWriting"}
      BY <1>1, <1>2, <2>2, <2>3, <3>0, MoveSolo
    <3>. QED  BY <1>6, <2>1, <3>1 DEF Solo
  <2>4. CASE GoTo(r, "publish") /\ UNCHANGED at
    BY <1>2, <1>6, <2>1, <2>2, <2>4 DEF GoTo, TypeOK, Solo
  <2>. QED  BY <1>9, <2>3, <2>4 DEF Open
<1>10. CASE Publish(r)
  <2>1. at[r] # Reconciliation /\ completed' = completed
    BY <1>2, <1>10 DEF Publish, Course
  <2>2. ResultIsEarned'
    <3>1. Result \notin States
      BY StageAssumption DEF Result, States, Reconciliation
    <3>2. ledger'[Result] = "passed" => ledger[Result] = "passed"
      BY <1>2, <1>10, <3>1, Layout DEF Publish, TypeOK
    <3>. QED  BY <1>5, <3>2
  <2>3. CASE ledger'[at[r]] = "passed" /\ AfterDocument(r)
    <3>0. \A s \in 1..Last : s < at[r] => ledger[s] = "passed"
      BY <1>2 DEF Solo
    <3>1. /\ \A s \in 1..Last : s < at'[r] => ledger'[s] = "passed"
          /\ pc'[r] = "fold" => ledger'[at'[r]] = "passed"
          /\ pc'[r] \notin {"publish", "writing", "failPublish", "failWriting"}
      BY <1>1, <1>2, <2>1, <2>3, <3>0, MoveSolo
    <3>. QED  BY <1>6, <2>1, <2>2, <3>1 DEF Solo
  <2>4. CASE (GoTo(r, "writing") \/ GoTo(r, "failing")) /\ UNCHANGED at
    <3>1. at[r] = Result => ledger'[0] = "passed"
      BY <1>1, <1>2, <1>10, Layout DEF Publish, Solo, PassedStays
    <3>. QED  BY <1>2, <1>6, <2>1, <2>2, <2>4, <3>1 DEF GoTo, TypeOK, Solo
  <2>. QED  BY <1>2, <1>10, <2>3, <2>4 DEF Publish, Raise, TypeOK
<1>11. CASE Write(r)
  <2>1. at[r] # Reconciliation /\ completed' = completed /\ ledger'[at[r]] = "passed"
    BY <1>2, <1>11 DEF Write, Course, TypeOK
  <2>2. ResultIsEarned'
    <3>1. CASE at[r] = Result
      <4>1. \A s \in 1..Last : s < at[r]
        BY <3>1, StageAssumption DEF Result
      <4>2. ledger'[0] = "passed"
        BY <1>1, <1>2, <1>11, <3>1, Layout DEF Write, Solo, PassedStays
      <4>. QED  BY <1>4, <1>6, <4>1, <4>2 DEF ResultIsEarned
    <3>2. CASE at[r] # Result
      BY <1>2, <1>5, <1>11, <3>2 DEF Write, TypeOK
    <3>. QED  BY <3>1, <3>2
  <2>3. AfterDocument(r) /\ \A s \in 1..Last : s < at[r] => ledger[s] = "passed"
    BY <1>2, <1>11 DEF Write, Solo
  <2>4. /\ \A s \in 1..Last : s < at'[r] => ledger'[s] = "passed"
        /\ pc'[r] = "fold" => ledger'[at'[r]] = "passed"
        /\ pc'[r] \notin {"publish", "writing", "failPublish", "failWriting"}
    BY <1>1, <1>2, <2>1, <2>3, MoveSolo
  <2>. QED  BY <1>6, <2>1, <2>2, <2>4 DEF Solo
<1>12. CASE Resume(r)
  <2>1. \A s \in 1..Last : ~(s < 1)
    OBVIOUS
  <2>2. at'[r] = 1 /\ pc'[r] = "stage" /\ completed'[r] = {s \in 1..Last : ledger[s] = "passed"}
    BY <1>2, <1>12 DEF Resume, GoToAt, GoTo, TypeOK
  <2>. QED  BY <1>5, <1>12, <2>1, <2>2 DEF Resume, Solo
<1>13. CASE Stage(r)
  <2>1. at[r] \in 1..Last /\ at[r] # Result /\ completed' = completed /\ ledger' = ledger
    BY <1>2, <1>13, StageAssumption DEF Stage, Course, Result
  <2>2. CASE at[r] \in completed[r] /\ NextStage(r)
    BY <1>1, <1>2, <1>5, <1>6, <2>1, <2>2, MoveSolo DEF Solo
  <2>3. CASE GoTo(r, "publish") /\ UNCHANGED at
    BY <1>2, <1>5, <1>6, <2>1, <2>3 DEF GoTo, TypeOK, Solo
  <2>. QED  BY <1>13, <2>2, <2>3 DEF Stage
<1>14. CASE Fold(r)
  <2>1. at[r] \in 1..Last /\ ledger[at[r]] = "passed" /\ completed' = completed
        /\ ledger' = ledger /\ NextStage(r)
    BY <1>2, <1>14 DEF Fold, Course, Solo
  <2>. QED  BY <1>1, <1>2, <1>5, <1>6, <2>1, MoveSolo DEF Solo
<1>15. CASE Reconcile(r)
  <2>1. at[r] = Reconciliation /\ \A s \in 1..Last : s < at[r]
    BY <1>2, <1>15, StageAssumption DEF Reconcile, Course, Reconciliation
  <2>. QED  BY <1>2, <1>5, <1>6, <1>15, <2>1, Layout
            DEF Reconcile, Reconcilable, GoToAt, GoTo, Raise, TypeOK, Solo
<1>16. CASE ReadResult(r)
  BY <1>2, <1>5, <1>6, <1>7, <1>16 DEF ReadResult, GoToAt, GoTo, TypeOK, Solo
<1>17. CASE Failing(r)
  BY <1>2, <1>5, <1>6, <1>7, <1>17 DEF Failing, GoToAt, GoTo, TypeOK, Solo
<1>18. CASE FailPublish(r)
  <2>1. frontier[r] \in Documents /\ ledger[frontier[r]] \notin Written
    BY <1>2, <1>18, Layout DEF FailPublish, TypeOK, Solo
  <2>2. ledger'[frontier[r]] = "dir" /\ \A d \in Documents : ledger'[d] = "passed" => ledger[d] = "passed"
    BY <1>2, <1>18, <2>1 DEF FailPublish, TypeOK, Written
  <2>. QED  BY <1>2, <1>5, <1>6, <1>7, <1>18, <2>2, Layout
            DEF FailPublish, GoToAt, GoTo, TypeOK, Solo, Written
<1>19. CASE FailWrite(r)
  <2>1. frontier[r] \in States /\ frontier[r] # Result
    BY <1>2, StageAssumption DEF TypeOK, States, Result, Reconciliation
  <2>2. ledger'[Result] = ledger[Result]
    BY <1>2, <1>19, <2>1, Layout DEF FailWrite, TypeOK
  <2>. QED  BY <1>2, <1>5, <1>6, <1>7, <1>19, <2>2 DEF FailWrite, GoToAt, GoTo, TypeOK, Solo
<1>20. CASE Fault(r)
  BY <1>2, <1>5, <1>6, <1>7, <1>20 DEF Fault, GoToAt, GoTo, Raise, TypeOK, Solo
<1>21. CASE Crash(r)
  BY <1>2, <1>5, <1>6, <1>7, <1>21 DEF Crash, GoToAt, GoTo, TypeOK, Solo
<1>. QED  BY <1>8, <1>9, <1>10, <1>11, <1>12, <1>13, <1>14, <1>15, <1>16, <1>17, <1>18,
              <1>19, <1>20, <1>21 DEF Run

\* A step that changes nothing keeps it too.
LEMMA StutterSolo == SoloInv /\ UNCHANGED vars => SoloInv' /\ PassedStays
BY DEF SoloInv, vars, runnerVars, TypeOK, Course, ResultIsEarned, PassedStays

\* The invariant of a run that one runner executes at a time.
THEOREM SoloInvariance == ASSUME NEW r, Runners = {r} PROVE Spec => []SoloInv
<1>1. Init => SoloInv
  <2>1. \A s \in 1..Last : ~(s < Request)
    BY DEF Request
  <2>. QED  BY <2>1, InitCourse, Layout DEF Init, SoloInv, ResultIsEarned
<1>2. SoloInv /\ [Next]_vars => SoloInv'
  BY StepSolo, StutterSolo DEF Next
<1>. QED  BY <1>1, <1>2, PTL DEF Spec

\* A result is only ever published over a ledger whose stages have all passed,
\* resolution included, however the run got there.
THEOREM ResultEarned == ASSUME NEW r, Runners = {r} PROVE Spec => []ResultIsEarned
<1>1. SoloInv => ResultIsEarned
  BY DEF SoloInv
<1>. QED  BY <1>1, SoloInvariance, PTL

\* Neither an error nor a retry takes back what has passed.
THEOREM PassedStaysPassed == ASSUME NEW r, Runners = {r} PROVE Spec => PassedIsFinal
<1>1. SoloInv /\ [Next]_vars => PassedStays
  BY StepStays, StutterSolo DEF Next
<1>2. SoloInv /\ [Next]_vars =>
        [\A d \in Documents : ledger[d] = "passed" => ledger'[d] = "passed"]_vars
  BY <1>1 DEF PassedStays
<1>. QED  BY <1>2, SoloInvariance, PTL DEF Spec, PassedIsFinal
-----------------------------------------------------------------------------
(* The run keeps its promise to the reader of the ledger                   *)

PassedRuntime == {s \in 1..Last : ledger[s] = "passed"}

\* A step changes one document at most.
LEMMA OneDocument ==
  ASSUME SoloInv, NEW r \in Runners, Execute(r) \/ Run(r) \/ Fault(r) \/ Crash(r)
  PROVE  \E d \in Documents : \A e \in Documents \ {d} : ledger'[e] = ledger[e]
<1>1. TypeOK /\ at[r] \in Documents /\ frontier[r] \in Documents
  BY Layout DEF SoloInv, TypeOK
<1>2. CASE Publish(r)
  BY <1>1, <1>2 DEF Publish, TypeOK
<1>3. CASE Write(r)
  BY <1>1, <1>3 DEF Write, TypeOK
<1>4. CASE FailPublish(r)
  BY <1>1, <1>4 DEF FailPublish, TypeOK
<1>5. CASE FailWrite(r)
  BY <1>1, <1>5 DEF FailWrite, TypeOK
<1>6. CASE UNCHANGED ledger
  BY <1>1, <1>6
<1>. QED  BY <1>2, <1>3, <1>4, <1>5, <1>6
          DEF Run, Execute, Open, Resume, Stage, Fold, Reconcile, ReadResult, Failing,
              Fault, Crash

\* One more passed stage is one more step of progress; all of them are Last.
LEMMA Progress ==
  /\ IsFiniteSet(1..Last) /\ Cardinality(1..Last) = Last
  /\ \A S \in SUBSET (1..Last) :
       /\ Cardinality(S) \in Nat
       /\ \A d \in (1..Last) \ S : Cardinality(S \cup {d}) = Cardinality(S) + 1
                                   /\ Cardinality(S) < Last
<1>1. IsFiniteSet(1..Last) /\ Cardinality(1..Last) = Last
  BY StageAssumption, FS_Interval
<1>2. ASSUME NEW S \in SUBSET (1..Last)
      PROVE  IsFiniteSet(S) /\ Cardinality(S) \in Nat /\ Cardinality(S) <= Last
  BY <1>1, FS_Subset, FS_CardinalityType
<1>3. ASSUME NEW S \in SUBSET (1..Last), NEW d \in (1..Last) \ S
      PROVE  Cardinality(S \cup {d}) = Cardinality(S) + 1 /\ Cardinality(S) < Last
  <2>1. Cardinality(S \cup {d}) = Cardinality(S) + 1
    BY <1>2, <1>3, FS_AddElement
  <2>2. Cardinality(S \cup {d}) <= Last
    BY <1>2
  <2>. QED  BY <1>2, <2>1, <2>2, StageAssumption
<1>. QED  BY <1>1, <1>2, <1>3

\* Every step of the only runner passes one stage, concludes the run, or does
\* nothing the reader of the ledger can see.
LEMMA StepPromise ==
  ASSUME SoloInv, SoloInv', PassedStays, NEW d \in Documents,
         \A e \in Documents \ {d} : ledger'[e] = ledger[e]
  PROVE  \/ Promise!PassStage \/ Promise!Conclude
         \/ PassedRuntime' = PassedRuntime /\ (ledger'[Result] = "passed" <=> ledger[Result] = "passed")
<1>. DEFINE now == PassedRuntime
            then == {s \in 1..Last : ledger'[s] = "passed"}
<1>1. then = PassedRuntime' /\ now \subseteq 1..Last /\ Result \notin 1..Last /\ Last \in 0..Last
  BY StageAssumption DEF PassedRuntime, Result
<1>2. \A e \in Documents : ledger[e] = "passed" => ledger'[e] = "passed"
  BY DEF PassedStays
<1>3. CASE d \in 1..Last /\ ledger[d] # "passed" /\ ledger'[d] = "passed"
  <2>1. d \notin now /\ then = now \cup {d}
    BY <1>2, <1>3, Layout DEF PassedRuntime
  <2>2. Cardinality(then) = Cardinality(now) + 1 /\ Cardinality(now) < Last
    BY <1>1, <1>3, <2>1, Progress
  <2>3. ledger'[Result] = ledger[Result]
    BY <1>1, <1>3, Layout
  <2>. QED  BY <2>2, <2>3 DEF Promise!PassStage, PassedRuntime
<1>4. CASE d = Result /\ ledger[d] # "passed" /\ ledger'[d] = "passed"
  <2>1. \A s \in 1..Last : ledger'[s] = "passed" /\ ledger'[s] = ledger[s]
    BY <1>1, <1>4, Layout, StageAssumption DEF SoloInv, ResultIsEarned
  <2>2. then = 1..Last /\ now = 1..Last
    BY <2>1 DEF PassedRuntime
  <2>3. Cardinality(now) = Last /\ Cardinality(then) = Cardinality(now)
    BY <2>2, Progress
  <2>. QED  BY <1>4, <2>3 DEF Promise!Conclude, PassedRuntime
<1>5. CASE ledger[d] = "passed" \/ ledger'[d] # "passed" \/ d \notin 1..Last \cup {Result}
  BY <1>1, <1>2, <1>5, Layout DEF PassedRuntime
<1>. QED  BY <1>3, <1>4, <1>5

\* The detailed run implements the abstract one: stages pass one by one and for
\* good, and the result comes once, after the last of them.
THEOREM PromiseKept == ASSUME NEW r, Runners = {r} PROVE Spec => PromiseSpec
<1>1. Init => Promise!Init
  <2>1. ASSUME Init PROVE PassedRuntime = {} /\ ledger[Result] # "passed"
    BY <2>1, Layout DEF Init, PassedRuntime
  <2>2. Cardinality({}) = 0
    BY FS_EmptySet
  <2>. QED  BY <2>1, <2>2 DEF Promise!Init, PassedRuntime
<1>2. SoloInv /\ SoloInv' /\ [Next]_vars =>
        [Promise!Next]_<<Cardinality(PassedRuntime), ledger[Result] = "passed">>
  <2>1. CASE UNCHANGED vars
    BY <2>1 DEF vars, PassedRuntime
  <2>2. ASSUME SoloInv, SoloInv', Next
        PROVE  [Promise!Next]_<<Cardinality(PassedRuntime), ledger[Result] = "passed">>
    <3>1. PassedStays /\ \E d \in Documents : \A e \in Documents \ {d} : ledger'[e] = ledger[e]
      BY <2>2, StepStays, OneDocument DEF Next
    <3>2. \/ Promise!PassStage \/ Promise!Conclude
          \/ PassedRuntime' = PassedRuntime
             /\ (ledger'[Result] = "passed" <=> ledger[Result] = "passed")
      BY <2>2, <3>1, StepPromise
    <3>. QED  BY <3>2 DEF Promise!Next
  <2>. QED  BY <2>1, <2>2
<1>. QED  BY <1>1, <1>2, SoloInvariance, PTL
          DEF Spec, PromiseSpec, Promise!Spec, PassedRuntime
=============================================================================
