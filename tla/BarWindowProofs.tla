--------------------------- MODULE BarWindowProofs ---------------------------
(***************************************************************************)
(* Proofs about BarWindow, for any market its assumptions allow, any       *)
(* length of window, label horizon, batch size and number of faults: a     *)
(* gate that passes is right (TrainableOnly), the ingest asks for what the *)
(* gate will want (FullWindowReady), and the old pipeline publishes only   *)
(* complete sessions (VerifiedOnly).                                       *)
(*                                                                         *)
(* The argument for the gate needs no induction: it is a function of what  *)
(* is on disk, and for what it concludes it does not matter how that came  *)
(* about, only that the evidence is true.  That the ingest agrees with it  *)
(* does: a partition is a trace of its request, and the request was made   *)
(* from the run's window, so the invariant ties the run to the calendar,   *)
(* the request to the run and the partition to the request.                *)
(***************************************************************************)
EXTENDS BarWindow, WellFoundedInduction, NaturalsInduction, TLAPS

-----------------------------------------------------------------------------
(* Sessions: first, last, and the tail of a label.                         *)

\* Every nonempty set of naturals has a least element.
LEMMA LeastOf ==
  ASSUME NEW S \in SUBSET Nat, S # {}
  PROVE  \E x \in S : \A y \in S : x <= y
<1>1. IsWellFoundedOn(OpToRel(<, Nat), Nat)
  BY NatLessThanWellFounded
<1>2. \E x \in S : \A y \in S : ~(<<y, x>> \in OpToRel(<, Nat))
  BY <1>1, WFMin
<1>3. PICK x \in S : \A y \in S : ~(<<y, x>> \in OpToRel(<, Nat))
  BY <1>2
<1>4. \A y \in S : y < x => <<y, x>> \in OpToRel(<, Nat)
  BY DEF OpToRel
<1>5. \A y \in S : ~(y < x)
  BY <1>3, <1>4
<1> QED BY <1>5

\* Every nonempty set of sessions has a last one.
LEMMA GreatestOf ==
  ASSUME NEW S \in SUBSET Sessions, S # {}
  PROVE  \E x \in S : \A y \in S : y <= x
<1> DEFINE T == {Last - x : x \in S}
<1>1. T \in SUBSET Nat /\ T # {}
  <2>1. \A x \in S : Last - x \in Nat
    BY WindowAssumption DEF Sessions
  <2> QED BY <2>1
<1>2. PICK t \in T : \A u \in T : t <= u
  <2> HIDE DEF T
  <2> QED BY <1>1, LeastOf
<1>3. PICK x \in S : t = Last - x
  BY <1>2
<1>4. \A y \in S : Last - x <= Last - y
  BY <1>2, <1>3
<1> QED BY <1>4, WindowAssumption DEF Sessions

\* Max picks the last of a nonempty set of sessions. (Readiness, _required_sessions)
LEMMA LastDay ==
  ASSUME NEW days \in SUBSET Sessions, days # {}
  PROVE  R!Max(days) \in days /\ \A s \in days : s <= R!Max(days)
<1>1. \E x \in days : \A y \in days : x >= y
  <2>1. PICK x \in days : \A y \in days : y <= x
    BY GreatestOf
  <2> QED BY <2>1, WindowAssumption DEF Sessions
<1>2. R!Max(days) \in days /\ \A s \in days : R!Max(days) >= s
  BY <1>1 DEF R!Max
<1> QED BY <1>2, WindowAssumption DEF Sessions

\* Min picks a session of a nonempty set of them.
LEMMA FirstOpen ==
  ASSUME NEW S \in SUBSET Sessions, S # {}
  PROVE  Min(S) \in S
<1>1. S \in SUBSET Nat
  BY WindowAssumption DEF Sessions
<1>2. \E x \in S : \A y \in S : x <= y
  BY <1>1, LeastOf
<1> QED BY <1>2 DEF Min

\* The sessions a label needs after a member day: the next Horizon ones of the window.
LEMMA LabelTail ==
  ASSUME NEW k \in Sessions
  PROVE  k + 1 .. R!Min({k + Horizon, Last}) = {s \in Sessions : k < s /\ s <= k + Horizon}
<1>1. k \in Nat /\ k + Horizon \in Nat /\ Last \in Nat
  BY WindowAssumption DEF Sessions
<1>2. R!Min({k + Horizon, Last}) = IF k + Horizon <= Last THEN k + Horizon ELSE Last
  <2>1. \E x \in {k + Horizon, Last} : \A y \in {k + Horizon, Last} : x <= y
    BY <1>1
  <2>2. /\ R!Min({k + Horizon, Last}) \in {k + Horizon, Last}
        /\ \A y \in {k + Horizon, Last} : R!Min({k + Horizon, Last}) <= y
    BY <2>1 DEF R!Min
  <2> QED BY <1>1, <2>2
<1> QED BY <1>1, <1>2 DEF Sessions

-----------------------------------------------------------------------------
(* The gate: what is gathered, what evidence there is, what is required.   *)

\* A world in Worlds has the types, the listings and the lists assumed of it.
LEMMA WorldIsSound ==
  ASSUME world \in Worlds
  PROVE  /\ world \in World /\ NoneTooEarly(world) /\ ListsAreTrue(world)
         /\ \A s \in Sessions : Members(s) \subseteq Names
         /\ \A n \in Names : world.halts[n] \subseteq Sessions /\ world.since[n] \in Nat
                             /\ world.gone[n] \in Nat
BY WorldAssumption DEF World, PerName, Members

\* What the readiness command gathers, in terms of the world and the partitions.
LEMMA WhatIsGathered ==
  /\ R!Sessions = Sessions
  /\ DOMAIN Gathered.members = {s \in Sessions : Readable(s)}
  /\ \A s \in Sessions : /\ Readable(s) => Gathered.members[s] = Members(s)
                         /\ Gathered.rows[s] = DOMAIN parts[s].rows
                         /\ Gathered.marked[s] = {n \in DOMAIN parts[s].rows : s \in world.halts[n]}
  /\ \A n : R!MemberDays(Gathered, n) = {s \in Sessions : Readable(s) /\ n \in Members(s)}
  /\ \A n : R!Present(Gathered, n) = {s \in Sessions : n \in Gathered.rows[s]}
BY DEF Gathered, R!Sessions, Sessions, R!MemberDays, R!Present

\* Evidence may be incomplete, it is never wrong: a suspension it carries is a halt, a
\* date it carries is the date of the delisting.
LEMMA EvidenceIsTrue ==
  ASSUME world \in Worlds, NEW ev \in Options, NEW n \in Names
  PROVE  ev.halts[n] \subseteq world.halts[n] /\ (ev.goneOn[n] = 0 \/ ev.goneOn[n] = world.gone[n])
<1>1. \A source \in {"skipped", "live", "snapshots", "cited"} :
        Suspensions(Gathered, source)[n] \subseteq world.halts[n]
  <2>1. \A days : Feed(days)[n] \subseteq world.halts[n]
    BY DEF Feed
  <2>2. Suspensions(Gathered, "skipped")[n] \subseteq world.halts[n]
    BY DEF Suspensions
  <2>3. Suspensions(Gathered, "live")[n] \subseteq world.halts[n]
    BY <2>1 DEF Suspensions
  <2>4. Suspensions(Gathered, "snapshots")[n] \subseteq world.halts[n]
    BY <2>1 DEF Suspensions
  <2>5. Suspensions(Gathered, "cited")[n] \subseteq world.halts[n]
    BY <2>1 DEF Suspensions, Cited
  <2> QED BY <2>2, <2>3, <2>4, <2>5
<1>2. \A lists : GoneOn(lists)[n] = 0 \/ GoneOn(lists)[n] = world.gone[n]
  BY DEF GoneOn
<1>3. PICK source, lists, excluded, factors :
        /\ source \in {"skipped", "live", "snapshots", "cited"}
        /\ ev = Evidence(Gathered, source, lists, excluded, factors)
  <2>1. \E source \in {"skipped", "live", "snapshots", "cited"} : \E lists, excluded, factors : ev = Evidence(Gathered, source, lists, excluded, factors)
    BY DEF Options
  <2> QED BY <2>1
<1>4. ev.halts = Suspensions(Gathered, source) /\ ev.goneOn = GoneOn(lists)
  BY <1>3 DEF Evidence
<1> QED BY <1>1, <1>2, <1>3, <1>4

\* The required sessions of a name with a member day that is not known to be halted are
\* those a label of it asks for. (_required_sessions)
LEMMA RequiredIsAsked ==
  ASSUME NEW ev, NEW n, NEW s \in Sessions, n \in Members(s), s \notin ev.halts[n],
         DOMAIN Gathered.members = Sessions
  PROVE  R!RequiredSessions(Gathered, ev, n) = {t \in Sessions : Asks(n, t)}
<1> DEFINE days == {t \in Sessions : n \in Members(t)}
           last == R!Max(days)
<1>1. R!MemberDays(Gathered, n) = days
  BY WhatIsGathered
<1>2. last \in days /\ \A t \in days : t <= last
  BY LastDay
<1> HIDE DEF last
<1>3. R!RequiredSessions(Gathered, ev, n) = days \cup {t \in Sessions : last < t /\ t <= last + Horizon}
  <2>1. ~(days \subseteq ev.halts[n])
    OBVIOUS
  <2>2. R!RequiredSessions(Gathered, ev, n) = days \cup (last + 1 .. R!Min({last + Horizon, Last}))
    BY <1>1, <2>1 DEF R!RequiredSessions, last
  <2> QED BY <1>2, <2>2, LabelTail
<1>4. ASSUME NEW t \in Sessions, n \notin Members(t)
      PROVE  Asks(n, t) <=> last < t /\ t <= last + Horizon
  <2>1. t \in Nat /\ last \in Nat /\ Horizon \in Nat /\ t # last
    BY <1>2, <1>4, WindowAssumption DEF Sessions
  <2>2. Returns(n, t) <=> t < last
    <3>1. ASSUME t < last PROVE Returns(n, t)
      <4>1. last \in t + 1 .. Last
        BY <1>2, <2>1, <3>1, WindowAssumption DEF Sessions
      <4> QED BY <1>2, <4>1 DEF Returns
    <3>2. ASSUME Returns(n, t) PROVE t < last
      <4>1. PICK u \in t + 1 .. Last : n \in Members(u)
        BY <3>2 DEF Returns
      <4>2. u \in days /\ t < u
        BY <2>1, <4>1, WindowAssumption DEF Sessions
      <4>3. u \in Nat
        BY <2>1, <4>1
      <4> QED BY <1>2, <2>1, <4>2, <4>3
    <3> QED BY <3>1, <3>2
  <2>3. ASSUME last < t
        PROVE  (\E u \in Sessions : n \in Members(u) /\ u < t /\ t <= u + Horizon) <=> t <= last + Horizon
    <3>1. \A u \in days : u \in Nat /\ u <= last
      BY <1>2, WindowAssumption DEF Sessions
    <3> QED BY <1>2, <2>1, <2>3, <3>1
  <2> QED BY <1>4, <2>1, <2>2, <2>3 DEF Asks
<1>5. \A t \in days : Asks(n, t)
  BY DEF Asks
<1> QED BY <1>3, <1>4, <1>5

\* What a passing gate says of one member on one decision date: no case is left in which
\* its row, or a row of its label, is missing and nothing accounts for it.
LEMMA GateMeansTrainable ==
  ASSUME world \in Worlds, NEW ev \in Options, R!Passed(Gathered, ev), NEW s \in Decisions(ev),
         NEW n \in Members(s), Traded(n, s), ~Dropped(n, ev)
  PROVE  /\ n \in Gathered.rows[s]
         /\ s + Horizon <= Last
         /\ \A t \in s + 1 .. s + Horizon :
               \/ n \in Gathered.rows[t] \/ ~Traded(n, t)
               \/ Returns(n, t) /\ n \notin Members(t)
<1>1. DOMAIN Gathered.members = Sessions /\ R!Gaps(Gathered, ev) = {}
  BY WhatIsGathered DEF R!Passed
<1>2. s \in Sessions /\ s + Horizon <= Last /\ s \in Nat
  <2>1. R!LabelEnd # 0 /\ R!FactorsLinked(ev)
    BY DEF R!Passed
  <2>2. R!LabelEnd = Last - Horizon /\ Horizon < Last
    BY <2>1, WindowAssumption DEF R!LabelEnd
  <2>3. s \in 1..R!LabelEnd
    BY <2>1 DEF Decisions, R!FactorsLinked
  <2> QED BY <2>2, <2>3, WindowAssumption DEF Sessions
<1>3. n \in Names /\ s \notin ev.halts[n]
  BY <1>2, WorldIsSound, EvidenceIsTrue DEF Traded
<1>4. R!RequiredSessions(Gathered, ev, n) = {t \in Sessions : Asks(n, t)}
  BY <1>1, <1>2, <1>3, RequiredIsAsked
<1>5. n \in R!Judged(Gathered) \ R!Excused(Gathered, ev)
  <2>1. n \in R!Judged(Gathered)
    BY <1>1, <1>2, WhatIsGathered DEF R!Judged, R!Universe
  <2>2. ~R!AllAbsent(Gathered, ev, n)
    BY <1>4, WhatIsGathered DEF R!AllAbsent, Dropped
  <2> QED BY <2>1, <2>2 DEF R!Excused, Dropped
<1>6. R!Unexplained(Gathered, ev, n) = {}
  BY <1>1, <1>5 DEF R!Gaps
<1>7. ASSUME NEW t \in Sessions, Asks(n, t), Traded(n, t)
      PROVE  n \in Gathered.rows[t]
  <2>1. t \in R!Listed(ev, n)
    BY <1>3, <1>7, EvidenceIsTrue, WhatIsGathered DEF R!Listed, Traded, Listed
  <2>2. t \notin ev.halts[n]
    BY <1>3, <1>7, EvidenceIsTrue DEF Traded
  <2> QED BY <1>4, <1>6, <1>7, <2>1, <2>2, WhatIsGathered DEF R!Unexplained
<1>8. Asks(n, s)
  BY DEF Asks
<1>9. ASSUME NEW t \in s + 1 .. s + Horizon
      PROVE  \/ n \in Gathered.rows[t] \/ ~Traded(n, t)
             \/ Returns(n, t) /\ n \notin Members(t)
  <2>1. t \in Sessions /\ s < t /\ t <= s + Horizon
    BY <1>2, <1>9, WindowAssumption DEF Sessions
  <2>2. Asks(n, t) \/ (Returns(n, t) /\ n \notin Members(t))
    BY <1>2, <2>1 DEF Asks
  <2> QED BY <1>7, <2>1, <2>2
<1> QED BY <1>2, <1>7, <1>8, <1>9

\* The gate is sound in every market there can be, whatever was ingested.
LEMMA ReadyMeansTrainable == world \in Worlds => ReadyIsTrainable
<1> SUFFICES ASSUME world \in Worlds PROVE ReadyIsTrainable
  OBVIOUS
<1> QED BY GateMeansTrainable DEF ReadyIsTrainable

-----------------------------------------------------------------------------
(* The ingest: the invariant.                                              *)

\* What a request of a session asks for, with a tail.
AskedFor(s, tail) ==
  Members(s) \cup UNION {Members(t) : t \in {u \in Sessions : Readable(u) /\ u < s /\ u + tail >= s}}

\* The names the vendor holds a row of.
Held(s) == {n \in Names : InVendor(n, s)}

\* A run has the whole window before it and asks for a session what the window says.
RunSound ==
  /\ run \in [on : BOOLEAN, window : SUBSET Sessions, tail : {0, Horizon}, done : SUBSET Sessions,
              asked : SUBSET Names, failed : BOOLEAN, published : BOOLEAN]
  /\ run.on => run.window = Sessions
  /\ run.asked # {} =>
       /\ run.on /\ run.window # run.done /\ Readable(Current)
       /\ run.asked = AskedFor(Current, run.tail)

\* A partition whose answer was whole holds what was asked and the vendor has.
PartsSound ==
  /\ DOMAIN parts = Sessions
  /\ \A s \in Sessions : parts[s].whole =>
       Readable(s) /\ DOMAIN parts[s].rows = AskedFor(s, parts[s].tail) \cap Held(s)

\* The inductive invariant.  The research-v1 property is an invariant by itself; what is
\* on disk is tied to the request that put it there, by the tail it was made with.
WindowSound == world \in Worlds /\ RunSound /\ PartsSound /\ VerifiedRows

-----------------------------------------------------------------------------
(* The calendar, and what steps leave alone.                               *)

\* A payload without holes that reaches from before a range to its end covers it.
LEMMA CertifiedCovers ==
  ASSUME NEW lo \in Int, NEW hi \in Int, NEW first \in Nat, NEW last \in Nat,
         Certifies(lo..hi, first, last)
  PROVE  first..last \subseteq lo..hi
<1>1. lo..hi # {} /\ Max(lo..hi) >= last /\ Min(lo..hi) <= first
  BY DEF Certifies
<1>2. lo <= hi
  BY <1>1
<1>3. Max(lo..hi) \in lo..hi
  <2>1. hi \in lo..hi /\ \A y \in lo..hi : hi >= y
    BY <1>2
  <2>2. \E x \in lo..hi : \A y \in lo..hi : x >= y
    BY <2>1
  <2> QED BY <2>2 DEF Max
<1>4. Min(lo..hi) \in lo..hi
  <2>1. lo \in lo..hi /\ \A y \in lo..hi : lo <= y
    BY <1>2
  <2>2. \E x \in lo..hi : \A y \in lo..hi : x <= y
    BY <2>1
  <2> QED BY <2>2 DEF Min
<1> QED BY <1>1, <1>3, <1>4

\* Whichever vendor's calendar is accepted, the window of a run is the whole window.
LEMMA PayloadCovers ==
  ASSUME NEW newest \in Newest, NEW payload \in {EastMoney(newest), Sina(newest)},
         Certifies(payload, 1, Last)
  PROVE  payload \cap Sessions = Sessions
<1>1. newest \in Nat /\ Last \in Nat /\ Bars \in Nat
  BY WindowAssumption
<1>2. CASE payload = EastMoney(newest)
  <2>1. 1..Last \subseteq 0..newest
    BY <1>1, <1>2, CertifiedCovers DEF EastMoney
  <2> QED BY <1>2, <2>1 DEF EastMoney, Sessions
<1>3. CASE payload = Sina(newest)
  <2>1. newest + 1 - Bars \in Int /\ newest \in Int
    BY <1>1
  <2>2. 1..Last \subseteq newest + 1 - Bars .. newest
    BY <1>1, <1>3, <2>1, CertifiedCovers DEF Sina
  <2> QED BY <1>3, <2>2 DEF Sina, Sessions
<1> QED BY <1>2, <1>3

\* The session a run is at is one of the window's and is not done.
LEMMA CurrentIsOpen ==
  ASSUME RunSound, run.on, run.window # run.done
  PROVE  Current \in Sessions /\ Current \notin run.done
<1>1. run.window \ run.done \in SUBSET Sessions /\ run.window \ run.done # {}
  BY DEF RunSound
<1> QED BY <1>1, FirstOpen DEF Current

\* No step changes the market.
LEMMA WorldStands ==
  ASSUME world' = world
  PROVE  /\ \A s : Readable(s)' = Readable(s) /\ Members(s)' = Members(s)
         /\ \A s, tail : AskedFor(s, tail)' = AskedFor(s, tail)
         /\ \A s : Held(s)' = Held(s)
         /\ \A n, s : Traded(n, s)' = Traded(n, s)
<1>1. \A s : Readable(s)' = Readable(s) /\ Members(s)' = Members(s)
  BY DEF Readable, Members
<1>2. \A s, tail : AskedFor(s, tail)' = AskedFor(s, tail)
  BY DEF AskedFor, Readable, Members
<1>3. \A n, s : Traded(n, s)' = Traded(n, s) /\ InVendor(n, s)' = InVendor(n, s)
  BY DEF Traded, Listed, InVendor
<1>4. \A s : Held(s)' = Held(s)
  BY <1>3 DEF Held
<1> QED BY <1>1, <1>2, <1>3, <1>4

\* A request asks for known instruments.
LEMMA AskedAreNames ==
  ASSUME world \in Worlds, NEW s \in Sessions, NEW tail
  PROVE  AskedFor(s, tail) \subseteq Names
BY WorldIsSound DEF AskedFor

\* The partitions stay sound when none is written.
LEMMA PartsStand ==
  ASSUME PartsSound, world' = world, parts' = parts
  PROVE  PartsSound'
BY WorldStands DEF PartsSound

\* So does the research-v1 partition.
LEMMA OldStands ==
  ASSUME VerifiedRows, world' = world, old' = old
  PROVE  VerifiedRows'
BY WorldStands DEF VerifiedRows

\* A partition written for a request of a readable session is sound: a whole answer
\* leaves in it what was asked and the vendor holds. (Write)
LEMMA Written ==
  ASSUME PartsSound, world' = world, NEW s \in Sessions, Readable(s), NEW tail, NEW answer,
         NEW asked, asked = AskedFor(s, tail), Write(asked, s, answer, tail)
  PROVE  PartsSound'
<1>1. parts' = [parts EXCEPT ![s] = [tail |-> tail, whole |-> answer = Full(s),
                                     rows |-> D!Delivered(asked, answer)]]
  BY DEF Write
<1>2. DOMAIN parts' = Sessions
  BY <1>1 DEF PartsSound
<1>3. ASSUME NEW t \in Sessions, parts'[t].whole
      PROVE  Readable(t) /\ DOMAIN parts'[t].rows = AskedFor(t, parts'[t].tail) \cap Held(t)
  <2>1. CASE t # s
    BY <1>1, <1>3, <2>1 DEF PartsSound
  <2>2. CASE t = s
    <3>1. /\ parts'[s].whole = (answer = Full(s)) /\ parts'[s].tail = tail
          /\ parts'[s].rows = D!Delivered(asked, answer)
      BY <1>1 DEF PartsSound
    <3>2. answer = Full(s)
      BY <1>3, <2>2, <3>1
    <3>3. DOMAIN answer.rows = Held(s)
      BY <3>2 DEF Full, Rows, Held
    <3>4. DOMAIN D!Delivered(asked, answer) = asked \cap DOMAIN answer.rows
      BY DEF D!Delivered, D!Restrict
    <3> QED BY <2>2, <3>1, <3>3, <3>4
  <2> QED BY <2>1, <2>2
<1> QED BY <1>2, <1>3, WorldStands DEF PartsSound

-----------------------------------------------------------------------------
(* Each step.                                                              *)

\* Nothing is ingested at first.
LEMMA WindowInitSound == Init => WindowSound
<1> SUFFICES ASSUME Init PROVE WindowSound
  OBVIOUS
<1>1. RunSound
  BY DEF Init, RunSound, Off
<1>2. PartsSound
  BY DEF Init, PartsSound, NoPart
<1> QED BY <1>1, <1>2 DEF Init, WindowSound, VerifiedRows

\* A session that is skipped or fails leaves the run sound.
LEMMA PassesSound ==
  ASSUME RunSound, run.on, run.window # run.done, NEW failed \in BOOLEAN, Passes(failed)
  PROVE  RunSound'
<1>1. run' = [run EXCEPT !.done = @ \cup {Current}, !.asked = {}, !.failed = @ \/ failed]
  BY DEF Passes
<1>2. Current \in Sessions
  BY CurrentIsOpen
<1> HIDE DEF Current
<1> QED BY <1>1, <1>2 DEF RunSound

\* A run that starts has the whole window before it.
LEMMA StartSound ==
  ASSUME WindowSound, Start
  PROVE  WindowSound'
<1>0. PICK newest \in Newest, tail \in {0, Horizon} :
        \E payload \in {EastMoney(newest), Sina(newest)} :
          /\ Certifies(payload, 1, Last)
          /\ run' = [Off EXCEPT !.on = TRUE, !.tail = tail, !.window = payload \cap Sessions]
  BY DEF Start
<1>1. PICK payload \in {EastMoney(newest), Sina(newest)} :
        /\ Certifies(payload, 1, Last)
        /\ run' = [Off EXCEPT !.on = TRUE, !.tail = tail, !.window = payload \cap Sessions]
  BY <1>0
<1>2. payload \cap Sessions = Sessions
  BY <1>1, PayloadCovers
<1>3. run' = [on |-> TRUE, window |-> Sessions, tail |-> tail, done |-> {}, asked |-> {},
              failed |-> FALSE, published |-> FALSE]
  BY <1>1, <1>2 DEF Off
<1>4. RunSound'
  BY <1>3 DEF RunSound
<1> QED BY <1>4, PartsStand, OldStands DEF Start, WindowSound

\* A run that is over asks for nothing.
LEMMA OffSound ==
  ASSUME run' = Off
  PROVE  RunSound'
BY DEF RunSound, Off

\* Skip and NoMembers preserve WindowSound.
LEMMA SkipSound ==
  ASSUME WindowSound, Skip \/ NoMembers
  PROVE  WindowSound'
<1>1. Visiting /\ \E failed \in BOOLEAN : Passes(failed)
  BY DEF Skip, NoMembers
<1>2. RunSound'
  BY <1>1, PassesSound DEF Visiting, WindowSound
<1> QED BY <1>2, PartsStand, OldStands DEF Skip, NoMembers, WindowSound

\* Resolve preserves it: the tail is looked up in the run's window, which is all of it.
LEMMA ResolveSound ==
  ASSUME WindowSound, Resolve
  PROVE  WindowSound'
<1>1. RunSound /\ run.on /\ run.window # run.done /\ run.window = Sessions
  BY DEF Resolve, Visiting, WindowSound, RunSound
<1>2. Current \in Sessions
  BY <1>1, CurrentIsOpen
<1>3. run.tail \in {0, Horizon}
  BY <1>1 DEF RunSound
<1>4. Members(Current) \cup TailMembers(Current, run.tail) = AskedFor(Current, run.tail)
  BY <1>1 DEF TailMembers, AskedFor
<1>5. run' = [run EXCEPT !.asked = AskedFor(Current, run.tail)]
  BY <1>4 DEF Resolve
<1>6. AskedFor(Current, run.tail) \subseteq Names
  BY <1>2, AskedAreNames DEF WindowSound
<1>7. /\ run'.window = run.window /\ run'.done = run.done /\ run'.tail = run.tail /\ run'.on
      /\ run'.asked = AskedFor(Current, run.tail)
      /\ run' \in [on : BOOLEAN, window : SUBSET Sessions, tail : {0, Horizon},
                   done : SUBSET Sessions, asked : SUBSET Names, failed : BOOLEAN,
                   published : BOOLEAN]
  BY <1>1, <1>5, <1>6 DEF RunSound
<1>8. Current' = Current
  BY <1>7 DEF Current
<1>9. Readable(Current)' /\ run'.asked = AskedFor(Current, run.tail)'
  <2>1. world' = world /\ Readable(Current)
    BY DEF Resolve
  <2>2. Readable(Current') /\ run'.asked = AskedFor(Current', run'.tail)
    BY <1>7, <1>8, <2>1
  <2> QED BY <2>1, <2>2 DEF Readable, AskedFor, Members
<1>10. RunSound'
  BY <1>1, <1>7, <1>9 DEF RunSound
<1> QED BY <1>10, PartsStand, OldStands DEF Resolve, WindowSound

\* A session that is fetched preserves it, whatever the answer.
LEMMA IngestSound ==
  ASSUME WindowSound, NEW answer, Ingest(answer)
  PROVE  WindowSound'
<1>1. RunSound /\ PartsSound /\ world' = world /\ old' = old /\ run.asked # {}
  BY DEF Ingest, WindowSound
<1>2. /\ run.on /\ run.window # run.done /\ run.window = Sessions /\ Readable(Current)
      /\ run.asked = AskedFor(Current, run.tail)
  BY <1>1 DEF RunSound
<1>3. Current \in Sessions
  BY <1>1, <1>2, CurrentIsOpen
<1>4. CASE /\ Write(run.asked, Current, answer, run.tail)
           /\ run' = [run EXCEPT !.done = @ \cup {Current}, !.asked = {}, !.published = TRUE]
  <2>1. RunSound'
    <3> HIDE DEF Current
    <3> QED BY <1>1, <1>3, <1>4 DEF RunSound
  <2>2. PartsSound'
    BY <1>1, <1>2, <1>3, <1>4, Written
  <2> QED BY <1>1, <2>1, <2>2, OldStands DEF WindowSound
<1>5. CASE Passes(TRUE) /\ parts' = parts
  BY <1>1, <1>2, <1>5, PassesSound, PartsStand, OldStands DEF WindowSound
<1> QED BY <1>4, <1>5 DEF Ingest

\* uq-ingest daily preserves it: a request without a tail asks for the members.
LEMMA DailyV2Sound ==
  ASSUME WindowSound, DailyV2
  PROVE  WindowSound'
<1>1. PICK s, answer : s \in Sessions /\ Readable(s) /\ Write(Members(s), s, answer, 0)
  <2>1. \E s \in Sessions : \E answer : Readable(s) /\ Write(Members(s), s, answer, 0)
    BY DEF DailyV2
  <2> QED BY <2>1
<1>2. Members(s) = AskedFor(s, 0)
  <2>1. s \in Nat /\ \A u \in Sessions : u < s => ~(u + 0 >= s)
    BY <1>1, WindowAssumption DEF Sessions
  <2> QED BY <2>1 DEF AskedFor
<1>3. world' = world /\ old' = old /\ run' = run
  BY DEF DailyV2
<1>4. PartsSound'
  BY <1>1, <1>2, <1>3, Written DEF WindowSound
<1>5. RunSound'
  <2>1. RunSound
    BY DEF WindowSound
  <2>2. Current' = Current
    BY <1>3 DEF Current
  <2>3. Readable(Current)' = Readable(Current) /\ AskedFor(Current, run.tail)' = AskedFor(Current, run.tail)
    BY <1>3, <2>2 DEF Readable, AskedFor, Members
  <2> QED BY <1>3, <2>1, <2>3 DEF RunSound
<1> QED BY <1>3, <1>4, <1>5, OldStands DEF WindowSound

\* An absence the lists or the notices of the day explain is one of a name that was not
\* traded. (classify_missing)
LEMMA AbsenceExplained ==
  ASSUME world \in Worlds, NEW n \in Names, NEW missing,
         n \in D!Explained(world.facts, missing, 1)
  PROVE  ~Traded(n, 1)
<1> DEFINE fact == world.facts[n]
<1>1. /\ fact \in Listing
      /\ fact.halted => 1 \in world.halts[n]
      /\ fact.listedOn # 0 => fact.listedOn = world.since[n]
      /\ fact.delistedOn # 0 => fact.delistedOn = world.gone[n]
      /\ (fact.board = "main" /\ ~fact.listed /\ fact.delistedOn = 0) =>
            (world.since[n] > 1 \/ world.gone[n] = 1)
  BY WorldIsSound DEF ListsAreTrue, World
<1>2. world.since[n] \in Nat /\ world.gone[n] \in Nat
  BY WorldIsSound
<1>3. fact.listedOn \in Nat /\ fact.delistedOn \in Nat
  BY <1>1 DEF Listing
<1>4. D!Notified(fact) \/ D!Classified(fact, 1) # "unknown"
  BY DEF D!Explained
<1> HIDE DEF fact
<1>5. CASE D!Notified(fact)
  BY <1>1, <1>5 DEF D!Notified, Traded
<1>6. CASE D!Classified(fact, 1) # "unknown"
  <2>1. CASE fact.board = "bse"
    <3>1. fact.listedOn # 0 /\ 1 < fact.listedOn
      BY <1>6, <2>1 DEF D!Classified, D!ClassifiedBeijing
    <3>2. ~(1 >= world.since[n])
      BY <1>1, <1>2, <3>1
    <3> QED BY <3>2 DEF Traded, Listed
  <2>2. CASE fact.board # "bse" /\ fact.delistedOn # 0
    <3>1. 1 >= fact.delistedOn \/ (fact.listedOn # 0 /\ 1 < fact.listedOn)
      BY <1>6, <2>2 DEF D!Classified
    <3>2. (world.gone[n] # 0 /\ ~(1 < world.gone[n])) \/ ~(1 >= world.since[n])
      BY <1>1, <1>2, <2>2, <3>1
    <3> QED BY <3>2 DEF Traded, Listed
  <2>3. CASE fact.board # "bse" /\ fact.delistedOn = 0
    <3>1. fact.board = "main" /\ ~fact.listed
      BY <1>6, <2>3 DEF D!Classified
    <3>2. (world.gone[n] # 0 /\ ~(1 < world.gone[n])) \/ ~(1 >= world.since[n])
      BY <1>1, <1>2, <2>3, <3>1
    <3> QED BY <3>2 DEF Traded, Listed
  <2> QED BY <2>1, <2>2, <2>3
<1> QED BY <1>4, <1>5, <1>6

\* What the gate of a research-v1 profile lets through has every traded name and agrees
\* with what it was compared with.
LEMMA PublishedIsVerified ==
  ASSUME world \in Worlds, NEW profile \in {D!TdxOnly, D!CrossCheck}, NEW tdx, NEW tushare,
         D!Publishes(profile, Names, 1, tdx, tushare, world.facts)
  PROVE  /\ \A n \in Names : Traded(n, 1) => n \in DOMAIN tdx.rows
         /\ profile.cross =>
              /\ \A n \in DOMAIN tdx.rows \cap DOMAIN tushare.rows : tdx.rows[n] = tushare.rows[n]
              /\ Cardinality(DOMAIN tdx.rows \cap DOMAIN tushare.rows) * CoverDen
                    >= Cardinality(DOMAIN tdx.rows) * CoverNum
<1> DEFINE missing == Names \ DOMAIN tdx.rows
<1>1. profile.verified
  BY DEF D!TdxOnly, D!CrossCheck
<1>2. D!Explained(world.facts, missing, 1) = missing
  BY <1>1 DEF D!Publishes
<1>3. \A n \in missing : ~Traded(n, 1)
  BY <1>2, AbsenceExplained
<1>4. D!GateAccepts(profile.cross, tdx.rows, tushare.rows)
  BY DEF D!Publishes
<1>0. \A S : D!Cardinality(S) = Cardinality(S)
  BY DEF D!Cardinality, Cardinality
<1>5. profile.cross =>
        /\ \A n \in DOMAIN tdx.rows \cap DOMAIN tushare.rows : tdx.rows[n] = tushare.rows[n]
        /\ Cardinality(DOMAIN tdx.rows \cap DOMAIN tushare.rows) * CoverDen
              >= Cardinality(DOMAIN tdx.rows) * CoverNum
  BY <1>0, <1>4 DEF D!GateAccepts, D!Compared
<1> QED BY <1>3, <1>5

\* uq-ingest daily --pipeline v1 preserves WindowSound.
LEMMA DailyV1Sound ==
  ASSUME WindowSound, DailyV1
  PROVE  WindowSound'
<1>1. PICK profile \in {D!TdxOnly, D!CrossCheck}, failed \in SUBSET Names,
           quotes \in Some(1), others \in Others(1) :
        LET tdx == D!TdxFetch(Names, [fault |-> "none", failed |-> failed, rows |-> quotes])
            tushare == D!TushareFetch(Names, [fault |-> "none", rows |-> others])
        IN  /\ D!Publishes(profile, Names, 1, tdx, tushare, world.facts)
            /\ old' = [cross |-> profile.cross, rows |-> tdx.rows, other |-> tushare.rows]
  BY DEF DailyV1
<1> DEFINE tdx == D!TdxFetch(Names, [fault |-> "none", failed |-> failed, rows |-> quotes])
           tushare == D!TushareFetch(Names, [fault |-> "none", rows |-> others])
<1>2. /\ D!Publishes(profile, Names, 1, tdx, tushare, world.facts)
      /\ old' = [cross |-> profile.cross, rows |-> tdx.rows, other |-> tushare.rows]
  BY <1>1
<1> HIDE DEF tdx, tushare
<1>3. /\ \A n \in Names : Traded(n, 1) => n \in DOMAIN tdx.rows
      /\ profile.cross =>
           /\ \A n \in DOMAIN tdx.rows \cap DOMAIN tushare.rows : tdx.rows[n] = tushare.rows[n]
           /\ Cardinality(DOMAIN tdx.rows \cap DOMAIN tushare.rows) * CoverDen
                 >= Cardinality(DOMAIN tdx.rows) * CoverNum
  BY <1>2, PublishedIsVerified DEF WindowSound
<1>4. world' = world /\ parts' = parts /\ run' = run
  BY DEF DailyV1
<1>5. old'.rows = tdx.rows /\ old'.other = tushare.rows /\ old'.cross = profile.cross
  BY <1>2
<1>6. VerifiedRows'
  BY <1>3, <1>4, <1>5, WorldStands DEF VerifiedRows
<1>7. RunSound'
  <2>1. RunSound /\ Current' = Current
    BY <1>4 DEF WindowSound, Current
  <2>2. Readable(Current)' = Readable(Current) /\ AskedFor(Current, run.tail)' = AskedFor(Current, run.tail)
    BY <1>4, <2>1 DEF Readable, AskedFor, Members
  <2> QED BY <1>4, <2>1, <2>2 DEF RunSound
<1> QED BY <1>4, <1>6, <1>7, PartsStand DEF WindowSound

\* A step that changes nothing preserves it.
LEMMA WindowStutter ==
  ASSUME WindowSound, UNCHANGED vars
  PROVE  WindowSound'
<1>1. world' = world /\ parts' = parts /\ run' = run /\ old' = old
  BY DEF vars
<1>2. RunSound'
  <2>1. RunSound /\ Current' = Current
    BY <1>1 DEF WindowSound, Current
  <2>2. Readable(Current)' = Readable(Current) /\ AskedFor(Current, run.tail)' = AskedFor(Current, run.tail)
    BY <1>1, <2>1 DEF Readable, AskedFor, Members
  <2> QED BY <1>1, <2>1, <2>2 DEF RunSound
<1> QED BY <1>1, <1>2, PartsStand, OldStands DEF WindowSound

\* Every step preserves it.
LEMMA WindowStepSound == WindowSound /\ [Next]_vars => WindowSound'
<1> SUFFICES ASSUME WindowSound, [Next]_vars PROVE WindowSound'
  OBVIOUS
<1>1. CASE Start
  BY <1>1, StartSound
<1>2. CASE Skip \/ NoMembers
  BY <1>2, SkipSound
<1>3. CASE Resolve
  BY <1>3, ResolveSound
<1>4. CASE Fetch \/ FetchFaulty
  <2>1. \E answer : Ingest(answer)
    BY <1>4 DEF Fetch, FetchFaulty
  <2> QED BY <2>1, IngestSound
<1>5. CASE Finish \/ Stopped
  <2>1. run' = Off /\ world' = world /\ parts' = parts /\ old' = old
    BY <1>5 DEF Finish, Stopped
  <2> QED BY <2>1, OffSound, PartsStand, OldStands DEF WindowSound
<1>6. CASE DailyV2
  BY <1>6, DailyV2Sound
<1>7. CASE DailyV1
  BY <1>7, DailyV1Sound
<1>8. CASE UNCHANGED vars
  BY <1>8, WindowStutter
<1> QED BY <1>1, <1>2, <1>3, <1>4, <1>5, <1>6, <1>7, <1>8 DEF Next

\* Every reachable state of the window satisfies WindowSound.
THEOREM WindowInvariance == Spec => []WindowSound
<1> QED BY WindowInitSound, WindowStepSound, PTL DEF Spec

-----------------------------------------------------------------------------
(* The ingest and the gate together.                                       *)

\* A window ingested in full is asked exactly what the gate requires of it: no required
\* row is missing, and no row contradicts the evidence.
LEMMA FullMeansReady ==
  ASSUME world \in Worlds, PartsSound,
         \A s \in Sessions : parts[s].whole /\ parts[s].tail = Horizon,
         \A n \in Names : world.holes[n] = {},
         NEW ev, ev = Evidence(Gathered, "cited", "dated", {}, R!Unchecked)
  PROVE  R!Gaps(Gathered, ev) = {} /\ R!Conflicts(Gathered, ev) = {}
<1>1. \A s \in Sessions : Readable(s) /\ Gathered.rows[s] = AskedFor(s, Horizon) \cap Held(s)
  BY WhatIsGathered DEF PartsSound
<1>2. R!Judged(Gathered) \subseteq Names
  <2>1. \A s \in DOMAIN Gathered.members : Gathered.members[s] \subseteq Names
    BY WhatIsGathered, WorldIsSound
  <2>2. \A s \in Sessions : Gathered.rows[s] \subseteq Names
    BY <1>1 DEF Held
  <2> QED BY <2>1, <2>2, WhatIsGathered DEF R!Judged, R!Universe, R!WithBars
<1>3. /\ ev.goneOn = world.gone
      /\ \A n \in Names : ev.halts[n] = world.halts[n]
  <2>1. ev.goneOn = world.gone
    BY DEF Evidence, GoneOn
  <2>2. ev.halts = [n \in Names |-> Feed(Sessions)[n] \cup Cited[n]]
    BY DEF Evidence, Suspensions
  <2>3. \A n \in Names : Feed(Sessions)[n] \subseteq world.halts[n]
    BY DEF Feed
  <2>4. \A n \in Names : ev.halts[n] = Feed(Sessions)[n] \cup world.halts[n]
    BY <2>2 DEF Cited
  <2>5. ASSUME NEW n \in Names
        PROVE  Feed(Sessions)[n] \cup world.halts[n] = world.halts[n]
    BY <2>3
  <2> QED BY <2>1, <2>4, <2>5
<1>4. ASSUME NEW n \in Names, NEW s \in R!Unexplained(Gathered, ev, n)
      PROVE  FALSE
  <2> DEFINE days == {t \in Sessions : n \in Members(t)}
             last == R!Max(days)
  <2>1. R!MemberDays(Gathered, n) = days
    BY <1>1, WhatIsGathered
  <2>2. /\ s \in R!RequiredSessions(Gathered, ev, n) /\ s \in R!Listed(ev, n)
        /\ s \notin world.halts[n] /\ s \notin R!Present(Gathered, n)
    BY <1>3, <1>4 DEF R!Unexplained
  <2>3. s \in Sessions /\ (world.gone[n] = 0 \/ s < world.gone[n])
    BY <1>3, <2>2, WhatIsGathered DEF R!Listed
  <2>4. days # {}
    BY <2>1, <2>2 DEF R!RequiredSessions
  <2>5. last \in days
    BY <2>4, LastDay
  <2> HIDE DEF last
  <2>6. s \in days \/ (last < s /\ s <= last + Horizon)
    <3>1. R!RequiredSessions(Gathered, ev, n) \subseteq
             days \cup (last + 1 .. R!Min({last + Horizon, Last}))
      BY <2>1 DEF R!RequiredSessions, last
    <3> QED BY <2>2, <2>5, <3>1, LabelTail
  <2>7. PICK t \in days : t <= s /\ (t = s \/ (t < s /\ s <= t + Horizon))
    <3>1. s \in Nat /\ last \in Nat
      BY <2>3, <2>5, WindowAssumption DEF Sessions
    <3> QED BY <2>5, <2>6, <3>1
  <2>8. n \in AskedFor(s, Horizon)
    <3>1. s \in Nat /\ t \in Nat /\ Horizon \in Nat
      BY <2>3, WindowAssumption DEF Sessions
    <3>2. CASE t = s
      BY <3>2 DEF AskedFor
    <3>3. CASE t < s /\ s <= t + Horizon
      <4>1. t + Horizon >= s
        BY <3>1, <3>3
      <4> QED BY <1>1, <3>3, <4>1 DEF AskedFor
    <3> QED BY <2>7, <3>2, <3>3
  <2>9. Traded(n, s)
    <3>1. world.since[n] <= t
      BY WorldIsSound DEF NoneTooEarly, Members
    <3>2. s >= world.since[n]
      <4>1. s \in Nat /\ t \in Nat /\ world.since[n] \in Nat
        BY <2>3, WorldIsSound, WindowAssumption DEF Sessions
      <4> QED BY <2>7, <3>1, <4>1
    <3> QED BY <2>2, <2>3, <3>2 DEF Traded, Listed
  <2>10. n \in Held(s)
    BY <2>9 DEF Held, InVendor
  <2> QED BY <1>1, <2>2, <2>3, <2>8, <2>10, WhatIsGathered
<1>5. R!Gaps(Gathered, ev) = {}
  BY <1>2, <1>4 DEF R!Gaps
<1>6. ASSUME NEW n \in Names, NEW s \in ev.halts[n] \cap R!Present(Gathered, n)
      PROVE  n \in Gathered.marked[s]
  BY <1>3, <1>6, WhatIsGathered
<1>7. R!Conflicts(Gathered, ev) = {}
  BY <1>2, <1>6 DEF R!Conflicts
<1> QED BY <1>5, <1>7

\* The same, of a state.
LEMMA FullWindowMeansReady == WindowSound => FullWindowIsReady
<1> SUFFICES ASSUME WindowSound PROVE FullWindowIsReady
  OBVIOUS
<1> QED BY FullMeansReady DEF FullWindowIsReady, WindowSound

\* A verified-only or cross-checked session of research-v1 is complete and agrees with
\* what it was checked against, whatever TDX and Tushare answered. (VerifiedRows)
THEOREM VerifiedOnly == Spec => []VerifiedRows
<1>1. WindowSound => VerifiedRows
  BY DEF WindowSound
<1> QED BY <1>1, WindowInvariance, PTL

\* Whatever was ingested, in whatever order and with whatever failures, and whatever true
\* evidence the operator brings: when the gate passes, the decisions it offers can be
\* trained on. (ReadyIsTrainable)
THEOREM TrainableOnly == Spec => []ReadyIsTrainable
<1>1. WindowSound => ReadyIsTrainable
  BY ReadyMeansTrainable DEF WindowSound
<1> QED BY <1>1, WindowInvariance, PTL

\* The ingest asks for what the gate will want: a window ingested in full with the
\* label horizon as its tail has no gap and no conflict. (FullWindowIsReady)
THEOREM FullWindowReady == Spec => []FullWindowIsReady
<1> QED BY FullWindowMeansReady, WindowInvariance, PTL

=============================================================================
