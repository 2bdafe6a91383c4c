----------------------------- MODULE BarWindow -----------------------------
(***************************************************************************)
(* A window of daily bars, filled by scripts/ingest_window.py one session  *)
(* at a time and by uq-ingest daily next to it, and judged by the          *)
(* readiness gate.                                                         *)
(*                                                                         *)
(* The world is what is true of the market: the members a snapshot shows   *)
(* on each session, the sessions whose snapshot cannot be read, the        *)
(* sessions each name is halted, those of them for which the vendor keeps  *)
(* a row of no volume, the traded sessions the vendor has no row for, the  *)
(* halted sessions its suspension feed omits, the first session each name  *)
(* is listed and the first it no longer is (0: still listed), and what the *)
(* exchange lists say of each name.  It is chosen at the start and does    *)
(* not change.                                                             *)
(***************************************************************************)
EXTENDS Naturals, FiniteSets, FiniteSetsExt, Functions

CONSTANTS
    Order, BatchSize, SessionSize, CoverNum, CoverDen,
    Last, Horizon, MinSessions, Warmup,
    Worlds,         \* the worlds the model starts in
    Newest,         \* the newest session the calendar vendor may have published
    Bars,           \* the sessions the Sina payload reaches back
    MaxFaults       \* bound: faults of vendors and interruptions of the script

ASSUME WindowAssumption ==
    /\ Last \in Nat /\ Horizon \in Nat /\ MinSessions \in Nat /\ Warmup \in Nat
    /\ CoverNum \in Nat /\ CoverDen \in Nat
    /\ Newest \subseteq Nat /\ Bars \in Nat

D == INSTANCE DailyIngest
R == INSTANCE Readiness

Sessions == 1..Last
Names == D!Names
NoPart == [tail |-> 0, whole |-> FALSE, rows |-> D!NoRows]

\* What an exchange list and the notices of the day say of a name.
Listing == [board : {"main", "bse", "other"}, listed : BOOLEAN, listedOn : Nat,
            delistedOn : Nat, halted : BOOLEAN]
PerName == [Names -> SUBSET Sessions]
World == [line : {"v1", "v2"}, members : [Sessions -> SUBSET Names], unread : SUBSET Sessions,
          halts : PerName, kept : PerName, holes : PerName, silent : PerName,
          since : [Names -> Nat], gone : [Names -> Nat], facts : [Names -> Listing]]

\* A snapshot shows nobody before the day it is listed.
NoneTooEarly(w) == \A s \in Sessions : \A n \in w.members[s] : w.since[n] <= s

\* What the lists say is true: a notice is of a halt, a date is the date, and a name
\* of the main boards that neither list carries was not listed on the session.
ListsAreTrue(w) ==
    \A n \in Names :
        LET fact == w.facts[n]
        IN  /\ fact.halted => 1 \in w.halts[n]
            /\ fact.listedOn # 0 => fact.listedOn = w.since[n]
            /\ fact.delistedOn # 0 => fact.delistedOn = w.gone[n]
            /\ fact.board = "main" /\ ~fact.listed /\ fact.delistedOn = 0 =>
                  w.since[n] > 1 \/ w.gone[n] = 1

ASSUME WorldAssumption ==
    /\ Worlds \subseteq World
    /\ \A w \in Worlds : NoneTooEarly(w) /\ ListsAreTrue(w)

VARIABLES
    world,      \* the market
    parts,      \* the bars_daily v2 partition of each session, or NoPart, with the
                \* tail its request was made with and whether it was answered whole
    old,        \* one bars_daily research-v1 partition, or NoPart
    run,        \* the window script
    summary,    \* the status of the last summary written
    faults      \* faults so far

vars == <<world, parts, old, run, summary, faults>>

-----------------------------------------------------------------------------
(* The market. *)

Listed(n, s) == s >= world.since[n] /\ (world.gone[n] = 0 \/ s < world.gone[n])
Traded(n, s) == Listed(n, s) /\ s \notin world.halts[n]
InVendor(n, s) ==
    \/ Traded(n, s) /\ s \notin world.holes[n]
    \/ Listed(n, s) /\ s \in world.kept[n]

\* The rows the vendor holds for a session.
Rows(s) == [n \in {m \in Names : InVendor(m, s)} |-> 1]

\* What the vendor may answer: everything, less one name that it should have had,
\* or a failed call, a rejected token, a response at its row ceiling.
Full(s) == [fault |-> "none", rows |-> Rows(s)]
Faulty(s) ==
    {[fault |-> f, rows |-> D!NoRows] : f \in {"upstream_error", "auth_failed"}}
        \cup {[fault |-> "none", rows |-> Restrict(Rows(s), DOMAIN Rows(s) \ {n})] :
                 n \in DOMAIN Rows(s)}

Readable(s) == s \notin world.unread
Members(s) == world.members[s]

-----------------------------------------------------------------------------
(* The calendar: the sessions of an index, from one of two vendors.  A      *)
(* payload answers a range only when it reaches from before its start to    *)
(* its end.                                                                 *)

EastMoney(newest) == 0..newest      \* looks back far beyond the window
Sina(newest) == newest + 1 - Bars .. newest

Certifies(payload, first, last) ==
    payload # {} /\ Max(payload) >= last /\ Min(payload) <= first

-----------------------------------------------------------------------------
(* The window script. *)

Off == [on |-> FALSE, window |-> {}, tail |-> 0, done |-> {}, asked |-> {},
        failed |-> FALSE, published |-> FALSE]
Idle == ~run.on

\* It starts when the calendar certifies the window, with the tail it is given.
Start ==
    /\ world.line = "v2" /\ Idle
    /\ \E newest \in Newest, tail \in {0, Horizon} :
       \E payload \in {EastMoney(newest), Sina(newest)} :
          /\ Certifies(payload, 1, Last)
          /\ run' = [Off EXCEPT !.on = TRUE, !.tail = tail,
                                !.window = payload \cap Sessions]
    /\ UNCHANGED <<world, parts, old, summary, faults>>

Current == Min(run.window \ run.done)
Visiting == run.on /\ run.asked = {} /\ run.window # run.done
Passes(failed) == run' = [run EXCEPT !.done = @ \cup {Current}, !.asked = {},
                                     !.failed = @ \/ failed]

\* A session with a partition is skipped, whatever was asked for it.
Skip ==
    /\ Visiting /\ parts[Current] # NoPart
    /\ Passes(FALSE)
    /\ UNCHANGED <<world, parts, old, summary, faults>>

\* A session without visible members fails.
NoMembers ==
    /\ Visiting /\ parts[Current] = NoPart
    /\ ~Readable(Current) \/ Members(Current) = {}
    /\ Passes(TRUE)
    /\ UNCHANGED <<world, parts, old, summary, faults>>

\* Mutant: the tail is one session short.
TailOneShort(s, tail) ==
    LET earlier == {t \in run.window : t < s /\ t + tail > s}
    IN  UNION {Members(t) : t \in {u \in earlier : Readable(u)}}

\* The members, and with a tail the names that were members on one of the last
\* sessions visited; a session whose snapshot cannot be read adds none.
TailMembers(s, tail) ==
    LET earlier == {t \in run.window : t < s /\ t + tail >= s}
    IN  UNION {Members(t) : t \in {u \in earlier : Readable(u)}}

Resolve ==
    /\ Visiting /\ parts[Current] = NoPart
    /\ Readable(Current) /\ Members(Current) # {}
    /\ run' = [run EXCEPT !.asked = Members(Current) \cup TailMembers(Current, run.tail)]
    /\ UNCHANGED <<world, parts, old, summary, faults>>

\* One session through the pipeline: an accepted answer becomes a partition unless
\* another command published it meanwhile.
Accepted(asked, s, answer) ==
    D!Publishes(D!TushareV2, asked, s, D!TushareFetch(asked, answer),
                D!Result("unused", D!NoRows), world.facts)
Write(asked, s, answer, tail) ==
    parts' = [parts EXCEPT ![s] = [tail |-> tail, whole |-> answer = Full(s),
                                   rows |-> D!Delivered(asked, answer)]]

Ingest(answer) ==
    /\ run.asked # {}
    /\ \/ /\ Accepted(run.asked, Current, answer) /\ parts[Current] = NoPart
          /\ Write(run.asked, Current, answer, run.tail)
          /\ run' = [run EXCEPT !.done = @ \cup {Current}, !.asked = {}, !.published = TRUE]
       \/ /\ ~Accepted(run.asked, Current, answer) \/ parts[Current] # NoPart
          /\ Passes(TRUE)
          /\ UNCHANGED parts
    /\ UNCHANGED <<world, old, summary>>

Fetch == run.asked # {} /\ Ingest(Full(Current)) /\ UNCHANGED faults
FetchFaulty ==
    /\ run.asked # {} /\ faults < MaxFaults
    /\ \E answer \in Faulty(Current) : Ingest(answer)
    /\ faults' = faults + 1

\* Mutant: the first session that fails ends the run.
FinishAtFailure ==
    /\ run.on /\ (run.window = run.done \/ run.failed)
    /\ summary' = IF run.failed THEN "failed"
                  ELSE IF run.published THEN "published" ELSE "already_published"
    /\ run' = Off
    /\ UNCHANGED <<world, parts, old, faults>>

Finish ==
    /\ run.on /\ run.window = run.done
    /\ summary' = IF run.failed THEN "failed"
                  ELSE IF run.published THEN "published" ELSE "already_published"
    /\ run' = Off
    /\ UNCHANGED <<world, parts, old, faults>>

\* An exception ends the script after a summary; a kill ends it without one.
Stopped ==
    /\ run.on /\ faults < MaxFaults
    /\ faults' = faults + 1
    /\ run' = Off
    /\ summary' \in {"interrupted", summary}
    /\ UNCHANGED <<world, parts, old>>

-----------------------------------------------------------------------------
(* uq-ingest daily. *)

\* --pipeline v2: the members of the session, never a tail.
DailyV2 ==
    /\ world.line = "v2" /\ faults < MaxFaults
    /\ \E s \in Sessions :
          /\ Readable(s) /\ parts[s] = NoPart
          /\ \E answer \in {Full(s)} \cup Faulty(s) :
                Accepted(Members(s), s, answer) /\ Write(Members(s), s, answer, 0)
    /\ faults' = faults + 1
    /\ UNCHANGED <<world, old, run, summary>>

\* --pipeline v1: the whitelist, from TDX alone or cross-checked by Tushare.  TDX
\* may lack rows and fail names, Tushare may lack rows and quote otherwise.
Some(s) == {Restrict(Rows(s), got) : got \in SUBSET DOMAIN Rows(s)}
Others(s) == UNION {[got -> {1, 2}] : got \in SUBSET DOMAIN Rows(s)}

DailyV1 ==
    /\ world.line = "v1" /\ old = NoPart
    /\ \E profile \in {D!TdxOnly, D!CrossCheck}, failed \in SUBSET Names,
          quotes \in Some(1), others \in Others(1) :
          LET tdx == D!TdxFetch(Names, [fault |-> "none", failed |-> failed, rows |-> quotes])
              tushare == D!TushareFetch(Names, [fault |-> "none", rows |-> others])
          IN  /\ D!Publishes(profile, Names, 1, tdx, tushare, world.facts)
              /\ old' = [cross |-> profile.cross, rows |-> tdx.rows, other |-> tushare.rows]
    /\ UNCHANGED <<world, parts, run, summary, faults>>

-----------------------------------------------------------------------------
(* What the readiness command gathers. *)

Gathered ==
    [members |-> [s \in {t \in Sessions : Readable(t)} |-> Members(s)],
     rows    |-> [s \in Sessions |-> DOMAIN parts[s].rows],
     marked  |-> [s \in Sessions |-> {n \in DOMAIN parts[s].rows : s \in world.halts[n]}]]

\* The feed is asked for the sessions on which some name has no row, or one snapshot
\* of it is read per session; either omits what the feed omits.
GapDays(in) == {s \in Sessions : R!Judged(in) \ in.rows[s] # {}}
Feed(days) == [n \in Names |-> (world.halts[n] \ world.silent[n]) \cap days]
\* The intervals an issuer's notice gives, merged into the feed.
Cited == world.halts
Suspensions(in, source) ==
    CASE source = "skipped"   -> [n \in Names |-> {}]
      [] source = "live"      -> Feed(GapDays(in))
      [] source = "snapshots" -> Feed(Sessions)
      [] source = "cited"     -> [n \in Names |-> Feed(Sessions)[n] \cup Cited[n]]

\* The lists name the delisted as of today; only a snapshot of them carries the dates.
Gone(lists) == IF lists = "skipped" THEN {} ELSE {n \in Names : world.gone[n] # 0}
GoneOn(lists) == IF lists = "dated" THEN world.gone ELSE [n \in Names |-> 0]

Evidence(in, source, lists, excluded, factors) ==
    [checked  |-> source # "skipped",
     halts    |-> Suspensions(in, source),
     gone     |-> Gone(lists),
     goneOn   |-> GoneOn(lists),
     excluded |-> excluded,
     factors  |-> factors]

-----------------------------------------------------------------------------
Init ==
    /\ world \in Worlds
    /\ parts = [s \in Sessions |-> NoPart]
    /\ old = NoPart
    /\ run = Off
    /\ summary = "none"
    /\ faults = 0

Next ==
    \/ Start \/ Skip \/ NoMembers \/ Resolve \/ Fetch \/ FetchFaulty
    \/ Finish \/ Stopped \/ DailyV2 \/ DailyV1

\* A vendor answers in full once its faults are over, and the command is run again
\* until the window is there: that is how an interrupted run resumes.
Fairness ==
    /\ WF_vars(Start) /\ WF_vars(Skip) /\ WF_vars(NoMembers)
    /\ WF_vars(Resolve) /\ WF_vars(Fetch) /\ WF_vars(Finish)

Spec == Init /\ [][Next]_vars /\ Fairness

-----------------------------------------------------------------------------
(* Properties. *)

\* Everything the operator may bring: where the suspensions come from, where the
\* delistings come from, at most one excluded name, and a factor layer.
Options ==
    {Evidence(Gathered, source, lists, excluded, R!Unchecked) :
        source \in {"skipped", "live", "snapshots", "cited"},
        lists \in {"skipped", "status", "dated"},
        excluded \in {{}} \cup {{n} : n \in Names}}
    \cup {Evidence(Gathered, "live", "status", {}, f) : f \in {{}, 1..R!LabelEnd, Sessions}}

Judgeable == world.line = "v2" /\ Idle /\ summary # "none"

\* A name that is a member again before its label closes: the gate asks only for the
\* sessions after its last member day.
Returns(n, s) == \E t \in s + 1 .. Last : n \in Members(t)

\* The decision dates: those of the factor layer when it is declared.
Decisions(ev) == IF ev.factors = R!Unchecked THEN 1..R!LabelEnd ELSE ev.factors

\* A name the report drops: excluded, or delisted without a row on any session that is
\* asked of it, its member days and the label sessions after the last of them.
Asks(n, s) ==
    \/ n \in Members(s)
    \/ ~Returns(n, s) /\ \E t \in Sessions : n \in Members(t) /\ t < s /\ s <= t + Horizon
Dropped(n, ev) ==
    \/ n \in ev.excluded
    \/ n \in ev.gone /\ \A s \in Sessions : Asks(n, s) => n \notin Gathered.rows[s]

\* When the gate passes, every decision the window offers can be trained on: a member
\* that could be traded on a decision date has its row, and the rows
\* its label needs unless it was not traded then, except for the names the report
\* drops.  (assess_readiness)
ReadyIsTrainable ==
    Judgeable => \A ev \in Options :
        R!Passed(Gathered, ev) =>
            \A s \in Decisions(ev) : \A n \in Members(s) :
                Traded(n, s) /\ ~Dropped(n, ev) =>
                    /\ n \in Gathered.rows[s]
                    /\ s + Horizon <= Last
                    /\ \A t \in s + 1 .. s + Horizon :
                          \/ n \in Gathered.rows[t] \/ ~Traded(n, t)
                          \/ Returns(n, t) /\ n \notin Members(t)

\* The ingest and the gate agree on what a label needs: when every session was
\* ingested with the label horizon as its tail and answered in full, the gate finds no
\* gap and no contradiction under evidence that knows every halt.
\* (_tail_members, _required_sessions)
FullWindowIsReady ==
    /\ Judgeable
    /\ \A s \in Sessions : parts[s].whole /\ parts[s].tail = Horizon
    /\ \A n \in Names : world.holes[n] = {}
    => LET ev == Evidence(Gathered, "cited", "dated", {}, R!Unchecked)
       IN  R!Gaps(Gathered, ev) = {} /\ R!Conflicts(Gathered, ev) = {}

\* A cross-checked or verified-only session holds a row of every name that was traded,
\* and what it was checked against agrees with it.  (row_policy, cross_validation)
VerifiedRows ==
    old # NoPart =>
        /\ \A n \in Names : Traded(n, 1) => n \in DOMAIN old.rows
        /\ old.cross =>
              /\ \A n \in DOMAIN old.rows \cap DOMAIN old.other : old.rows[n] = old.other[n]
              /\ Cardinality(DOMAIN old.rows \cap DOMAIN old.other) * CoverDen
                    >= Cardinality(DOMAIN old.rows) * CoverNum

\* A session that can be served is published in the end: its members are readable and
\* every request of it has a name the vendor holds.
Servable(s) ==
    /\ world.line = "v2" /\ Readable(s) /\ Members(s) # {}
    /\ \A tail \in {0, Horizon} :
          LET asked == Members(s) \cup UNION {Members(t) : t \in {u \in 1..(s - 1) : Readable(u) /\ u + tail >= s}}
          IN  ~D!EmptyBatch(asked, Full(s))
WindowEnds == \A s \in Sessions : [](Servable(s) => <>(parts[s] # NoPart))

=============================================================================
