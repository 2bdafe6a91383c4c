----------------------------- MODULE Readiness -----------------------------
(***************************************************************************)
(* The gate before a training run: whether the published membership, the   *)
(* published bars and the evidence about the missing rows make a window    *)
(* trainable.  A pure function of its inputs.                              *)
(* (src/src/uq/pipeline/readiness.py, scripts/validate_training_readiness) *)
(*                                                                         *)
(* The sessions of the window are 1..Last.  The inputs are in(put):        *)
(*   members   the names visible on each session with a readable snapshot  *)
(*   rows      the names each session's partition carries, {} without one  *)
(*   marked    among them, those whose row is marked suspended             *)
(* and what the operator supplies is ev(idence):                           *)
(*   checked   whether suspensions were looked up at all                   *)
(*   halts     the sessions each name is known to be suspended             *)
(*   gone      the names the provider lists as delisted                    *)
(*   goneOn    the dates of those delistings that are dated, else 0        *)
(*   excluded  the names dropped from the universe                         *)
(*   factors   the sessions of the factor layer, Unchecked when none were  *)
(*             declared                                                    *)
(***************************************************************************)
EXTENDS Naturals, FiniteSets, FiniteSetsExt

CONSTANTS
    Last,           \* the last session of the window
    Horizon,        \* label_horizon_sessions
    MinSessions,    \* min_sessions_per_instrument
    Warmup          \* warmup_sessions

Sessions == 1..Last
Unchecked == {0}

\* The last decision date whose label the window covers; 0 when there is none.
LabelEnd == IF Last > Horizon THEN Last - Horizon ELSE 0

-----------------------------------------------------------------------------
(* What is required of a name. *)

Universe(in) == UNION {in.members[s] : s \in DOMAIN in.members}
WithBars(in) == UNION {in.rows[s] : s \in Sessions}
Judged(in) == Universe(in) \cup WithBars(in)

MemberDays(in, n) == {s \in DOMAIN in.members : n \in in.members[s]}
Present(in, n) == {s \in Sessions : n \in in.rows[s]}

\* The member days and, when one of them could be traded, the sessions after the
\* last of them that its label needs.
RequiredSessions(in, ev, n) ==
    LET days == MemberDays(in, n)
    IN  days \cup IF days \subseteq ev.halts[n] THEN {}
                  ELSE Max(days) + 1 .. Min({Max(days) + Horizon, Last})

Listed(ev, n) == {s \in Sessions : ev.goneOn[n] = 0 \/ s < ev.goneOn[n]}

\* The required sessions without a row that nothing dated explains.
Unexplained(in, ev, n) ==
    ((RequiredSessions(in, ev, n) \cap Listed(ev, n)) \ ev.halts[n]) \ Present(in, n)

\* Mutant: being on the list excuses a partial absence too.
GoneIsEnough(in, ev, n) == n \in ev.gone

\* The status list excuses a name that has no row on any required session.
AllAbsent(in, ev, n) ==
    n \in ev.gone /\ Present(in, n) \cap RequiredSessions(in, ev, n) = {}

\* The names the report drops: they excuse a gap and are listed by name.
Excused(in, ev) ==
    ev.excluded \cup {n \in Judged(in) : ev.checked /\ AllAbsent(in, ev, n)}

-----------------------------------------------------------------------------
(* The blocking findings. *)

Gaps(in, ev) == {n \in Judged(in) \ Excused(in, ev) : Unexplained(in, ev, n) # {}}

\* A row that is not marked suspended on a session the evidence calls suspended.
Conflicts(in, ev) ==
    {n \in Judged(in) : ev.checked /\
        \E s \in ev.halts[n] \cap Present(in, n) : n \notin in.marked[s]}

\* The names with a row that have too few of them, and among those the ones that
\* are members in the warmup only, which are no training sample.
ShortHistory(in) == {n \in WithBars(in) : Cardinality(Present(in, n)) < MinSessions}

WarmupOnly(in, n) ==
    /\ Warmup > 0 /\ Warmup < Last
    /\ MemberDays(in, n) # {} /\ Max(MemberDays(in, n)) <= Warmup

\* An exclusion must drop a name that would have blocked.
Unjustified(in, ev) ==
    {n \in ev.excluded \ ShortHistory(in) :
        (RequiredSessions(in, ev, n) \ ev.halts[n]) \ Present(in, n) = {}}

\* The feature side: it starts with the window and ends where the labels end.
FactorsLinked(ev) ==
    \/ ev.factors = Unchecked
    \/ LabelEnd = 0
    \/ /\ ev.factors # {}
       /\ ev.factors \subseteq 1..LabelEnd
       /\ 1 \in ev.factors

WithoutBars(in, ev) ==
    {n \in Universe(in) \ WithBars(in) :
        ~ev.checked /\ n \notin ev.excluded /\ ev.goneOn[n] # 1}

\* The report passes when nothing blocks.
Passed(in, ev) ==
    /\ DOMAIN in.members = Sessions
    /\ Universe(in) # {}
    /\ \A s \in Sessions : in.rows[s] # {}
    /\ WithoutBars(in, ev) = {}
    /\ Gaps(in, ev) = {}
    /\ Conflicts(in, ev) = {}
    /\ Unjustified(in, ev) = {}
    /\ \A n \in ShortHistory(in) \ ev.excluded : WarmupOnly(in, n)
    /\ LabelEnd # 0
    /\ FactorsLinked(ev)

=============================================================================
