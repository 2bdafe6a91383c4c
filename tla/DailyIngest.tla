---------------------------- MODULE DailyIngest ----------------------------
(***************************************************************************)
(* One session of daily bars: what the two sources answer, how the router  *)
(* and the quality gate judge the answers, how an absent row is explained, *)
(* and which of the three configured pipelines publishes what.             *)
(* (src/src/uq/pipeline/daily.py, routing/router.py, quality/gate.py,      *)
(* market/lifecycle.py, adapters/tushare.py and mootdx_source.py)          *)
(*                                                                         *)
(* The rows of a session are a function from the instruments answered to   *)
(* the quote: two quotes are the same number when they are within the      *)
(* tolerance of every cross-validation rule.  A partition is written once  *)
(* and never replaced; the store's own protocol is WriteOnceStores.        *)
(***************************************************************************)
EXTENDS Naturals, FiniteSets, SequencesExt, Functions

CONSTANTS
    Order,                  \* the instruments, in the order requests list them
    BatchSize,              \* codes per Tushare request (50)
    SessionSize,            \* from this many names the whole market is asked (500)
    CoverNum, CoverDen      \* minimum_coverage, as a fraction

NoRows == [n \in {} |-> 0]
Result(status, rows) == [status |-> status, rows |-> rows]
Names == Range(Order)

-----------------------------------------------------------------------------
(* The pipelines the builders configure. *)

TdxOnly == [primary |-> "tdx", cross |-> FALSE, complete |-> FALSE,
            calendar |-> FALSE, verified |-> TRUE]
CrossCheck == [primary |-> "tdx", cross |-> TRUE, complete |-> TRUE,
               calendar |-> TRUE, verified |-> TRUE]
TushareV2 == [primary |-> "tushare", cross |-> FALSE, complete |-> FALSE,
              calendar |-> TRUE, verified |-> FALSE]

-----------------------------------------------------------------------------
(* The sources.  A vendor's answer has a fault, or none, the names whose   *)
(* request failed, and the rows it holds for the session.                  *)

\* The requests one fetch is cut into: the codes in order, BatchSize each.
Batches(asked) ==
    LET codes == SelectSeq(Order, LAMBDA n : n \in asked)
        Batch(i) == {codes[j] : j \in {k \in DOMAIN codes : (k - 1) \div BatchSize = i}}
    IN  {Batch(i) : i \in 0..Len(codes)} \ {{}}

\* A batch that comes back empty, twice, fails the fetch: it cannot be told
\* from a dropped request.  One that comes back short is accepted, and so is
\* the whole market without some of the names.
EmptyBatch(asked, answer) ==
    /\ Cardinality(asked) < SessionSize
    /\ \E batch \in Batches(asked) : batch \cap DOMAIN answer.rows = {}

Delivered(asked, answer) == Restrict(answer.rows, asked \cap DOMAIN answer.rows)

TushareFetch(asked, answer) ==
    IF answer.fault # "none" THEN Result(answer.fault, NoRows)
    ELSE IF EmptyBatch(asked, answer) THEN Result("upstream_error", NoRows)
    ELSE IF Delivered(asked, answer) = NoRows THEN Result("empty", NoRows)
    ELSE Result("success", Delivered(asked, answer))

\* TDX is asked name by name; the page always reaches back past the session, so
\* a name without a row that day is answered and a failed request is an error.
TdxFetch(asked, answer) ==
    LET rows == Restrict(answer.rows, (asked \ answer.failed) \cap DOMAIN answer.rows)
    IN  IF answer.fault # "none" \/ asked \subseteq answer.failed
        THEN Result("upstream_error", NoRows)
        ELSE IF rows = NoRows THEN Result("empty", NoRows)
        ELSE Result(IF asked \cap answer.failed = {} THEN "success" ELSE "partial_rows", rows)

-----------------------------------------------------------------------------
(* Routing.  Coverage is complete when the primary answered every requested *)
(* name on every session the independent calendar expects.                 *)

RouteComplete(profile, asked, primary) ==
    /\ profile.calendar
    /\ primary.status = "success"
    /\ asked \subseteq DOMAIN primary.rows

-----------------------------------------------------------------------------
(* The lifecycle of an absent name, from what the exchange lists say today. *)
(* fact.board is "main", "bse" or "other"; listed: on today's list;         *)
(* listedOn and delistedOn are 0 when the lists carry no date; halted: in   *)
(* the day's suspension notices.                                            *)

\* Mutant: today's list is consulted before the list of the delisted.
ClassifiedByList(fact, day) ==
    IF fact.board = "main" /\ ~fact.listed THEN "not_listed" ELSE "unknown"

ClassifiedBeijing(fact, day) ==
    IF fact.listed /\ fact.listedOn # 0 /\ day < fact.listedOn
    THEN "not_listed" ELSE "unknown"

Classified(fact, day) ==
    IF fact.board = "bse" THEN ClassifiedBeijing(fact, day)
    ELSE IF fact.delistedOn # 0
    THEN IF day >= fact.delistedOn THEN "delisted"
         ELSE IF fact.listedOn # 0 /\ day < fact.listedOn THEN "not_listed"
         ELSE "unknown"
    ELSE IF fact.board = "main" /\ ~fact.listed THEN "not_listed"
    ELSE "unknown"

\* The day's suspension notices cover the two exchanges only.
Notified(fact) == fact.halted /\ fact.board # "bse"

\* The names whose absence is explained, by the lists or by a notice.
Explained(facts, missing, day) ==
    {n \in missing : Notified(facts[n]) \/ Classified(facts[n], day) # "unknown"}

-----------------------------------------------------------------------------
(* The quality gate: every cross-validation rule compares the rows both     *)
(* sources carry, needs enough of them, and rejects the whole session on a  *)
(* disagreement.                                                            *)

Compared(rows, other) == DOMAIN rows \cap DOMAIN other

GateAccepts(cross, rows, other) ==
    /\ rows # NoRows
    /\ cross => LET both == Compared(rows, other)
                IN  /\ both # {}
                    /\ Cardinality(both) * CoverDen >= Cardinality(DOMAIN rows) * CoverNum
                    /\ \A n \in both : rows[n] = other[n]

-----------------------------------------------------------------------------
(* The pipeline: one session is published or it is not.                     *)

Publishes(profile, asked, day, primary, comparator, facts) ==
    /\ primary.status = "success"
    /\ profile.complete => RouteComplete(profile, asked, primary)
    /\ profile.cross => comparator.status = "success"
    /\ profile.verified =>
          LET missing == asked \ DOMAIN primary.rows
          IN  Explained(facts, missing, day) = missing
    /\ GateAccepts(profile.cross, primary.rows, comparator.rows)

=============================================================================
