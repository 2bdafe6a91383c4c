---------------------------- MODULE MCBarWindow ----------------------------
(***************************************************************************)
(* BarWindow on windows of four sessions and four names.  Every world is   *)
(* one way a name can come to lack a row: it leaves the universe, leaves   *)
(* and returns, is halted with and without a row, with and without an      *)
(* entry in the suspension feed, is delisted, is not served by the vendor, *)
(* or its session has no readable membership.                              *)
(***************************************************************************)
EXTENDS BarWindow

CONSTANTS a, b, c, d

MCOrder == <<a, b, c, d>>

\* A world in which nothing happens, and changes to it.
Quiet ==
    [line |-> "v2", members |-> [s \in Sessions |-> {a, b}], unread |-> {},
     halts |-> [n \in Names |-> {}], kept |-> [n \in Names |-> {}],
     holes |-> [n \in Names |-> {}], silent |-> [n \in Names |-> {}],
     since |-> [n \in Names |-> 1], gone |-> [n \in Names |-> 0],
     facts |-> [n \in Names |-> [board |-> "main", listed |-> TRUE, listedOn |-> 0,
                                 delistedOn |-> 0, halted |-> FALSE]]]
With(days, s) == {a, b} \cup IF s \in days THEN {c} ELSE {}
Days(n, days) == [m \in Names |-> IF m = n THEN days ELSE {}]

\* c leaves and d enters; d leaves before the last session.
Turnover == [Quiet EXCEPT !.members = <<{a, b, c}, {a, b, c}, {a, d}, {a, b}>>]
\* c leaves for one session and returns.
Return == [Quiet EXCEPT !.members = [s \in Sessions |-> With({1, 3, 4}, s)]]
\* b is halted and keeps a row the feed knows; d too, on its only member day.
Halt == [Quiet EXCEPT !.members = <<{a, b}, {a, b, d}, {a, b}, {a, b}>>,
                      !.halts = [Days(b, {3}) EXCEPT ![d] = {2}],
                      !.kept = Days(d, {2})]
\* a is halted for two sessions and the feed omits the second.
LongHalt == [Quiet EXCEPT !.halts = Days(a, {2, 3}), !.silent = Days(a, {3})]
\* c's row is the only one of its request, and it is halted: no answer is accepted.
DarkBatch == [Quiet EXCEPT !.members = [s \in Sessions |-> With(Sessions, s)],
                           !.halts = Days(c, {3})]
\* c is delisted within the window; d after it, and the vendor never served d.
Delisting == [Quiet EXCEPT !.members = <<Names, Names, Names, {a, d}>>,
                           !.gone = [Quiet.gone EXCEPT ![c] = 4, ![d] = 5],
                           !.holes = Days(d, Sessions)]
\* d leaves, returns and is delisted after the window; the vendor has its rows in
\* between only.
Lapse == [Quiet EXCEPT !.members = <<Names, {a, b, c}, {a, b, c}, Names>>,
                       !.gone = [Quiet.gone EXCEPT ![d] = 5], !.holes = Days(d, {1, 4})]
\* The snapshot of one session cannot be read and another shows nobody.
Unread == [Quiet EXCEPT !.members = <<{a, b, c}, {a, b}, {a, b}, {}>>, !.unread = {2}]

\* The research-v1 whitelist on one session: a trades; b was delisted, c is halted,
\* and d is a Beijing listing that starts later.
Fact(board, listed, on, off, halted) ==
    [board |-> board, listed |-> listed, listedOn |-> on, delistedOn |-> off, halted |-> halted]
Whitelist ==
    [Quiet EXCEPT !.line = "v1", !.halts = Days(c, {1}),
                  !.gone = [Quiet.gone EXCEPT ![b] = 1],
                  !.since = [Quiet.since EXCEPT ![d] = 2],
                  !.facts = [Quiet.facts EXCEPT ![b] = Fact("main", FALSE, 0, 1, FALSE),
                                                ![c] = Fact("main", TRUE, 0, 0, TRUE),
                                                ![d] = Fact("bse", TRUE, 2, 0, FALSE)]]
\* The same with b listed until later: it traded, though today's list lacks it; and
\* d listed but off the main boards.
Earlier ==
    [Quiet EXCEPT !.line = "v1",
                  !.gone = [Quiet.gone EXCEPT ![b] = 3],
                  !.facts = [Quiet.facts EXCEPT ![b] = Fact("main", FALSE, 0, 3, FALSE),
                                                ![d] = Fact("other", TRUE, 0, 0, FALSE)]]

MCWorlds == {Turnover, Return, Halt, LongHalt, DarkBatch, Delisting, Lapse, Unread,
             Whitelist, Earlier}

\* The calendar vendor's newest session is inside the window, at its end, or after it.
MCNewest == {3, 4, 5}

=============================================================================
