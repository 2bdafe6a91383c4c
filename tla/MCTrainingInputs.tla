--------------------------- MODULE MCTrainingInputs ---------------------------
(* Three names, a window of four days whose labels read two sessions on. *)
EXTENDS TrainingInputs

CONSTANTS a, b, c

MCNames == {a, b, c}
MCSessions == 1..7
MCWindow == 2..5

\* Three snapshots; the second became visible after the third.
MCArriving == [s \in 1..3 |->
  CASE s = 1 -> [visible |-> 1, members |-> {a, b, c}]
    [] s = 2 -> [visible |-> 5, members |-> {b, c}]
    [] OTHER -> [visible |-> 4, members |-> {a, b}]]

Days == 2..7
AllBars == [x \in MCNames \X Days |-> "trading"]
AllFactors == [x \in MCNames \X MCWindow |-> "full"]
Plain == [bars |-> AllBars, live |-> [n \in MCNames |-> 0], factors |-> AllFactors, universe |-> MCNames,
          exposures |-> MCNames \X MCWindow, calendar |-> MCSessions]

MCWorlds == {
  Plain,
  \* a bar is missing, a feature null, and the universe names two
  [Plain EXCEPT !.bars = [x \in (MCNames \X Days) \ {<<c, 6>>} |-> "trading"],
                !.universe = {a, b},
                !.factors = [AllFactors EXCEPT ![<<c, 3>>] = Null]],
  \* a late listing, a limit day and a suspension remove keys, an exposure is missing
  [Plain EXCEPT !.live[c] = 1,
                !.bars = [AllBars EXCEPT ![<<c, 3>>] = "at_limit", ![<<b, 4>>] = "suspended"],
                !.exposures = (MCNames \X MCWindow) \ {<<c, 3>>}]}

\* The second does not keep the purge it states.
MCSplits == {
  [train |-> [first |-> 2, last |-> 2], validation |-> [first |-> 5, last |-> 5], purge |-> 2, embargo |-> 0],
  [train |-> [first |-> 2, last |-> 4], validation |-> [first |-> 5, last |-> 5], purge |-> 2, embargo |-> 0]}
=============================================================================
