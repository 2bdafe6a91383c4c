------------------------------ MODULE LabelSets ------------------------------
(***************************************************************************)
(* What a label set says: the forward return of each bar that is eligible   *)
(* (models/labels.py, scripts/build_label_sets.py). A label is abstracted   *)
(* to the session whose close it reads, which is what a split must not      *)
(* reach across.                                                            *)
(***************************************************************************)
EXTENDS Integers, FiniteSets

CONSTANTS Names,        \* instruments of the window's bars
          Sessions,     \* the sessions bars may be read for, consecutive numbers
          Horizon,      \* horizon_trading_days
          ListingAge,   \* days a name must have been listed
          Null          \* NaN

ASSUME LabelAssumption ==
  /\ Sessions \subseteq Nat
  /\ Horizon \in Nat \ {0}
  /\ ListingAge \in Nat
  /\ Null \notin Sessions

Cells == Names \X Sessions

\* The security master has live names under L and delisted ones under D; both are
\* asked for, or a name that left during the window could never be labelled.
ListingDates(live, gone) ==
  [n \in DOMAIN live \cup DOMAIN gone |-> IF n \in DOMAIN live THEN live[n] ELSE gone[n].listed]

\* A pinned snapshot of the delisted names; it may be older than the master.
DelistingDates(gone) == [n \in DOMAIN gone |-> gone[n].day]

\* The governed calendar must span the window of the bars that were read.
GovernedCalendar(calendar, sessions) ==
  \A s \in sessions : \E first, last \in calendar : first <= s /\ s <= last

Delisted(delisting, cell) == cell[1] \in DOMAIN delisting /\ cell[2] >= delisting[cell[1]]

\* Whether a bar may be trained on: it never moves the horizon.
Eligible(bars, listed, delisting, cell) ==
  /\ bars[cell] = "trading"
  /\ cell[2] - listed[cell[1]] >= ListingAge
  /\ ~Delisted(delisting, cell)

\* The close Horizon sessions on, when the grid of bars up to there is complete.
LabelValue(bars, calendar, cell) ==
  LET grid == cell[2]..(cell[2] + Horizon)
  IN  IF grid \subseteq calendar /\ \A d \in grid : <<cell[1], d>> \in DOMAIN bars
      THEN cell[2] + Horizon ELSE Null

\* Labels are computed on every row and ineligible rows removed afterwards: a row
\* may be null, or its key absent.
LabelFrame(bars, calendar, listed, delisting) ==
  [cell \in {c \in DOMAIN bars : Eligible(bars, listed, delisting, c)}
     |-> LabelValue(bars, calendar, cell)]

\* The bars of the instruments the script was asked for.
BarsOf(bars, wanted) == [c \in {x \in DOMAIN bars : x[1] \in wanted} |-> bars[c]]

\* Why build_label_sets.py publishes nothing for these names, or "none".
LabelRefusal(bars, calendar, live, gone, wanted) ==
  LET rows == BarsOf(bars, wanted)
      listed == ListingDates(live, gone)
  IN  IF ~({c[1] : c \in DOMAIN rows} \subseteq DOMAIN listed) THEN "listing date"
      ELSE IF ~GovernedCalendar(calendar, {c[2] : c \in DOMAIN bars}) THEN "calendar"
      ELSE IF ~({c[2] : c \in DOMAIN rows} \subseteq calendar) THEN "bar date"
      ELSE IF DOMAIN LabelFrame(rows, calendar, listed, DelistingDates(gone)) = {} THEN "no eligible rows"
      ELSE "none"

\* The published set: its rows, and the snapshot its manifest binds.
LabelSet(bars, calendar, live, gone, wanted) ==
  [delisting |-> DelistingDates(gone),
   frame |-> LabelFrame(BarsOf(bars, wanted), calendar, ListingDates(live, gone), DelistingDates(gone))]
=============================================================================
