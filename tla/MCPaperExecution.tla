-------------------------- MODULE MCPaperExecution --------------------------
(***************************************************************************)
(* Two instances of PaperExecution side by side, two instruments and lots  *)
(* of two shares: the template a run starts from decides how its orders    *)
(* are priced and what happens when cash does not suffice.                 *)
(***************************************************************************)
EXTENDS PaperExecution

VARIABLE template   \* "close": the constants of the configuration; "open": Open's

mcVars == <<vars, template>>

Row(c, o) == [present |-> TRUE, close |-> c, open |-> o]
NoRow == [present |-> FALSE, close |-> 0, open |-> 0]

Trading(o, c, up, down) ==
  [status |-> "trading", open |-> o, close |-> c, up |-> up, down |-> down,
   range |-> "valid"]
Suspended(s, c) ==
  [status |-> s, open |-> 0, close |-> c, up |-> 0, down |-> 0, range |-> "missing"]

BookOf(a, b, la, lb, c) ==
  [qty |-> <<a, b>>, locked |-> <<la, lb>>, cash |-> c]

\* Two odd lots, one below a lot, and cash that pays for about two lots.
CoreBooks == { BookOf(5, 1, 0, 0, 9) }
CoreRows == { Row(2, 2), Row(3, 3), NoRow }
CoreQuotes == { Trading(2, 3, 5, 1), Suspended("absent", 0), Trading(2, 0, 5, 1) }

\* Every way a row or a quote can be unusable, over one date.
WideBooks == { BookOf(2, 3, 0, 0, 0), BookOf(4, 1, 2, 0, 4) }
WideRows == { Row(2, 3), Row(3, 2), Row(0, 2), Row(2, 0), NoRow }
WideQuotes ==
  { Trading(2, 3, 5, 1), Trading(3, 2, 3, 1), Trading(2, 2, 4, 2), Trading(0, 2, 4, 1),
    Trading(2, 2, 1, 3), Suspended("absent", 0), Suspended("halted", 0),
    Suspended("excluded", 2),
    [Trading(2, 2, 4, 1) EXCEPT !.range = "crossed"],
    [Trading(2, 2, 4, 1) EXCEPT !.range = "missing"] }

\* Orders priced at the limit and executed at the open; plans that cash cannot carry
\* are refused; one date.
Open == INSTANCE PaperExecution WITH
          Basis <- "execution_open_replay", CashPolicy <- "reject", MinCommission <- 2,
          InitialBooks <- WideBooks, DecisionRows <- WideRows, Quotes <- WideQuotes,
          MaxRounds <- 1

AllBooks == CoreBooks \cup WideBooks

EitherInit ==
  \/ template = "close" /\ Init /\ [qty |-> qty, locked |-> locked, cash |-> cash] \in CoreBooks
  \/ template = "open" /\ Open!Init

EitherNext ==
  /\ UNCHANGED template
  /\ (template = "close" /\ Next) \/ (template = "open" /\ Open!Next)

EitherSpec == EitherInit /\ [][EitherNext]_mcVars
=============================================================================
