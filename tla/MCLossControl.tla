---------------------------- MODULE MCLossControl ----------------------------
(***************************************************************************)
(* A drawdown rule with an exit threshold below the threshold, and the     *)
(* exceptions that make a difference: one that holds until day 2, one for  *)
(* another rule and one that was never approved.                           *)
(***************************************************************************)
EXTENDS LossControl

Drawdowns == 0..2
Exceptions ==
  { [given |-> TRUE, fits |-> TRUE, approved |-> TRUE, expires |-> 2],
    [given |-> TRUE, fits |-> FALSE, approved |-> TRUE, expires |-> 4],
    [given |-> TRUE, fits |-> TRUE, approved |-> FALSE, expires |-> 2] }
=============================================================================
