----------------------------- MODULE PaperLedger -----------------------------
(***************************************************************************)
(* What the paper-execution stage promises about the books it publishes,   *)
(* with the planner, the engine and the builder left out.  A book is a     *)
(* quantity and a T+1 lock per instrument and a cash balance.  From one    *)
(* book to the next, some unlocked shares leave, some shares arrive, and   *)
(* what arrives is locked until the session is over.                       *)
(***************************************************************************)
EXTENDS Integers

CONSTANTS Instruments,   \* the instruments a book may list
          InitialBooks   \* the books a run may start from

VARIABLES qty, locked, cash, session

ledger == <<qty, locked, cash, session>>

Init == /\ session = 0
        /\ \E b \in InitialBooks : qty = b.qty /\ locked = b.locked /\ cash = b.cash

\* A lock holds for the session that made it; the locks an initial state
\* declares do not name a session and lapse with the first book.
StillLocked(i) == IF session' = session THEN locked[i] ELSE 0
Arrived(i) == locked'[i] - StillLocked(i)
Left(i) == qty[i] + Arrived(i) - qty'[i]

\* One published book: nothing is both bought and sold, nothing locked is sold,
\* cash only falls when something is bought and only rises when something is
\* sold, and it is never overdrawn.
Rebalance ==
  /\ session' \in {session, session + 1}
  /\ \A i \in Instruments :
       /\ Arrived(i) >= 0 /\ Left(i) >= 0
       /\ Arrived(i) = 0 \/ Left(i) = 0
       /\ Left(i) <= qty[i] - StillLocked(i)
  /\ cash' >= 0
  /\ cash' < cash => \E i \in Instruments : Arrived(i) > 0
  /\ cash' > cash => \E i \in Instruments : Left(i) > 0

Spec == Init /\ [][Rebalance]_ledger
=============================================================================
