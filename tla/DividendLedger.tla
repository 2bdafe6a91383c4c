---------------------------- MODULE DividendLedger ----------------------------
(***************************************************************************)
(* What a backtest promises about dividends, with prices, orders and       *)
(* constraints left out.  Each event entitles the shares held at the close *)
(* of its record date; the entitlement, whatever is traded later, becomes  *)
(* due once, and what is due is received once.                             *)
(***************************************************************************)
EXTENDS Integers, Functions

CONSTANTS Instruments, Capital, EventSets, None

VARIABLES events, shares, cash, entitled, cashDue, sharesDue, received

account == <<events, shares, cash, entitled, cashDue, sharesDue, received>>

Ids == DOMAIN events
Init ==
  /\ events \in EventSets
  /\ shares = [i \in Instruments |-> 0] /\ cash = Capital
  /\ entitled = [e \in Ids |-> None]
  /\ cashDue = [e \in Ids |-> 0] /\ sharesDue = [e \in Ids |-> 0]
  /\ received = [e \in Ids |-> [cash |-> 0, shares |-> 0]]

\* Trading touches no entitlement.
Rebalance == UNCHANGED <<events, entitled, cashDue, sharesDue, received>>

\* The record date: what is held now, for the events not locked before.
Lock ==
  /\ \A e \in Ids :
       \/ entitled'[e] = entitled[e]
       \/ entitled[e] = None /\ entitled'[e] = shares[events[e].instrument]
  /\ UNCHANGED <<events, shares, cash, cashDue, sharesDue, received>>

Promised(e) == [cash |-> cashDue[e] + received[e].cash, shares |-> sharesDue[e] + received[e].shares]
Nil == [cash |-> 0, shares |-> 0]
Entitlement(e) == [cash |-> entitled[e] * events[e].cash,
                   shares |-> (entitled[e] * events[e].stock) \div 2]

\* An event becomes due in full, once; what is due is received in full, and
\* arrives in the book as it stops being due.
Mature ==
  /\ \A e \in Ids :
       /\ \/ Promised(e)' = Promised(e)
          \/ Promised(e) = Nil /\ entitled[e] # None /\ Promised(e)' = Entitlement(e)
       /\ \/ cashDue'[e] = 0
          \/ received'[e].cash = received[e].cash
       /\ \/ sharesDue'[e] = 0
          \/ received'[e].shares = received[e].shares
  /\ cash' - cash = SumFunction([e \in Ids |-> received'[e].cash - received[e].cash])
  /\ \A i \in Instruments :
       shares'[i] - shares[i] =
         SumFunction([e \in Ids |-> IF events[e].instrument = i
                                    THEN received'[e].shares - received[e].shares ELSE 0])
  /\ UNCHANGED <<events, entitled>>

Next == Rebalance \/ Lock \/ Mature
Spec == Init /\ [][Next]_account
=============================================================================
