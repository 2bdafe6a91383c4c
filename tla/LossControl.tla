----------------------------- MODULE LossControl -----------------------------
(***************************************************************************)
(* Strategy loss control: evaluate_strategy_state (risk/state.py).  A call *)
(* takes the state the previous call returned and a batch of observations  *)
(* of one metric, and returns the next state and the events that led to    *)
(* it.  A breach of the rule's threshold opens an episode, which lasts     *)
(* until the metric is back behind the exit threshold and is not reopened  *)
(* before its cooldown is over; opening one asks for the rule's action     *)
(* unless an exception waives it.  A call that raises returns nothing.     *)
(*                                                                         *)
(* A date is a day number, 0 for none; the time an observation became      *)
(* visible is a number that is no smaller than its day.  The signatures    *)
(* and digests that tie a payload to its manifest are taken as intact.     *)
(* The counter consecutive_trigger_days, on which nothing depends, is left *)
(* out.                                                                    *)
(***************************************************************************)
EXTENDS Integers, Sequences

CONSTANTS
  Operator,     \* the rule's comparison
  Threshold,    \* the rule's threshold
  Exit,         \* hysteresis_exit_threshold, Threshold when there is none
  CooldownDays, \* the rule's cooldown_days
  Metrics,      \* values the metric may take
  Waivers,      \* the exceptions a call may be given
  MaxDay,       \* BOUND: last day observed
  MaxStamp,     \* BOUND: last time an observation becomes visible
  MaxBatch      \* BOUND: observations in a call

ASSUME RuleAssumption ==
  /\ Operator \in {"greater_than", "greater_than_or_equal", "less_than",
                   "less_than_or_equal"}
  /\ Threshold \in Nat /\ Exit \in Nat /\ CooldownDays \in Nat
ASSUME BoundAssumption ==
  Metrics \subseteq Nat /\ MaxDay \in Nat /\ MaxStamp \in Nat /\ MaxBatch \in Nat

Days == 1..MaxDay
Observation == {o \in [day : Days, seen : 1..MaxStamp, metric : Metrics] : o.seen >= o.day}
\* A risk_exception manifest handed to a call: whether it names this rule, scope
\* and action, whether it is approved, the last day it holds.  No exception is one
\* that does not apply.
Waiver == [given : BOOLEAN, fits : BOOLEAN, approved : BOOLEAN, expires : Nat]
ASSUME WaiverAssumption == Waivers \subseteq Waiver
NoWaiver == [given |-> FALSE, fits |-> FALSE, approved |-> FALSE, expires |-> 0]

VARIABLES
  held,    \* the state document and payload the caller holds
  log,     \* the events the calls have returned
  left,    \* observations the running call has still to see, 0 between calls
  waiver,  \* the exception the running call was given
  enforceable, \* whether its de-risk contract is approved and executable
  draft,   \* its state so far
  pending, \* the log with its events so far
  action   \* the action its last observation asks for

callVars == <<left, waiver, enforceable, draft, pending, action>>
lossVars == <<held, log, callVars>>

NoState == [day |-> 0, seen |-> 0, metric |-> 0, active |-> FALSE,
            lastTrigger |-> 0, cooldownUntil |-> 0, sequence |-> 0]

-----------------------------------------------------------------------------
\* _compare
Beyond(value, bound) ==
  \/ Operator = "greater_than" /\ value > bound
  \/ Operator = "greater_than_or_equal" /\ value >= bound
  \/ Operator = "less_than" /\ value < bound
  \/ Operator = "less_than_or_equal" /\ value <= bound
Breached(o) == Beyond(o.metric, Threshold)

\* Mutants: the cooldown ends a day early, or a day late.
CoolingShort(s, o) == o.day < s.cooldownUntil
CoolingLong(s, o) == o.day <= s.cooldownUntil + 1

Cooling(s, o) == o.day <= s.cooldownUntil

\* An open episode is tested against the exit threshold, a closed one may open
\* on a breach once its cooldown is over.
ActiveAfter(s, o) ==
  IF s.active THEN Beyond(o.metric, Exit) ELSE Breached(o) /\ ~Cooling(s, o)

Enters(s, o) == ActiveAfter(s, o) /\ ~s.active
Clears(s, o) == s.active /\ ~ActiveAfter(s, o)

Expired(o) == waiver.given /\ o.day > waiver.expires
Waived(o) == waiver.given /\ ~Expired(o)

\* The events of an observation, in the order the code appends them; the state is
\* published last.
Classes(s, o) ==
  IF Enters(s, o) THEN
    IF Waived(o) THEN <<"exception_applied", "state_snapshot_published">>
    ELSE IF Expired(o)
      THEN <<"risk_triggered", "exception_expired", "state_snapshot_published">>
      ELSE <<"risk_triggered", "state_snapshot_published">>
  ELSE IF Clears(s, o) THEN <<"risk_cleared", "state_snapshot_published">>
  ELSE <<"state_snapshot_published">>

\* The events as they are numbered from the sequence the call has reached.
Numbered(classes, s, o) ==
  [k \in 1..Len(classes) |->
     [class |-> classes[k], number |-> s.sequence + k, day |-> o.day,
      until |-> IF classes[k] = "exception_applied" THEN waiver.expires ELSE 0]]

\* The payload of the next state: its sequence number is that of the publication
\* event that follows it.
NextState(s, o) ==
  [day |-> o.day, seen |-> o.seen, metric |-> o.metric,
   active |-> ActiveAfter(s, o),
   lastTrigger |-> IF Enters(s, o) THEN o.day ELSE s.lastTrigger,
   cooldownUntil |-> IF Enters(s, o) THEN o.day + CooldownDays ELSE s.cooldownUntil,
   sequence |-> s.sequence + Len(Classes(s, o))]

-----------------------------------------------------------------------------
\* A call begins from the state the caller holds: validation of policy, calendar,
\* exception and prior state has passed.
Call ==
  /\ left = 0
  /\ left' \in 1..MaxBatch
  /\ waiver' \in Waivers \cup {NoWaiver}
  /\ enforceable' \in BOOLEAN
  /\ draft' = held /\ pending' = log /\ action' = "none"
  /\ UNCHANGED <<held, log>>

Stale(s, o) == o.day < s.day \/ (o.day = s.day /\ o.seen <= s.seen)

\* Opening an episode needs a contract that can be enforced, and an exception that
\* is given must name this rule and action and be approved, or have expired.
Refused(s, o) ==
  \/ Stale(s, o)
  \/ Enters(s, o) /\ ~enforceable
  \/ Enters(s, o) /\ waiver.given /\ ~(waiver.fits /\ (waiver.approved \/ Expired(o)))

Asks(s, o) == IF Enters(s, o) THEN IF Waived(o) THEN "allow" ELSE "enforce" ELSE "none"

\* What a call was given is gone when it ends.
Forget == waiver' = NoWaiver /\ enforceable' = FALSE

\* One observation of the batch; after the last the call returns.
Observe(o) ==
  /\ left > 0 /\ ~Refused(draft, o)
  /\ left' = left - 1
  /\ draft' = NextState(draft, o)
  /\ pending' = pending \o Numbered(Classes(draft, o), draft, o)
  /\ action' = Asks(draft, o)
  /\ IF left = 1
       THEN held' = draft' /\ log' = pending' /\ Forget
       ELSE UNCHANGED <<held, log, waiver, enforceable>>

\* The call raises: on an observation it refuses, or on one that is malformed.
Raise ==
  /\ left > 0
  /\ left' = 0
  /\ draft' = held /\ pending' = log /\ action' = "none"
  /\ Forget
  /\ UNCHANGED <<held, log>>

LossInit ==
  /\ held = NoState /\ log = <<>>
  /\ left = 0 /\ waiver = NoWaiver /\ enforceable = FALSE
  /\ draft = NoState /\ pending = <<>> /\ action = "none"

LossNext == Call \/ (\E o \in Observation : Observe(o)) \/ Raise
LossSpec == LossInit /\ [][LossNext]_lossVars

-----------------------------------------------------------------------------
(* Properties                                                              *)

State == [day : Nat, seen : Nat, metric : Nat, active : BOOLEAN,
          lastTrigger : Nat, cooldownUntil : Nat, sequence : Nat]
Class == {"risk_triggered", "exception_applied", "exception_expired",
          "risk_cleared", "state_snapshot_published"}
Event == [class : Class, number : Nat, day : Nat \ {0}, until : Nat]
Opening == {"risk_triggered", "exception_applied"}

\* Every variable holds a value the code can produce.
TypeOK ==
  /\ held \in State /\ draft \in State
  /\ log \in Seq(Event) /\ pending \in Seq(Event)
  /\ left \in Nat /\ waiver \in Waiver /\ enforceable \in BOOLEAN
  /\ action \in {"none", "allow", "enforce"}

\* The event log of a strategy is numbered 1, 2, 3, ... across calls, batches and
\* calls that raised, and the state knows its last number.
Numbering(l, s) == s.sequence = Len(l) /\ \A k \in 1..Len(l) : l[k].number = k

\* The log tells the state: the episode is open exactly when its last opening has
\* not been cleared, and lastTrigger is the day of that opening.
OpenIn(l) ==
  \E k \in 1..Len(l) : l[k].class \in Opening /\
    \A j \in k..Len(l) : l[j].class # "risk_cleared"
Told(l, s) ==
  /\ s.active <=> OpenIn(l)
  /\ \A k \in 1..Len(l) : l[k].day <= s.day /\
       (l[k].class \in Opening => l[k].day <= s.lastTrigger)
  /\ s.lastTrigger > 0 => s.cooldownUntil = s.lastTrigger + CooldownDays

\* No two openings of a strategy's episodes lie within one cooldown, whatever
\* recovers and breaches again in between, however the observations are batched
\* and whichever of them are corrected.
Spaced(l) ==
  \A k \in 1..Len(l) : \A j \in 1..(k - 1) :
    l[j].class \in Opening /\ l[k].class \in Opening =>
      l[k].day > l[j].day + CooldownDays
EpisodesSpaced == Spaced(log)

\* With an exit threshold on the near side of the threshold, the only excuse for
\* a breach without an open episode is the cooldown of the last one.
Guarded(s) == s.day > 0 /\ Beyond(s.metric, Threshold) /\ ~s.active => s.day <= s.cooldownUntil
NoUnguardedBreach ==
  (\A v \in Metrics : Beyond(v, Threshold) => Beyond(v, Exit)) => Guarded(held)

\* An episode is closed by an observation behind the exit threshold and by nothing
\* else: not by its cooldown, a correction or an exception.
ClearedByRecovery ==
  [][ Len(pending') > Len(pending) /\ draft.active /\ ~draft'.active =>
        ~Beyond(draft'.metric, Exit) ]_lossVars

\* The strengthening that makes EpisodesSpaced inductive, of the state the caller
\* holds and of the draft of a running call.
IInv ==
  /\ TypeOK
  /\ Numbering(log, held) /\ Told(log, held) /\ Spaced(log)
  /\ Numbering(pending, draft) /\ Told(pending, draft) /\ Spaced(pending)
  /\ Len(log) <= Len(pending)
  /\ left = 0 => draft = held /\ pending = log

=============================================================================
