------------------------------ MODULE PaperChain ------------------------------
(***************************************************************************)
(* What the paper stage promises of its publications: per decision date a  *)
(* config, an order plan, an execution result and a portfolio state, one   *)
(* after the other and date after date, each published once.  A state      *)
(* names the digest of its result and a config that of the state it        *)
(* continues; the stage is accepted with all of them or not at all.        *)
(***************************************************************************)
EXTENDS Integers

CONSTANTS
  Days,       \* number of decision dates
  Documents,  \* the sets of risk documents a stage may be run with
  Refused     \* <<date, documents>> whose decision is not executable

VARIABLES
  chain,    \* what is published in each place of the chain
  accepted  \* the digest of each place, as the passed stage state names them

Slots == 1..(4 * Days)
DateOf(n) == (n - 1) \div 4 + 1
IsConfig(n) == n % 4 = 1
NamesDigest(n) == n > 1 /\ n % 4 \in {0, 1}

Absent == [by |-> 0, documents |-> "none", parent |-> 0]
NoState == [n \in Slots |-> 0]
Whole == \A n \in Slots : chain[n] # Absent

Init == chain = [n \in Slots |-> Absent] /\ accepted = NoState

\* The artifact after the last one published.  A config is published under an
\* executable decision, the other three under the decision of their config.
Extend == \E n \in Slots :
  /\ chain[n] = Absent
  /\ \A m \in Slots : m < n => chain[m] # Absent
  /\ chain'[n] # Absent
  /\ chain' = [chain EXCEPT ![n] = chain'[n]]
  /\ chain'[n].parent = IF NamesDigest(n) THEN chain[n - 1].by ELSE 0
  /\ IF IsConfig(n)
       THEN <<DateOf(n), chain'[n].documents>> \in ((1..Days) \X Documents) \ Refused
       ELSE chain'[n].documents = chain[n - 1].documents
  /\ UNCHANGED accepted

Accept ==
  /\ Whole
  /\ accepted' = [n \in Slots |-> chain[n].by]
  /\ UNCHANGED chain

Spec == Init /\ [][Extend \/ Accept]_<<chain, accepted>>
=============================================================================
