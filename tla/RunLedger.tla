------------------------------ MODULE RunLedger ------------------------------
(***************************************************************************)
(* What a research run promises to whoever reads its ledger: the stages    *)
(* pass one after the other and none is ever taken back, and a result is   *)
(* published once, after every stage has passed.                           *)
(***************************************************************************)
EXTENDS Naturals

CONSTANT Last   \* the last runtime stage

VARIABLES
  progress,   \* stages 1..progress have passed
  concluded   \* the run has a result

Init == progress = 0 /\ concluded = FALSE

PassStage == progress < Last /\ progress' = progress + 1 /\ UNCHANGED concluded

Conclude == progress = Last /\ ~concluded /\ concluded' = TRUE /\ UNCHANGED progress

Next == PassStage \/ Conclude
Spec == Init /\ [][Next]_<<progress, concluded>>
=============================================================================
