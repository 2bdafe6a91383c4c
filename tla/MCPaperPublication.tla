-------------------------- MODULE MCPaperPublication --------------------------
(***************************************************************************)
(* Constants for model-checking PaperPublication: two sets of risk         *)
(* documents, the second of which refuses a date.                          *)
(***************************************************************************)
EXTENDS PaperPublication

TwoDocuments == {"first", "second"}
SecondDate == {<<2, "second">>}
=============================================================================
