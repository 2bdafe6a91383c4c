---------------------------- MODULE MCInstaller ----------------------------
(* Instance of InstallerTransaction for TLC. *)
EXTENDS InstallerTransaction
=============================================================================
