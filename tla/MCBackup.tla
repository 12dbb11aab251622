------------------------------ MODULE MCBackup ------------------------------
(***************************************************************************)
(* A database of three pages copied two at a time: the last step is short. *)
(***************************************************************************)
EXTENDS Backup
=============================================================================
