-------------------------- MODULE MCRecoveryAnswers -------------------------
(***************************************************************************)
(* The batches of MCControlPlane, asked about through two stores.          *)
(***************************************************************************)
EXTENDS MCControlPlane, RecoveryAnswers
=============================================================================
