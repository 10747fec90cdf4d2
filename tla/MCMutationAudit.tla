-------------------------- MODULE MCMutationAudit --------------------------
(* The TLC instance of MutationAudit.                                       *)
EXTENDS MutationAudit
=============================================================================
