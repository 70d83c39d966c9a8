-------------------------- MODULE MCAuditPipeline --------------------------
(***************************************************************************)
(* AuditPipeline for TLC.  The request handlers are interchangeable.       *)
(***************************************************************************)
EXTENDS AuditPipeline, TLC

Symmetry == Permutations(Handlers)
=============================================================================
