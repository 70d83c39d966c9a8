------------------------- MODULE MCIntegrityChecker -------------------------
(***************************************************************************)
(* IntegrityChecker for TLC.  Employees, contents and callers are          *)
(* interchangeable.                                                        *)
(***************************************************************************)
EXTENDS IntegrityChecker, TLC

Symmetry == Permutations(Employees) \cup Permutations(Contents)
                \cup Permutations(Callers)
=============================================================================
